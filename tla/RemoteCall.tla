------------------------------ MODULE RemoteCall ------------------------------
(***************************************************************************)
(* What the host library promises its caller: calls are made one at a      *)
(* time, and each returns either the answer to that very call or an error. *)
(***************************************************************************)
EXTENDS Naturals

VARIABLES calling,   \* a call is under way
          number,    \* how many calls were made
          result     \* the last call that returned, and the call answered

NoAnswer == 0

Init == calling = FALSE /\ number = 0 /\ result = [call |-> 0, got |-> NoAnswer]

Begin ==
  /\ ~ calling
  /\ calling' = TRUE
  /\ number' = number + 1
  /\ UNCHANGED result

Return(got) ==
  /\ calling
  /\ calling' = FALSE
  /\ result' = [call |-> number, got |-> got]
  /\ UNCHANGED number

\* The request could not even be sent.
Refused ==
  /\ ~ calling
  /\ number' = number + 1
  /\ result' = [call |-> number + 1, got |-> NoAnswer]
  /\ UNCHANGED calling

Next == Begin \/ Return(number) \/ Return(NoAnswer) \/ Refused

vars == <<calling, number, result>>

Safety == Init /\ [][Next]_vars

Spec == Safety /\ WF_vars(Return(number) \/ Return(NoAnswer))
=============================================================================
