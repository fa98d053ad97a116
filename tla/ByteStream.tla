------------------------------ MODULE ByteStream ------------------------------
(***************************************************************************)
(* What the receive half of a connection is to the application that reads  *)
(* it: a stream of bytes that arrives from the first on without a gap, is  *)
(* read up to where it has arrived, and has ended when all of it was read. *)
(***************************************************************************)
EXTENDS Integers

CONSTANTS First, Last  \* place of the first byte, and of the end

VARIABLES
  arrived,  \* place up to which all has arrived, beyond Last with the end
  read,     \* place of the next byte the application gets
  ended     \* whether it was told that there is no more

stream == <<arrived, read, ended>>

Init == arrived = First /\ read = First /\ ended = FALSE

Arrive == /\ arrived' \in arrived + 1 .. Last + 1
          /\ UNCHANGED <<read, ended>>

Read == /\ ~ended
        /\ read' \in read + 1 .. Last
        /\ read' <= arrived
        /\ UNCHANGED <<arrived, ended>>

Finish == /\ ~ended /\ read = Last /\ arrived = Last + 1
          /\ ended' = TRUE
          /\ UNCHANGED <<arrived, read>>

Next == Arrive \/ Read \/ Finish

Spec == Init /\ [][Next]_stream
=============================================================================
