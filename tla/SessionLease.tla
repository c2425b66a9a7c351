---------------------------- MODULE SessionLease ----------------------------
(***************************************************************************)
(* What both operations promise the owner of a connection: whatever an     *)
(* operation does to the session while it holds the connection, it hands   *)
(* the connection back only with the session as it found it, and does not  *)
(* touch the session afterwards.                                           *)
(***************************************************************************)
VARIABLES
  phase,    \* who may use the connection
  asFound   \* is the session, for the owner, what it was when lent?

Init == phase = "owner" /\ asFound = TRUE

Lend == phase = "owner" /\ phase' = "operation" /\ UNCHANGED asFound

\* The operation changes the session, or a part of it back.
Use == phase = "operation" /\ asFound' \in BOOLEAN /\ UNCHANGED phase

HandBack == phase = "operation" /\ asFound /\ phase' = "returned" /\ UNCHANGED asFound

Next == Lend \/ Use \/ HandBack

Spec == Init /\ [][Next]_<< phase, asFound >>
=============================================================================
