-------------------------- MODULE MCStdioSession --------------------------
(***************************************************************************)
(* Small instances of StdioSession for TLC: stream 1 carries the handshake *)
(* in the interesting behaviours, 2 and 4 share a request identifier, and  *)
(* 3 needs the whole blob reservation.                                     *)
(***************************************************************************)
EXTENDS StdioSession, TLC

MC_RidOf == [s \in Stream |-> IF s % 2 = 0 THEN "even" ELSE ToString(s)]
MC_ControlBytes == [s \in Stream |-> IF s = 3 THEN 2 ELSE 1]
MC_BlobBytes == [s \in Stream |-> IF s = 3 THEN 3 ELSE 1]
============================================================================
