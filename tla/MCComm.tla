------------------------------- MODULE MCComm -------------------------------
(* Small instances of CommDetect.  A page frame has two addresses here, so *)
(* PAGE_SHIFT is 1 and, the frame being never 0, addresses start at 2.     *)
EXTENDS CommDetect

MCHash == [p \in Pages |-> p % 2]

=============================================================================
