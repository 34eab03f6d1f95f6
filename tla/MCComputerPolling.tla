-------------------------- MODULE MCComputerPolling --------------------------
(* A PC that is polled, paired with, found again and removed. *)
EXTENDS ComputerPolling
CONSTANT discovery
MCAdders == {discovery}
=============================================================================
