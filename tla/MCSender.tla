------------------------------ MODULE MCSender ------------------------------
(* One message of four fragments, the last one short: enough for three     *)
(* acknowledgements above a hole, and for a probe to overtake a timeout.   *)
EXTENDS SequenceSender
=============================================================================
