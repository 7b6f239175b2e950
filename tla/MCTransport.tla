---------------------------- MODULE MCTransport -----------------------------
(* One message of three fragments, the last one short.                      *)
EXTENDS Transport

MCTypePrio == [m \in Ids |-> 4]
=============================================================================
