------------------------------- MODULE MCSTCP -------------------------------
(* STCP on small instances.                                                *)
EXTENDS STCPInv

\* First segments that are not a SYN.
StrayFlags == {{"ACK"}, {"FIN", "ACK"}, {"SYN", "ACK"}}
NoStray == {}

=============================================================================
