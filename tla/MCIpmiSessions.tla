--------------------------- MODULE MCIpmiSessions ---------------------------
(* Model-checking instance of IpmiSessions.                                *)
EXTENDS IpmiSessions
=============================================================================
