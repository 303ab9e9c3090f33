----------------------------- MODULE MCIpmiLogin -----------------------------
EXTENDS IpmiLogin, TLC
=============================================================================
