---------------------------- MODULE MCLeadership ----------------------------
EXTENDS Leadership
=============================================================================
