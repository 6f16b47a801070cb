----------------------------- MODULE MCMonitor -----------------------------
EXTENDS Monitor
=============================================================================
