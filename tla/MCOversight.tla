----------------------------- MODULE MCOversight -----------------------------
EXTENDS Watchdog
MCSilence == [market |-> 1]
=============================================================================
