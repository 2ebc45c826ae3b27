------------------------------- MODULE MCTimers -------------------------------
EXTENDS Timers

AllKinds == {"session", "discover", "announce", "retry", "reconnect", "quiet",
             "button"}
Reconnect == {"reconnect"}
=============================================================================
