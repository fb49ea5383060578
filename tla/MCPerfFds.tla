----------------------------- MODULE MCPerfFds -----------------------------
EXTENDS PerfFds

Metal   == [cores |-> 1, pmu |-> TRUE,  maxFd |-> 8]
Virtual == [cores |-> 0, pmu |-> FALSE, maxFd |-> 2]

MCHosts == {Metal, Virtual}

\* --per-core where there is no PMU.
VirtualPerCore == [cores |-> 1, pmu |-> FALSE, maxFd |-> 4]

MCPerCoreHosts == {VirtualPerCore}
=============================================================================
