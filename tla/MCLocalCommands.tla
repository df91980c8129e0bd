--------------------------- MODULE MCLocalCommands --------------------------
EXTENDS LocalCommands

\* Two of the rows that the program can start with: the defaults, and a PIN
\* with a limit.
MCInit == LocalInit /\ (row.pin = NoPin <=> row.limit = 0)

MCSpec == MCInit /\ [][LocalNext]_localVars /\ Fairness

=============================================================================
