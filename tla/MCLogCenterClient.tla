-------------------------- MODULE MCLogCenterClient --------------------------
EXTENDS LogCenterClient, TLC

\* Important events that nothing in a cfg tells apart may be exchanged.
Interchangeable ==
    Permutations(Important \ (Sync \cup Invalid \cup Rejected \cup UNION Oversized))
=============================================================================
