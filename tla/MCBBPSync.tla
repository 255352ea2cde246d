------------------------------ MODULE MCBBPSync ------------------------------
EXTENDS BBPSync

One == {{1}}
Each == {{1}, {2}}
Pairs == {{}, {1, 2}, {2, 3}}
=============================================================================
