------------------------------ MODULE MCReports ------------------------------
\* Instances of Reports for TLC.
EXTENDS Reports, TLC

\* Neither the requests nor the identifiers of sessions are told apart.
Interchangeable == Permutations(Requests) \cup Permutations(Sids)
==============================================================================
