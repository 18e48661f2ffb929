----------------------------- MODULE MCIAXLink -----------------------------
\* The IAX link with interchangeable calls and addresses (safety only).
EXTENDS IAXLink, TLC

Symmetry == Permutations(CallIds) \cup Permutations(Sessions)
=============================================================================
