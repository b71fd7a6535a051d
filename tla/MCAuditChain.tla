----------------------------- MODULE MCAuditChain -----------------------------
\* AuditChain for TLC; the transactions are interchangeable.
EXTENDS AuditChain, TLC

WriterSymmetry == Permutations(Writers)
=============================================================================
