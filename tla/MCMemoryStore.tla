---------------------------- MODULE MCMemoryStore ---------------------------
EXTENDS MemoryStore

=============================================================================
