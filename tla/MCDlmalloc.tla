----------------------------- MODULE MCDlmalloc -----------------------------
EXTENDS Dlmalloc
=============================================================================
