--------------------------- MODULE MCApprovalMode ---------------------------
EXTENDS ApprovalMode
=============================================================================
