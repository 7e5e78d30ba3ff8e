---------------------------- MODULE MCAuditViews ----------------------------
\* Instances of AuditViews for TLC.
EXTENDS AuditViews

TwoTrades == {"t1", "t2"}
=============================================================================
