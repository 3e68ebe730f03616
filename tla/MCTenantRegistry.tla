-------------------------- MODULE MCTenantRegistry --------------------------
EXTENDS TenantRegistry, TLC

TwoTimes == 0 .. 1
ThreeTimes == 0 .. 2
=============================================================================
