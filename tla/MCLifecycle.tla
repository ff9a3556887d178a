---------------------------- MODULE MCLifecycle ----------------------------
EXTENDS LifecycleProps

CONSTANTS d1, d2, u1, l1, l2

OneDaemon    == {d1}
TwoDaemons   == {d1, d2}
OneUser      == {u1}
OneLayout    == {l1}
TwoLayouts   == {l1, l2}
=============================================================================
