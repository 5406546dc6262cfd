---- MODULE MCMockDevice ----
EXTENDS MockDevice, TLC
====
