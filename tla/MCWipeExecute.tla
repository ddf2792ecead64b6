---------------------------- MODULE MCWipeExecute ----------------------------
EXTENDS WipeExecute

\* A small rotational disk and an internal SSD: one for each engine, one that
\* can be erased.
SomeDisks ==
  { [removable |-> FALSE, rotational |-> TRUE,  ssd |-> FALSE, capacity |-> SequentialLimit],
    [removable |-> FALSE, rotational |-> FALSE, ssd |-> TRUE,  capacity |-> 1024] }
=============================================================================
