--------------------------- MODULE MCDetachedWipe ---------------------------
EXTENDS DetachedWipe

\* One USB disk that is overwritten and discarded, and one internal SSD that
\* is to be erased.
Usb == [removable |-> TRUE, rotational |-> FALSE, ssd |-> FALSE, capacity |-> 32]
Ssd == [removable |-> FALSE, rotational |-> FALSE, ssd |-> TRUE, capacity |-> 512]
SomeDisks == {Usb, Ssd}

SomeRequests ==
  { c \in Configs :
      /\ c.windows /\ c.physical /\ ~c.dryRun /\ c.ranges = "whole" /\ c.passes = 0
      /\ \/ c.geo = Usb /\ c.profile = "ghost" /\ c.allowTrim /\ ~c.secureErase
         \/ c.geo = Ssd /\ c.profile = "flash-realist" /\ ~c.allowTrim /\ c.secureErase }
=============================================================================
