---------------------------- MODULE MCTargetWipe ----------------------------
EXTENDS TargetWipe

\* An entry of whole sectors.
InSectors(start, length) == [used |-> TRUE, start |-> start * Sector, length |-> length * Sector]

\* Tables of three entries on a disk of six sectors and a byte: entries in any
\* order, overlapping, nested, touching, empty, unused, reaching over the end, and
\* behind it.
MCEntries ==
  { InSectors(1, 1), InSectors(1, 3), InSectors(3, 1), InSectors(5, 3), InSectors(7, 1), InSectors(3, 0),
    [InSectors(0, 4) EXCEPT !.used = FALSE] }

MCTables ==
  { [kind |-> "mbr", entries |-> <<a, b, c>>] : a, b, c \in MCEntries }
    \cup { [kind |-> "gpt", entries |-> <<a>>] : a \in MCEntries \cup {InSectors(0, 2)} }
    \cup { [kind |-> k, entries |-> <<>>] : k \in {"none", "mbr", "gpt", "badgpt"} }

\* An image with one partition.
OnePartition ==
  { [kind |-> k, entries |-> << InSectors(1, 3) >>] : k \in {"none", "mbr"} }
=============================================================================
