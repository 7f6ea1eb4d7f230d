---- MODULE MCDeletions ----
EXTENDS Deletions
CONSTANTS none
K(c, s) == [class |-> c, seq |-> s]
\* incarnations/s/log/, s/log/, s/trims, s/trims-x, s/trims/, s/z, tombstones/s/log/
MCOrder ==
  <<K("incarnation", 0), K("incarnation", 1),
    K("data", 0), K("data", 1), K("data", 2),
    K("certificate", 0), K("plain", 1), K("certificate", 1), K("certificate", 2),
    K("plain", 2),
    K("tombstone", 0), K("tombstone", 1)>>
MCAsked == {K("data", 1), K("data", 2), K("plain", 1), K("certificate", 1)}
====
