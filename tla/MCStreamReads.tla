---- MODULE MCStreamReads ----
EXTENDS StreamReads
CONSTANTS a, b
MCEvents == {a, b}
MCHistories == {<<a>>, <<b, a>>}
\* Only the first number is written again with another event.
MCWritten == [s \in Seqs |-> IF s = 1 THEN {a, b} ELSE {a}]
====
