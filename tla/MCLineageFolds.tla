---------------------------- MODULE MCLineageFolds ----------------------------
(* Instances of LineageFolds for TLC.                                      *)
EXTENDS LineageFolds

CONSTANTS a, b

\* Two geneses, and one record on top of the first.
Genesis(d)  == [seq |-> 0, prior |-> None, data |-> d]
FewRecords == {Genesis(a), Genesis(b), [seq |-> 1, prior |-> Genesis(a), data |-> a]}

\* One folder keeps every payload, one the latest alone, and one takes each payload
\* once and refuses b.
ThreeFolders == {"list", "latest", "once"}
FolderRefuses(f, r) == f = "once" /\ r.data = b
FolderInitial(f) == <<>>
FolderApply(f, s, r) ==
  CASE f = "list"   -> Append(s, r.data)
    [] f = "latest" -> <<r.data>>
    [] f = "once"   -> IF r.data \in ToSet(s) THEN None ELSE Append(s, r.data)

\* The state of one record: right or wrong, by the place and the folder.
FewStates == {<<a>>, <<b>>}
===============================================================================
