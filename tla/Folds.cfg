CONSTANTS
  a = a
  b = b
  Records <- FewRecords
  MaxGen = 1
  MaxInc = 1
  Folders <- ThreeFolders
  Refuses <- FolderRefuses
  Initial <- FolderInitial
  Apply <- FolderApply
  States <- FewStates
  Rot = Rot
  None = None
SPECIFICATION Spec
INVARIANTS FoldIsGenuine AcceptedCheckpointIsTrue
PROPERTIES DerivedNeverBlocks
