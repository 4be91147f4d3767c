SPECIFICATION Spec
CONSTANTS
  Mmc = mmc
  nvme = nvme
  ExtOrder <- MCOneDisk
  Pages = {p1}
  Sources = {"system", "ours", "foreign_short"}
  Jobs = {j1}
  None = None
INVARIANTS TypeOK JobNeverWaits
PROPERTIES DoneMeansInstalled OwnDiskId RunningDiskKept
