SPECIFICATION AssociationSpec
CONSTANTS
  HoldOff = 3
  Purge = 2
  MaxFaults = 3
  MaxRenewals = 2
  XApp = {x1, x2}
  MaxRecoveryFaults = 2
INVARIANTS PodIsNoDuplicate RecoveryAssociates RecoveredIsRoutable
PROPERTIES RecoveredIsRouted
