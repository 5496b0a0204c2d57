SPECIFICATION Spec
CONSTANTS
  Driver <- AllDrivers
  Resource <- AllResources
  Setup <- DriverSetup
  Teardown <- DriverTeardown
  Entry <- EntryPoints
  Strict <- NotOptional
  None = None
INVARIANTS TypeOK OrderedIsSafe CallsSafeElsewhere FailureLeavesOnlyResidue ExitReleasesAll ContextRestored FaultsOnlyUnnoticed
CHECK_DEADLOCK FALSE
