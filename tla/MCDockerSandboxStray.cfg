SPECIFICATION Spec
CONSTANTS
  MaxTurns <- MCMaxTurns
  MaxDiskCheckFailures <- MCMaxDiskCheckFailures
  SettleChecks <- MCSettleChecks
PROPERTY NoProcessOutlivesItsCall
