SPECIFICATION DeploymentSpec
CONSTANTS
  Beneficiaries <- MCBeneficiaries
  Refusals <- MCRefusals
  MaxCrashes = 2
INVARIANTS
  SavedAreLinkedToSaved
  PassedStepsHold
PROPERTIES
  EndsOrIsRefused
\* The script has ended.
CHECK_DEADLOCK FALSE
