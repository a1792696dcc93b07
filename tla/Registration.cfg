SPECIFICATION Spec
CONSTANTS
  Documents <- ExampleAndNear
INVARIANTS
  AdmissionTypeOK
  OneRoundTrip
  FormErrorsShown
  OnlyPostRunLeavesJob
  MountMatchesClaim
CHECK_DEADLOCK FALSE
