SPECIFICATION Spec
CONSTANTS
  Inputs <- Titled
  Limits <- Roomy
INVARIANT HeadingNeverLast
CHECK_DEADLOCK FALSE
