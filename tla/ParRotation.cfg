\* A table with a bad rotation is refused, then the console writes the parameters.
SPECIFICATION Spec
PROPERTY RotationValid
CONSTANTS
  Version = {"v1", "v2"}
  OddFields = {4}
