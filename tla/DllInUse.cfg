SPECIFICATION Spec
CONSTANTS
  Scripts = {"send"}
  Layouts <- AnyLayout
  CopyMayFail = FALSE
INVARIANT ErrorRestores
