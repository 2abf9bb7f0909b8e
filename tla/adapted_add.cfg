SPECIFICATION Spec
CONSTANTS
  None = None
  Keys = {k1, k2, k3}
  Values = {v1, v2}
  InitialSize = 2
  Sizes = {0, 1, 2, 3}
PROPERTIES
  AddStoresAndReports
