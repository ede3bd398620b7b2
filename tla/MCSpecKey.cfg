SPECIFICATION Spec
CONSTANTS
  Options <- MCOptions
  Launchers <- MCLaunchers
  Arguments <- MCArguments
  Bits <- MCBits
  Single <- MCSingle
  DoubleOf <- MCDoubleOf
  Divisor = 4
  Devices = {0, 3, 4}
  DeviceCount = 4
  Overflows = {30}
  MaxKernels = 1
INVARIANTS FieldsApart HitIsRight SlotsMatch BakedAsPassed ReadersAgree
