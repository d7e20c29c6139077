SPECIFICATION BootSpec
CONSTANTS
  Makes = {1}
  MaxCrash = 1
INVARIANTS
  ParsedWithEngine
