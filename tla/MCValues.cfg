SPECIFICATION Spec
CONSTANTS
  Ids = {1, 2}
  Keys = {"k"}
  MaxTop = 3
  MaxInteger = 7
  Types <- MCTypes
  NameLists <- MCNameLists
  Sizes = {0, 1, 3}
  Scalars <- MCScalars
  Arguments <- MCArguments
  Milli = 2
  PerSecond = 2
  IntMax = 7
  Numbers <- MCNumbers
  Seconds <- MCSeconds
  MaxSec = 2
PROPERTIES
  HelpersKeepPromises
  TimesAreExact
