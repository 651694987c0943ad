SPECIFICATION MessageSpec
CONSTANTS
  born1 = born1
  died1 = died1
  fakeBorn = fakeBorn
  strange = strange
  Born = Born
  Died = Died
  Unknown = Unknown
  Events <- ThreeEvents
  Counted = {Born, Died}
  TypeOf <- SomeTypes
  Impostors = {fakeBorn}
  Readers = {r1}
  MaxItems = 3
  MaxArray = 3
INVARIANTS CountsMatch EnumerationComplete CopyToFits
PROPERTIES OthersUntouched YieldsCurrent
