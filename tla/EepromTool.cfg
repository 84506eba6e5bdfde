CONSTANTS
  Serials <- SomeSerials
  Places <- SomePlaces
  Values <- SomeValues
  Cuts <- SomeCuts
  Contents <- SomeContents
  MaxWrites = 1
SPECIFICATION ToolSpec
INVARIANTS
  WrittenIsShown
  DamageIsNoticed
  FaultsNeedDamage
