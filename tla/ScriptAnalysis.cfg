CONSTANT Scripts <- MCScripts
SPECIFICATION Spec
INVARIANTS
  TypeOK
  ControlNeverVanishes
  UnownedIsUnreferenced
  NoFunctionEntersAnother
  EveryRootIsHeld
  FunctionOwnsItsEntry
PROPERTIES
  ImplementsRegions
  Termination
