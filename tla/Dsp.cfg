CONSTANTS
  w = 3
  H = 4
  Operands <- AllOperands
SPECIFICATION Spec
INVARIANTS ShiftsScale FractionsAgree
PROPERTY IdealSpec
