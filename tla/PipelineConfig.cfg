CONSTANTS
  Documents <- Files
  Ghost = "nobody"
SPECIFICATION Spec
INVARIANTS TypeOK CyclesAreFound PlanIsComplete ErrorsPointHome
PROPERTY VerdictIsReached
