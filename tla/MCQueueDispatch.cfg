SPECIFICATION Spec
CONSTANTS
  Requests = {r1, r2, r3}
  Gates = {1, 2}
  MaxQueueSize = 2
SYMMETRY Symmetry
INVARIANTS TypeOK SlotAccounting ExclusiveOwnership InFlightBounded
PROPERTIES GateRespected StoppingOnlyShrinks ImplementsSlotGate
