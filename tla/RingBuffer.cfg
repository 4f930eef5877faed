SPECIFICATION Spec
CONSTANTS
  Capacity = 3
  Nil = Nil
  ui = ui
  p1 = p1
  p2 = p2
  p3 = p3
  Packets <- MCPackets
  Readers <- MCReaders
INVARIANTS TypeOK BufferConsistent
PROPERTY ImplementsBoundedHistory
