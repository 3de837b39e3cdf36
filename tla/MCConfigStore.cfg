CONSTANTS
  w1 = w1
  w2 = w2
  p = p
  q = q
  Writers = {w1, w2}
  Editor = Editor
  Names = {p, q}
  Jobs <- MCJobs
  MaxEdits = 2
SPECIFICATION Spec
INVARIANTS OneInside
PROPERTIES UndisturbedSaveAdds OnlyLateEditsAreLost AppliedAsPlanned LocksAreReturned
