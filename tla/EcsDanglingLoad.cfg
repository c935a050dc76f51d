SPECIFICATION Spec
CONSTANTS
  MaxEntities = 1
  MaxTypes = 1
  MaxAdds = 2
INVARIANT ComponentIsAllocated
