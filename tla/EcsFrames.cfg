SPECIFICATION Spec
CONSTANTS
  MaxEntities = 2
  MaxTypes = 1
  MaxAdds = 3
INVARIANTS UniqueSequences RefsNeverAlias QueryMeetsFrame DestroyFreesAll
PROPERTY EntitiesLiveOnce
