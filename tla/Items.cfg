CONSTANTS
  i1 = i1  i2 = i2  i3 = i3  i4 = i4  s1 = s1  s2 = s2  s3 = s3  Spare = {s1, s2, s3}
  Id = {i1, i2, i3, i4, s1, s2, s3}
  Null = Null
  Fold <- MCFold
  Program <- MCProgram
  Val = {1}
  MaxPlace = 2
  MaxHeld = 2
SPECIFICATION Spec
SYMMETRY Symmetry
INVARIANT TypeOK
INVARIANT ListsLinked
INVARIANT NothingLost
INVARIANT NamedMembersFound
 
INVARIANT CopyWholeOrNothing
PROPERTY ImplementsForest
