SPECIFICATION Spec
CONSTANTS
  t1 = t1
  t2 = t2
  a = a
  b = b
  x = x
  i1 = i1
  i2 = i2
  Task <- MCTask
  Plain <- MCPlain
  Protected <- MCProtected
  Inode <- MCInode
  None = None
SYMMETRY MCSymmetry
CONSTRAINT MCUnswapped
INVARIANTS TypeOK Sealed
PROPERTIES NamesStay NoneForged
