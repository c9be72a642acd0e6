SPECIFICATION Spec
CONSTANTS
  Page = {1,2,3,4,5,6,7,8,9,10,11,12}
  NPROC = 2
  MaxVa = 3
  PTX = 2
  NKVM = 1
INVARIANTS OneOwner Cr3Owned SizeMapped
