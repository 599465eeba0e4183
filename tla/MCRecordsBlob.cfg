SPECIFICATION Spec
CONSTANTS
  WordBits = 2
  LengthBits = 2
  Numbers = {0, 1, 3}
  MaxScalars = 0
  MaxArray = 1
  MaxBlob = 4
INVARIANT BlobCounted
