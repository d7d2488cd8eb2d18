SPECIFICATION Spec
CONSTANTS
  hemi_hi = hemi_hi
  hemi_lo = hemi_lo
  oc_len = oc_len
  w0 = w0
  w1 = w1
  w2 = w2
  BlobWords <- MCBlobWords
  OtherWords = {w2}
  Foreign = foreign
  NotANumber = NotANumber
  WordModulus = 4
  StorageBytes = 8
  MaxBlobBytes = 8
  MaxEdits = 2
INVARIANT TypeOK
PROPERTIES
  LoadsWhatIsKept
  WholeRestored
