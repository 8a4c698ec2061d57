CONSTANTS
  MaxCommits = 4
  Carry = FALSE
  Unpinned = FALSE
  Hotfixes = FALSE
SPECIFICATION ReleaseSpec
PROPERTY
  NoRevertOfRevert
