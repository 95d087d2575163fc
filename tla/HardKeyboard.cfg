SPECIFICATION Spec
CONSTANTS
  Letters = {12593, 12596, 12600, 12601, 12610, 12611, 12613, 12616, 12623, 12627, 12631, 12636, 12643}
  MaxReports = 2
INVARIANTS
  KeyboardTypeOK
  EditorAgrees
  DeleteUndoesAppend
  LettersKept
  ComposesWhatItCan
CHECK_DEADLOCK FALSE
