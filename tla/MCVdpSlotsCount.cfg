SPECIFICATION Spec
INVARIANT
  BlankLineCount
