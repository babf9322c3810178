\* Widths 5, 4 and 2 in place of 64, 32 and 8.
SPECIFICATION Spec
CONSTANTS
  Half64 = 16
  Half32 = 8
  Half8 = 2
INVARIANTS
  FlagTellsAll
  LanguagesAgree
