SPECIFICATION Spec
CONSTANTS
  Base = 4
  Short = 1
  Long = 2
  Foreign = 3
  Prefix <- MCPrefix
  SizeMax = 7
  MaxFrame = 5
  Texts <- MCTexts
  Null = Null
  Signatures <- MCSignatures
  Payloads <- MCPayloads
INVARIANTS
  TypeOK
  RoundTrip
  AcceptsOneForm
  LimitsAgree
