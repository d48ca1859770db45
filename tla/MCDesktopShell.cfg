SPECIFICATION Spec
CONSTANTS
  s1 = s1
  s2 = s2
  Imported = Imported
  NewPin = NewPin
  Seeds <- MCSeeds
SYMMETRY MCSymmetry
INVARIANTS
  TypeOK
  BlurHides
  EveryPhraseWasShown
PROPERTY RevealNeedsFreshPin
