\* One location, three changes of the form, over any number of openings.
SPECIFICATION Spec
CONSTANTS
  Texts <- SomeTexts
  Numbers <- SomeNumbers
  half = half
  Fractions <- OneFraction
  NoNumber = NoNumber
  jsNumber <- NumberOf
  jsString <- StringOf
  jsTrim <- TrimOf
  Keys <- SomeKeys
  AdvancedTexts <- SomeJSON
  NoObject = NoObject
  NoLimit = NoLimit
  NoRow = NoRow
  NoForm = NoForm
  MaxEdits = 3
INVARIANTS
  DrawerTypeOK
  UntouchedKept
  SavedIsShown
  RefusedForCause
