CONSTANTS
  t1 = t1
  t2 = t2
  NoButton = NoButton
  NoThread = NoThread
  Specials <- MCSpecials
  Repetitive <- MCRepetitive
  PopupKeys <- MCPopupKeys
  OtherKeys <- MCOtherKeys
  Threads <- MCThreads
  HwKeys <- MCHwKeys
  MaxFingers = 2
  MaxUses = 2
  MaxHeld = 2
SPECIFICATION Spec
CHECK_DEADLOCK FALSE
INVARIANTS
  TypeOK
  OneShotOnce
  KeyUpsMatch
PROPERTIES
  LockHolds
  TapTypes
