SPECIFICATION LinkFairSpec
CONSTANTS
  MaxSwipes = 3
  MaxWire = 2
INVARIANTS
  LinkTypeOK
PROPERTIES
  DeliversCardsOnce
  LampSettles
