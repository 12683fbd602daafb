SPECIFICATION Spec
CONSTANTS
  Page = 8
  HeaderSize = 2
  FooterSize = 1
  MinLength = 8
  InitLength = 8
  MaxLength = 32
  IndexSize = 3
  Sizes = {1, 6}
INVARIANTS
  TypeOK
  BlocksTileArena
  IndexListsHoles
  HolesCoalesced
  OwnedIntact
  RetriesBounded
CHECK_DEADLOCK FALSE
