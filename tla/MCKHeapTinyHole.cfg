\* The kernel's own geometry: 4 KiB pages, 12 and 8 byte tags, 0x70000, 0x80000.
SPECIFICATION Spec
CONSTANTS
  Page = 4096
  HeaderSize = 12
  FooterSize = 8
  MinLength = 458752
  InitLength = 524288
  MaxLength = 267907072
  IndexSize = 131072
  Sizes = {462816, 100}
INVARIANT NoMalformedHole
CHECK_DEADLOCK FALSE
