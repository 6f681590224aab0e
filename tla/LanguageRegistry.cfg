SPECIFICATION RegistrySpec
CONSTANTS
  a = a
  b = b
  c = c
  Caps <- MCCaps
  Offers <- MCOffers
  Needs <- MCNeeds
  MaxGeneration = 2
  MaxLeases = 2
  MaxRetries = 2
INVARIANTS RegistryTypeOK RegistrationsAreKept
PROPERTIES CapabilitiesSettle
CHECK_DEADLOCK FALSE
