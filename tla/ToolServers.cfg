SPECIFICATION Spec
CONSTANTS
  Nothing = Nothing
  Pairs <- CheckedPairs
  Quotes <- CheckedQuotes
  Statuses <- CheckedStatuses
  ErrorTypes <- CheckedErrorTypes
  Names <- CheckedNames
  Expressions <- CheckedExpressions
  Templates <- CheckedTemplates
  ArgSizes <- CheckedArgSizes
  Sleeps <- CheckedSleeps
  Payloads <- CheckedPayloads
  Rates <- CheckedRates
  Urls <- CheckedUrls
  Address <- CheckedAddress
  Bytes <- CheckedBytes
  Json <- CheckedJson
  Conforming <- CheckedConforming
  PublisherUrls <- CheckedPublisherUrls
  RedirectHosts <- CheckedRedirectHosts
  Inputs <- CheckedInputs
  MAX_DAY = 3
  WIDTH = 3
  MAX_LEN = 3
  MAX_INPUT_BYTES = 24
  MAX_OUTPUT_BYTES = 16
  MAX_EXPRESSIONS = 2
  MAX_ARGS = 2
  MAX_DEPTH = 3
  MAX_SLEEP_MS = 60000
  MAX_PAYLOAD_BYTES = 61000
  TIMEOUT_MS = 5000
  TICK_MS = 5000
  PAGES = 3
INVARIANTS
  CoinbaseIsHonest
  MathIsExact
  
  LoadIsAsAsked
  NothingIsDropped
  PagesInOrder
  EndpointIsChecked
  DeliveredIsValidated
  TokenStaysHome
CHECK_DEADLOCK FALSE
