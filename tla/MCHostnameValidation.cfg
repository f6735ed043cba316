SPECIFICATION Spec
CONSTANTS
  NULL = NULL
  Texts <- SomeTexts
  Lower <- LowerCase
  Certs <- SomeCerts
INVARIANTS TypeOK MatchIsSound NotFoundIsComplete SanReleased
PROPERTY ValidateReturns
