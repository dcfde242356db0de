\* Honest proofs, delivered intact, changed in one value or cut short, and
\* proofs made up from any messages; also, for some polynomials, a verifier
\* that holds another aux info.
SPECIFICATION FairSpec
CONSTANTS
  P = 5
  Parallel = TRUE
  Challenge = {1, 3, 4}
  Polynomials <- Provable
  Phases <- BothPhases
  Message <- AllMessages
  Variant <- OneChanged
  Unwritten <- Forged
  AuxInfos <- Aux
  Claims <- TrueOrNot
INVARIANTS
  TypeOK
  MessagesAreRoundSums
  Completeness
  ChallengesAgree
  ChallengesBindMessages
  FalseSumsNeedLuck
  LuckIsRare
PROPERTIES
  CallsReturn
  ImplementsInteractive
CHECK_DEADLOCK FALSE
