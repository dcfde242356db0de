\* Whatever the SNARK accepts, a proof with more commitments included.
SPECIFICATION Spec
CONSTANTS
  P = 13
  Parallel = TRUE
  Challenge = {0, 2, 4, 5, 6}
  AllChallenges <- Field
  Scheme = {"hyperplonk"}
  Asked <- MoreCommitments
  Claimed <- ClaimedOf
  ProverScript <- ProverScriptOf
  VerifierScript <- VerifierScriptOf
  Tries <- TriesOf
  Usable <- UsableOf
  Guard <- GuardOf
  Message <- MessageOf
  Offers <- OffersOf
  Verdict <- VerdictOf
  MaxReplaced = 3
  MaxRefused = 2
  Stated <- StatedOf
  Carried <- CarriedOf
  Bound <- BoundOf
  Sample <- SampleOf
  Honest <- HonestOf
  Excused <- DegenerateOf
  Challenges <- ChallengesOf
  Claim <- ClaimOf
  Luck <- LuckOf
  Fits <- FitsOf
INVARIANTS
  EveryFalseOpeningNeedsLuck
CHECK_DEADLOCK FALSE
