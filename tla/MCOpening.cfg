\* Openings of every scheme, and the SNARK, delivered intact, changed or made up.
SPECIFICATION Spec
CONSTANTS
  P = 13
  Parallel = TRUE
  Challenge = {0, 2, 4, 5, 6}
  AllChallenges <- Field
  Scheme = {"vela", "carina", "ukzg", "mkzg", "zeromorph", "mulcs", "gemini",
            "samaritan", "mercury", "chopin", "batch_mkzg", "batch_vela",
            "batch_zeromorph", "batch_mulcs", "batch_gemini", "batch_samaritan",
            "batch_mercury", "batch_chopin", "hyperplonk"}
  Asked <- AskedOf
  Claimed <- ClaimedOf
  ProverScript <- ProverScriptOf
  VerifierScript <- VerifierScriptOf
  Tries <- TriesOf
  Usable <- UsableOf
  Guard <- GuardOf
  Message <- MessageOf
  Offers <- OffersOf
  Verdict <- VerdictOf
  MaxReplaced = 3
  MaxRefused = 2
  Stated <- StatedOf
  Carried <- CarriedOf
  Bound <- BoundOf
  Sample <- SampleOf
  Honest <- HonestOf
  Excused <- DegenerateOf
  Challenges <- ChallengesOf
  Claim <- ClaimOf
  Luck <- LuckOf
  Fits <- FitsOf
INVARIANTS
  TypeOK
  Completeness
  DrawsAgree
  DrawsBind
  
CHECK_DEADLOCK FALSE
