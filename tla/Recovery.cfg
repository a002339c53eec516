\* One challenge of two wallets with two starts and three guesses; a page opened
\* twice, for a passkey wallet and an e-mail wallet.
CONSTANTS
  Challenges = {ch1}
  Wallets = {w1, w2}
  Inits = {i1}
  Starts = {s1, s2}
  Verifies = {v1, v2, v3}
  MaxInits = 1
  MaxAttempts = 2
  MaxSends = 1
  PageWallets = {"passkey", "email"}
  PasskeyOnes = {"passkey"}
  MaxMounts = 2
  None = None
SPECIFICATION MCSpec
CONSTRAINT TwoAtATime
SYMMETRY Symmetry
INVARIANTS GuessesCounted CredentialsForTheMailed VerifiedSurvives
PROPERTY OverForGood
\* Every call is made once, and the page opened twice at most.
CHECK_DEADLOCK FALSE
