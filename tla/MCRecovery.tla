----------------------------- MODULE MCRecovery ------------------------------
(***************************************************************************)
(* E-mail recovery on both sides: the challenges of the hub, and the page  *)
(* that leads the user through one.  `part` says which of the two moves in *)
(* a behaviour while the other stands still.                               *)
(***************************************************************************)
EXTENDS RecoveryChallenges, TLC

CONSTANTS PageWallets, PasskeyOnes, MaxMounts, None
VARIABLES mount, mounts, pin, page, ops, queue, stored, hub, passkeys, sealed, saved,
          dropped, overlapped, part

pageVars == <<mount, mounts, pin, page, ops, queue, stored, hub, passkeys, sealed, saved,
              dropped, overlapped>>
Page == INSTANCE RecoverPage WITH Wallets <- PageWallets

\* What the page stores of itself, and what it keeps of a code that was right.
Verifications == [challenge: Challenges, wallet: PageWallets]
Checkpoints == [step: {"email", "otp", "pick", "password", "done"},
                challenge: Challenges \union {None}, picked: PageWallets \union {None},
                cands: SUBSET PageWallets, verified: Verifications \union {None},
                pin: PageWallets \union {None}, old: BOOLEAN]

ASSUME NoneIsNothing == None \notin Challenges \union PageWallets \union Verifications \union Checkpoints

Symmetry == UNION {Permutations(S) : S \in {Starts, Verifies, Wallets}}

\* At most two callbacks of the page are under way.
TwoAtATime == Cardinality(ops) <= 2

MCInit == /\ Init
          /\ Page!Init
          /\ part \in {"hub", "page"}

MCNext == \/ part = "hub" /\ Next /\ UNCHANGED <<pageVars, part>>
          \/ part = "page" /\ Page!Next /\ UNCHANGED <<vars, part>>

MCSpec == MCInit /\ [][MCNext]_<<vars, pageVars, part>>

\* Of RecoverPage: credentials verified while nothing else was under way stay
\* until they are used, given up or past their time.
VerifiedSurvives == Page!VerifiedSurvives
=============================================================================
