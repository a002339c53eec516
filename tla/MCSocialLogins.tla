--------------------------- MODULE MCSocialLogins ---------------------------
(***************************************************************************)
(* How wallets begin: sign-ups with a social identity at the hub, and the  *)
(* onboarding page of the extension.  `part` says which of the two moves   *)
(* in a behaviour while the other stands still.                            *)
(***************************************************************************)
EXTENDS SocialLogins, TLC

CONSTANTS c1, c2, c3, s1, s2, e1, old, MaxMounts
VARIABLES page, adding, mounts, flow, made, device, locked, cancelled, stored, overlapped,
          part

\* Two tokens of either subject; they may or may not vouch for the one e-mail
\* address there is.
MCTokens == [jti: {1, 2}, subject: Subjects, email: {e1}, verified: BOOLEAN]

\* The flows of the page take the names of the calls.
pageVars == <<page, adding, mounts, flow, made, device, locked, cancelled, stored, overlapped>>
Page == INSTANCE OnboardPage WITH Flows <- Calls

Symmetry == Permutations(Calls) \union Permutations(Subjects)

MCInit == Init /\ Page!Init /\ part \in {"hub", "page"}

MCNext == \/ part = "hub" /\ Next /\ UNCHANGED <<pageVars, part>>
          \/ part = "page" /\ Page!Next /\ UNCHANGED <<vars, part>>

MCSpec == MCInit /\ [][MCNext]_<<vars, pageVars, part>>

\* Of OnboardPage: an account that was written stays on the device, unless its
\* flow ran beside another, and the hub knows the wallet of every account.
StoredStays == Page!StoredStays
=============================================================================
