-------------------------- MODULE WalletLinksProofs --------------------------
(***************************************************************************)
(* One session per challenge, sessions only for users who hold what signed *)
(* for them, and no lost first address, for any number of calls, users,    *)
(* wallets, challenges and faults, by the inductive invariant IInv.        *)
(***************************************************************************)
EXTENDS WalletLinks, SequenceTheorems, TLAPS

(* What a place in the handler says of what the call works on.  A call at  *)
(* "mint" holds the lock of an unspent challenge.                          *)
CallFits(c) ==
    /\ pc[c] \in {"confirm", "issue"} =>
         /\ args[c].user \in Users
         /\ args[c].proof \in Resources
    /\ pc[c] = "mint" =>
         /\ args[c].challenge \in 1..Len(challenges)
         /\ locked[args[c].challenge] = c
         /\ ~challenges[args[c].challenge].spent
    /\ pc[c] = "revoke" => args[c].session \in 1..Len(sessions)
    /\ pc[c] \in {"record", "claim", "store"} =>
         /\ args[c].user \in Users
         /\ args[c].challenge \in 1..Len(linkChallenges)
    /\ pc[c] \in {"claim", "store"} => linkChallenges[args[c].challenge].user = args[c].user
    /\ pc[c] = "store" => args[c].seen \in Link \union {None}

(* A session is its challenge's user's, and spends the challenge.          *)
SessionsFit ==
    \A s \in 1..Len(sessions) :
        /\ sessions[s].challenge \in 1..Len(challenges)
        /\ challenges[sessions[s].challenge].spent
        /\ challenges[sessions[s].challenge].user = sessions[s].user

(* The user proved the wallet's address with this linking challenge.       *)
Shown(u, w) ==
    \E i \in 1..Len(linkChallenges) :
        /\ linkChallenges[i].user = u
        /\ linkChallenges[i].wallet = w
        /\ linkChallenges[i].used

(* A link was proved, and inserted under some address.                     *)
LinksFit ==
    \A u \in Users, w \in Wallets :
        links[<<u, w>>] # None => Shown(u, w) /\ first[<<u, w>>] \in Identities

IInv ==
    /\ TypeOK
    /\ DOMAIN args = Calls
    /\ trusted \subseteq Genuine
    /\ \A c \in Calls : CallFits(c)
    /\ SessionsFit
    /\ LinksFit
    /\ OneSession
    /\ SessionsAreProven
    /\ FirstAddressKept

-----------------------------------------------------------------------------
(* Frames *)

\* What no step undoes: rows are only added, and keep whose they are; what is
\* spent or used stays so; the session rows keep their challenge.
Grown ==
    /\ Len(challenges) <= Len(challenges')
    /\ \A i \in 1..Len(challenges) :
         /\ challenges'[i].user = challenges[i].user
         /\ challenges'[i].proof = challenges[i].proof
         /\ challenges[i].spent => challenges'[i].spent
    /\ Len(sessions) <= Len(sessions')
    /\ \A s \in 1..Len(sessions) :
         /\ sessions'[s].user = sessions[s].user
         /\ sessions'[s].challenge = sessions[s].challenge
    /\ Len(linkChallenges) <= Len(linkChallenges')
    /\ \A i \in 1..Len(linkChallenges) :
         /\ linkChallenges'[i].user = linkChallenges[i].user
         /\ linkChallenges'[i].wallet = linkChallenges[i].wallet
         /\ linkChallenges[i].used => linkChallenges'[i].used

LEMMA Lengths ==
  ASSUME TypeOK
  PROVE  /\ Len(challenges) \in Nat
         /\ Len(sessions) \in Nat
         /\ Len(linkChallenges) \in Nat
BY DEF TypeOK

LEMMA UnchangedGrown ==
  ASSUME TypeOK, UNCHANGED <<challenges, sessions, linkChallenges>>
  PROVE  Grown
BY Lengths DEF Grown

\* A call that moves: only its own place and work change.
LEMMA CallMoves ==
  ASSUME TypeOK, DOMAIN args = Calls, NEW c \in Calls, NEW place \in Places, NEW a,
         pc' = [pc EXCEPT ![c] = place],
         args' = [args EXCEPT ![c] = a]
  PROVE  /\ pc' \in [Calls -> Places]
         /\ DOMAIN args' = Calls
         /\ pc'[c] = place /\ args'[c] = a
         /\ \A d \in Calls \ {c} : pc'[d] = pc[d] /\ args'[d] = args[d]
BY DEF TypeOK

\* A call that stands where it was fits, unless it minted with a row whose
\* lock or use changed.
LEMMA CallStays ==
  ASSUME IInv, Grown, NEW d \in Calls, pc'[d] = pc[d], args'[d] = args[d],
         pc[d] = "mint" => /\ locked'[args[d].challenge] = locked[args[d].challenge]
                           /\ challenges'[args[d].challenge].spent = challenges[args[d].challenge].spent
  PROVE  CallFits(d)'
<1>1. CallFits(d) /\ TypeOK
  BY DEF IInv
<1>2. Len(challenges) \in Nat /\ Len(sessions) \in Nat /\ Len(linkChallenges) \in Nat
  BY <1>1, Lengths
<1>3. CASE pc[d] \in {"confirm", "issue"}
  BY <1>1, <1>3 DEF CallFits
<1>4. CASE pc[d] = "mint"
  BY <1>1, <1>2, <1>4 DEF CallFits, Grown
<1>5. CASE pc[d] = "revoke"
  BY <1>1, <1>2, <1>5 DEF CallFits, Grown
<1>6. CASE pc[d] \in {"record", "claim", "store"}
  BY <1>1, <1>2, <1>6 DEF CallFits, Grown
<1>7. CASE pc[d] \notin {"confirm", "issue", "mint", "revoke", "record", "claim", "store"}
  BY <1>7 DEF CallFits
<1> QED BY <1>3, <1>4, <1>5, <1>6, <1>7

LEMMA ShownStays ==
  ASSUME TypeOK, TypeOK', Grown, NEW u, NEW w, Shown(u, w)
  PROVE  Shown(u, w)'
<1>1. /\ Len(linkChallenges) \in Nat /\ Len(linkChallenges') \in Nat
  BY Lengths DEF TypeOK
<1> QED BY <1>1 DEF Shown, Grown

LEMMA SessionsStay ==
  ASSUME IInv, TypeOK', Grown, Len(sessions') = Len(sessions)
  PROVE  SessionsFit' /\ OneSession' /\ SessionsAreProven'
<1>1. SessionsFit /\ OneSession /\ SessionsAreProven /\ TypeOK
  BY DEF IInv
<1>2. /\ Len(challenges) \in Nat /\ Len(sessions) \in Nat /\ Len(linkChallenges) \in Nat
      /\ Len(challenges') \in Nat /\ Len(linkChallenges') \in Nat
  BY <1>1, Lengths DEF TypeOK
<1>3. 1..Len(challenges) \subseteq 1..Len(challenges') /\ 1..Len(linkChallenges) \subseteq 1..Len(linkChallenges')
  BY <1>2 DEF Grown
<1>4. SessionsFit'
  BY <1>1, <1>3 DEF SessionsFit, Grown
<1>5. OneSession'
  BY <1>1 DEF OneSession, Grown
<1>6. SessionsAreProven'
  <2> SUFFICES ASSUME NEW s \in 1..Len(sessions'), NEW u, NEW p,
                      u = sessions'[s].user,
                      p = challenges'[sessions'[s].challenge].proof
      PROVE  (p \in Genuine /\ Holder[p] = u) \/ Shown(u, p)'
    BY DEF SessionsAreProven, Shown
  <2>1. u = sessions[s].user /\ p = challenges[sessions[s].challenge].proof
    BY <1>1, <1>3 DEF SessionsFit, Grown
  <2>2. (p \in Genuine /\ Holder[p] = u) \/ Shown(u, p)
    BY <1>1, <2>1 DEF SessionsAreProven, Shown
  <2> QED BY <1>1, <2>1, <2>2, ShownStays
<1> QED BY <1>4, <1>5, <1>6

LEMMA LinksStay ==
  ASSUME IInv, TypeOK', Grown, UNCHANGED <<links, first>>
  PROVE  LinksFit' /\ FirstAddressKept'
<1>1. LinksFit'
  BY ShownStays DEF IInv, LinksFit
<1> QED BY <1>1 DEF IInv, FirstAddressKept

\* A handler that takes a step: what is left to show of it.
LEMMA StepKeeps ==
  ASSUME IInv, TypeOK', Grown, NEW c \in Calls, NEW place \in Places, NEW a,
         pc' = [pc EXCEPT ![c] = place],
         args' = [args EXCEPT ![c] = a],
         trusted' \subseteq Genuine,
         \A d \in Calls \ {c} : pc[d] = "mint" =>
            /\ locked'[args[d].challenge] = locked[args[d].challenge]
            /\ challenges'[args[d].challenge].spent = challenges[args[d].challenge].spent,
         CallFits(c)',
         SessionsFit', OneSession', SessionsAreProven',
         LinksFit', FirstAddressKept'
  PROVE  IInv'
<1>1. DOMAIN args' = Calls /\ \A d \in Calls \ {c} : pc'[d] = pc[d] /\ args'[d] = args[d]
  BY CallMoves DEF IInv
<1>2. \A d \in Calls \ {c} : CallFits(d)'
  BY <1>1, CallStays
<1> QED BY <1>1, <1>2 DEF IInv

\* A handler that only moves.
LEMMA HandlerMoves ==
  ASSUME IInv, NEW c \in Calls, NEW place \in Places, NEW a,
         pc' = [pc EXCEPT ![c] = place],
         args' = [args EXCEPT ![c] = a],
         UNCHANGED <<own, links, linkOwn>>,
         CallFits(c)'
  PROVE  IInv'
<1>1. Grown /\ UNCHANGED <<trusted, challenges, locked, sessions, linkChallenges, linkLocked, first, trail>>
  BY UnchangedGrown DEF IInv, own, linkOwn
<1>2. TypeOK'
  BY <1>1, CallMoves DEF IInv, TypeOK
<1>3. SessionsFit' /\ OneSession' /\ SessionsAreProven' /\ LinksFit' /\ FirstAddressKept'
  BY <1>1, <1>2, SessionsStay, LinksStay
<1> QED BY <1>1, <1>2, <1>3, StepKeeps DEF IInv

\* A step of time, or of a transaction that is a whole handler.
LEMMA NobodyMoves ==
  ASSUME IInv, TypeOK', Grown,
         UNCHANGED <<pc, args, trusted, locked, links, first>>,
         \A i \in 1..Len(challenges) : challenges'[i].spent = challenges[i].spent,
         Len(sessions') = Len(sessions)
  PROVE  IInv'
<1>1. \A d \in Calls : CallFits(d)'
  <2> SUFFICES ASSUME NEW d \in Calls PROVE CallFits(d)'
    OBVIOUS
  <2>1. pc[d] = "mint" => args[d].challenge \in 1..Len(challenges)
    BY DEF IInv, CallFits
  <2> QED BY <2>1, CallStays
<1> QED BY <1>1, SessionsStay, LinksStay DEF IInv

\* An answer leaves nothing to fit.
LEMMA AnswerFits ==
  ASSUME TypeOK, NEW c \in Calls, NEW what, Answer(c, what)
  PROVE  /\ pc' = [pc EXCEPT ![c] = "done"]
         /\ args' = [args EXCEPT ![c] = None]
         /\ "done" \in Places
         /\ CallFits(c)'
BY DEF Answer, CallFits, TypeOK, Places

\* The rows that two calls mint with are not the same.
LEMMA MintRowsDiffer ==
  ASSUME IInv, NEW c \in Calls, NEW d \in Calls \ {c}, pc[c] = "mint", pc[d] = "mint"
  PROVE  args[d].challenge # args[c].challenge
BY DEF IInv, CallFits

\* A transaction that ends gives up its lock and no other.
LEMMA ReleaseFrees ==
  ASSUME IInv, NEW c \in Calls, pc[c] = "mint", Release(args[c].challenge)
  PROVE  /\ locked' \in [1..MaxChallenges -> Calls \union {None}]
         /\ \A d \in Calls \ {c} : pc[d] = "mint" =>
              locked'[args[d].challenge] = locked[args[d].challenge]
<1>1. \A d \in Calls : pc[d] = "mint" => args[d].challenge \in DOMAIN locked
  BY BoundsOK, Lengths DEF IInv, TypeOK, CallFits
<1>2. locked' = [locked EXCEPT ![args[c].challenge] = None]
  BY DEF Release
<1>3. locked' \in [1..MaxChallenges -> Calls \union {None}]
  BY <1>1, <1>2 DEF IInv, TypeOK
<1> QED BY <1>1, <1>2, <1>3, MintRowsDiffer

-----------------------------------------------------------------------------
(* Sessions *)

LEMMA InitIsSafe == Init => IInv
<1> SUFFICES ASSUME Init PROVE IInv
  OBVIOUS
<1>1. Len(challenges) = 0 /\ Len(sessions) = 0 /\ Len(linkChallenges) = 0
  BY DEF Init, AuthInit
<1>2. TypeOK
  <2>1. challenges \in Seq(Challenge) /\ sessions \in Seq(Session) /\ linkChallenges \in Seq(LinkChallenge)
    BY DEF Init, AuthInit
  <2> QED BY <1>1, <2>1, HolderOK, BoundsOK, LinkBoundOK DEF Init, AuthInit, TypeOK, Places
<1>3. SessionsFit /\ OneSession /\ SessionsAreProven
  BY <1>1 DEF SessionsFit, OneSession, SessionsAreProven
<1>4. LinksFit /\ FirstAddressKept
  BY DEF Init, LinksFit, FirstAddressKept
<1>5. \A c \in Calls : CallFits(c)
  BY DEF Init, AuthInit, CallFits
<1> QED BY <1>2, <1>3, <1>4, <1>5 DEF IInv, Init, AuthInit

LEMMA AskChallengeKeeps ==
  ASSUME IInv, NEW c \in Calls, NEW u \in Users, NEW r \in Resources, AskChallenge(c, u, r), UNCHANGED linkOwn
  PROVE  IInv'
<1>1. UNCHANGED <<own, links, linkOwn>>
  BY DEF AskChallenge
<1>2. CASE Answer(c, "refused")
  BY <1>1, <1>2, AnswerFits, HandlerMoves DEF IInv
<1>3. ASSUME NEW place \in {"issue", "confirm"}, Goto(c, place, [user |-> u, proof |-> r])
      PROVE  IInv'
  <2>1. CallFits(c)'
    BY <1>3 DEF IInv, TypeOK, Goto, CallFits
  <2> QED BY <1>1, <1>3, <2>1, HandlerMoves DEF Goto, Places
<1> QED BY <1>2, <1>3 DEF AskChallenge

LEMMA ConfirmKeyKeeps ==
  ASSUME IInv, NEW c \in Calls, ConfirmKey(c), UNCHANGED linkOwn
  PROVE  IInv'
<1>1. /\ pc[c] = "confirm" /\ UNCHANGED <<challenges, locked, sessions, links>>
      /\ UNCHANGED <<linkChallenges, linkLocked, first, trail>>
  BY DEF ConfirmKey, linkOwn
<1>2. CASE Answer(c, "refused") /\ UNCHANGED trusted
  <2>1. UNCHANGED own
    BY <1>1, <1>2 DEF own
  <2> QED BY <1>1, <1>2, <2>1, AnswerFits, HandlerMoves DEF IInv
<1>3. CASE /\ args[c].proof \in Genuine
           /\ trusted' = trusted \union {args[c].proof}
           /\ Goto(c, "issue", args[c])
  <2>1. /\ pc' = [pc EXCEPT ![c] = "issue"] /\ args' = [args EXCEPT ![c] = args[c]]
        /\ "issue" \in Places
    BY <1>3 DEF Goto, Places
  <2>2. CallFits(c)'
    BY <1>1, <2>1 DEF IInv, TypeOK, CallFits
  <2>3. TypeOK'
    BY <1>1, <1>3, <2>1, CallMoves, HolderOK DEF IInv, TypeOK
  <2>4. Grown /\ trusted' \subseteq Genuine
    BY <1>1, <1>3, UnchangedGrown DEF IInv
  <2>5. SessionsFit' /\ OneSession' /\ SessionsAreProven' /\ LinksFit' /\ FirstAddressKept'
    BY <1>1, <2>3, <2>4, SessionsStay, LinksStay
  <2> QED BY <1>1, <2>1, <2>2, <2>3, <2>4, <2>5, StepKeeps
<1> QED BY <1>2, <1>3 DEF ConfirmKey

\* A challenge row that is added changes none of the others.
LEMMA IssueGrows ==
  ASSUME TypeOK, NEW u \in Users, NEW p \in Proofs, Issue(u, p),
         UNCHANGED <<sessions, linkChallenges>>
  PROVE  /\ challenges' \in Seq(Challenge) /\ Len(challenges') <= MaxChallenges
         /\ \A i \in 1..Len(challenges) : challenges'[i] = challenges[i]
         /\ Grown
<1>1. [user |-> u, proof |-> p, spent |-> FALSE, live |-> TRUE] \in Challenge
  BY DEF Challenge
<1>2. /\ challenges' \in Seq(Challenge)
      /\ Len(challenges') = Len(challenges) + 1
      /\ \A i \in 1..Len(challenges) : challenges'[i] = challenges[i]
  BY <1>1, AppendProperties DEF TypeOK, Issue
<1> QED BY <1>2, Lengths, BoundsOK DEF Issue, Grown

LEMMA IssueChallengeKeeps ==
  ASSUME IInv, NEW c \in Calls, IssueChallenge(c), UNCHANGED linkOwn
  PROVE  IInv'
<1>1. /\ pc[c] = "issue" /\ Answer(c, "challenge")
      /\ UNCHANGED <<trusted, locked, sessions, links>>
      /\ UNCHANGED <<linkChallenges, linkLocked, first, trail>>
  BY DEF IssueChallenge, linkOwn
<1>2. args[c].user \in Users /\ args[c].proof \in Proofs
  BY <1>1 DEF IInv, CallFits, Proofs
<1>3. /\ challenges' \in Seq(Challenge) /\ Len(challenges') <= MaxChallenges
      /\ \A i \in 1..Len(challenges) : challenges'[i] = challenges[i]
      /\ Grown
  BY <1>1, <1>2, IssueGrows DEF IssueChallenge, IInv
<1>4. /\ pc' = [pc EXCEPT ![c] = "done"] /\ args' = [args EXCEPT ![c] = None]
      /\ "done" \in Places /\ CallFits(c)'
  BY <1>1, AnswerFits DEF IInv
<1>5. TypeOK'
  BY <1>1, <1>3, <1>4 DEF IInv, TypeOK
<1>6. SessionsFit' /\ OneSession' /\ SessionsAreProven' /\ LinksFit' /\ FirstAddressKept'
  BY <1>1, <1>3, <1>5, SessionsStay, LinksStay
<1>7. trusted' \subseteq Genuine /\ \A d \in Calls \ {c} : pc[d] = "mint" =>
        /\ locked'[args[d].challenge] = locked[args[d].challenge]
        /\ challenges'[args[d].challenge].spent = challenges[args[d].challenge].spent
  BY <1>1, <1>3 DEF IInv, CallFits
<1> QED BY <1>3, <1>4, <1>5, <1>6, <1>7, StepKeeps

LEMMA AskExternalChallengeKeeps ==
  ASSUME IInv, NEW u \in Users, NEW w \in Wallets, AskExternalChallenge(u, w), UNCHANGED linkOwn
  PROVE  IInv'
<1>1. /\ UNCHANGED <<pc, args, trusted, locked, sessions, links>>
      /\ UNCHANGED <<linkChallenges, linkLocked, first, trail>>
  BY DEF AskExternalChallenge, linkOwn
<1>2. /\ challenges' \in Seq(Challenge) /\ Len(challenges') <= MaxChallenges
      /\ \A i \in 1..Len(challenges) : challenges'[i] = challenges[i]
      /\ Grown
  BY <1>1, IssueGrows DEF AskExternalChallenge, IInv, Proofs
<1>3. TypeOK'
  BY <1>1, <1>2 DEF IInv, TypeOK
<1> QED BY <1>1, <1>2, <1>3, NobodyMoves

\* One row of the challenges is written: its user and proof stay.
LEMMA RowWritten ==
  ASSUME TypeOK, NEW i \in 1..Len(challenges), NEW row \in Challenge,
         challenges' = [challenges EXCEPT ![i] = row],
         row.user = challenges[i].user, row.proof = challenges[i].proof,
         challenges[i].spent => row.spent
  PROVE  /\ challenges' \in Seq(Challenge) /\ Len(challenges') = Len(challenges)
         /\ challenges'[i] = row
         /\ \A j \in 1..Len(challenges) : 
              /\ j # i => challenges'[j] = challenges[j]
              /\ challenges'[j].user = challenges[j].user
              /\ challenges'[j].proof = challenges[j].proof
              /\ challenges[j].spent => challenges'[j].spent
BY ExceptSeq DEF TypeOK

LEMMA ExpireChallengeKeeps ==
  ASSUME IInv, NEW i \in 1..Len(challenges), ExpireChallenge(i), UNCHANGED linkOwn
  PROVE  IInv'
<1> DEFINE row == [challenges[i] EXCEPT !.live = FALSE]
<1>1. /\ UNCHANGED <<pc, args, trusted, locked, sessions, links>>
      /\ UNCHANGED <<linkChallenges, linkLocked, first, trail>>
      /\ challenges' = [challenges EXCEPT ![i] = row]
  BY DEF ExpireChallenge, linkOwn
<1>2. challenges[i] \in Challenge
  BY ElementOfSeq DEF IInv, TypeOK
<1>3. /\ row \in Challenge /\ row.user = challenges[i].user /\ row.proof = challenges[i].proof
      /\ row.spent = challenges[i].spent /\ (challenges[i].spent => row.spent)
  BY <1>2 DEF Challenge
<1> HIDE DEF row
<1>4. /\ challenges' \in Seq(Challenge) /\ Len(challenges') = Len(challenges)
      /\ \A j \in 1..Len(challenges) :
           /\ challenges'[j].user = challenges[j].user
           /\ challenges'[j].proof = challenges[j].proof
           /\ challenges'[j].spent = challenges[j].spent
  <2>1. /\ challenges' \in Seq(Challenge) /\ Len(challenges') = Len(challenges)
        /\ challenges'[i] = row
        /\ \A j \in 1..Len(challenges) : j # i => challenges'[j] = challenges[j]
    BY <1>1, <1>3, RowWritten DEF IInv
  <2> QED BY <1>3, <2>1
<1>5. TypeOK'
  BY <1>1, <1>4 DEF IInv, TypeOK
<1>6. Grown
  BY <1>1, <1>4, Lengths DEF Grown, IInv
<1> QED BY <1>1, <1>4, <1>5, <1>6, NobodyMoves

LEMMA LoadChallengeKeeps ==
  ASSUME IInv, NEW c \in Calls, NEW i \in 1..Len(challenges), NEW route, NEW signed \in BOOLEAN,
         LoadChallenge(c, i, route, signed), UNCHANGED linkOwn
  PROVE  IInv'
<1>1. /\ RowFree(i) /\ UNCHANGED <<trusted, challenges, sessions, links>>
      /\ UNCHANGED <<linkChallenges, linkLocked, first, trail>>
  BY DEF LoadChallenge, linkOwn
<1>2. CASE Answer(c, "notFound") /\ UNCHANGED locked
  <2>1. UNCHANGED own
    BY <1>1, <1>2 DEF own
  <2> QED BY <1>1, <1>2, <2>1, AnswerFits, HandlerMoves DEF IInv
<1>3. CASE /\ Consumable(i)
           /\ Goto(c, "mint", [challenge |-> i, signed |-> signed])
           /\ locked' = [locked EXCEPT ![i] = c]
  <2> DEFINE a == [challenge |-> i, signed |-> signed]
  <2>1. /\ pc' = [pc EXCEPT ![c] = "mint"] /\ args' = [args EXCEPT ![c] = a]
        /\ "mint" \in Places /\ a.challenge = i
    BY <1>3 DEF Goto, Places
  <2> HIDE DEF a
  <2>2. i \in DOMAIN locked
    BY Lengths, BoundsOK DEF IInv, TypeOK
  <2>3. /\ locked' \in [1..MaxChallenges -> Calls \union {None}]
        /\ locked'[i] = c /\ \A j : j # i => locked'[j] = locked[j]
    <3>1. locked \in [1..MaxChallenges -> Calls \union {None}]
      BY DEF IInv, TypeOK
    <3>2. ASSUME NEW j, j # i PROVE locked'[j] = locked[j]
      <4>1. CASE j \in DOMAIN locked
        BY <1>3, <3>2, <4>1
      <4>2. CASE j \notin DOMAIN locked
        BY <1>3, <3>2, <4>2
      <4> QED BY <4>1, <4>2
    <3> QED BY <1>3, <2>2, <3>1, <3>2
  <2>4. TypeOK'
    BY <1>1, <2>1, <2>3, CallMoves DEF IInv, TypeOK
  <2>5. Grown
    BY <1>1, UnchangedGrown DEF IInv
  <2>6. CallFits(c)'
    BY <1>1, <1>3, <2>1, <2>3 DEF IInv, TypeOK, CallFits, Consumable
  <2>7. \A d \in Calls \ {c} : pc[d] = "mint" => locked'[args[d].challenge] = locked[args[d].challenge]
    BY <1>1, <2>3, NoneIsNothing DEF IInv, CallFits, RowFree
  <2>8. SessionsFit' /\ OneSession' /\ SessionsAreProven' /\ LinksFit' /\ FirstAddressKept'
    BY <1>1, <2>4, <2>5, SessionsStay, LinksStay
  <2> QED BY <1>1, <2>1, <2>4, <2>5, <2>6, <2>7, <2>8, StepKeeps DEF IInv
<1> QED BY <1>2, <1>3 DEF LoadChallenge

\* A mint that comes to nothing releases its row.
LEMMA GiveUpKeeps ==
  ASSUME IInv, NEW c \in Calls, NEW what, pc[c] = "mint", Answer(c, what),
         Release(args[c].challenge),
         UNCHANGED <<trusted, challenges, sessions, links, linkOwn>>
  PROVE  IInv'
<1>1. UNCHANGED <<linkChallenges, linkLocked, first, trail>>
  BY DEF linkOwn
<1>2. /\ pc' = [pc EXCEPT ![c] = "done"] /\ args' = [args EXCEPT ![c] = None]
      /\ "done" \in Places /\ CallFits(c)'
  BY AnswerFits DEF IInv
<1>3. Grown
  BY <1>1, UnchangedGrown DEF IInv
<1>4. TypeOK'
  BY <1>1, <1>2, ReleaseFrees DEF IInv, TypeOK
<1>5. SessionsFit' /\ OneSession' /\ SessionsAreProven' /\ LinksFit' /\ FirstAddressKept'
  BY <1>1, <1>3, <1>4, SessionsStay, LinksStay
<1> QED BY <1>2, <1>3, <1>4, <1>5, ReleaseFrees, StepKeeps DEF IInv

LEMMA RefuseMintKeeps ==
  ASSUME IInv, NEW c \in Calls, RefuseMint(c) \/ MintFails(c), UNCHANGED linkOwn
  PROVE  IInv'
BY GiveUpKeeps DEF RefuseMint, MintFails

LEMMA MintSessionKeeps ==
  ASSUME IInv, NEW c \in Calls, MintSession(c), UNCHANGED linkOwn
  PROVE  IInv'
<1> DEFINE i == args[c].challenge
           row == [challenges[i] EXCEPT !.spent = TRUE]
           session == [user |-> challenges[i].user, challenge |-> i, live |-> TRUE, revoked |-> FALSE]
<1>1. /\ pc[c] = "mint" /\ Proven(c) /\ Release(i)
      /\ challenges' = [challenges EXCEPT ![i] = row]
      /\ sessions' = Append(sessions, session)
      /\ UNCHANGED <<trusted, links, linkChallenges, linkLocked, first, trail>>
      /\ \E what : Answer(c, what)
  BY DEF MintSession, linkOwn
<1>2. i \in 1..Len(challenges) /\ ~challenges[i].spent
  BY <1>1 DEF IInv, CallFits
<1>3. challenges[i] \in Challenge
  BY <1>2, ElementOfSeq DEF IInv, TypeOK
<1>4. /\ row \in Challenge /\ row.user = challenges[i].user /\ row.proof = challenges[i].proof
      /\ row.spent
  BY <1>3 DEF Challenge
<1>5. session \in Session /\ session.user = challenges[i].user /\ session.challenge = i
  BY <1>2, <1>3, Lengths, BoundsOK DEF Session, Challenge, IInv, TypeOK
<1> HIDE DEF row, session
<1>6. /\ challenges' \in Seq(Challenge) /\ Len(challenges') = Len(challenges)
      /\ challenges'[i] = row
      /\ \A j \in 1..Len(challenges) :
           /\ j # i => challenges'[j] = challenges[j]
           /\ challenges'[j].user = challenges[j].user
           /\ challenges'[j].proof = challenges[j].proof
           /\ challenges[j].spent => challenges'[j].spent
  BY <1>1, <1>2, <1>4, RowWritten DEF IInv
<1>7. /\ sessions' \in Seq(Session) /\ Len(sessions') = Len(sessions) + 1
      /\ sessions'[Len(sessions) + 1] = session
      /\ \A s \in 1..Len(sessions) : sessions'[s] = sessions[s]
  BY <1>1, <1>5, AppendProperties DEF IInv, TypeOK
<1>8. 1..Len(sessions') = 1..Len(sessions) \union {Len(sessions) + 1}
  BY <1>7, Lengths DEF IInv
<1>9. /\ pc' = [pc EXCEPT ![c] = "done"] /\ args' = [args EXCEPT ![c] = None]
      /\ "done" \in Places /\ CallFits(c)'
  BY <1>1, AnswerFits DEF IInv
<1>10. TypeOK'
  BY <1>1, <1>6, <1>7, <1>9, ReleaseFrees DEF IInv, TypeOK
<1>11. Grown
  BY <1>1, <1>6, <1>7, Lengths DEF Grown, IInv
<1>12. SessionsFit'
  BY <1>2, <1>4, <1>5, <1>6, <1>7, <1>8 DEF SessionsFit, IInv
\* The sessions there are come of spent challenges, and this one was not.
<1>13. OneSession'
  <2>1. \A s \in 1..Len(sessions) : sessions[s].challenge # i
    BY <1>2 DEF IInv, SessionsFit
  <2> QED BY <1>5, <1>7, <1>8, <2>1 DEF OneSession, IInv
<1>14. SessionsAreProven'
  <2> DEFINE Good(u, p) ==
               \/ p \in Genuine /\ Holder[p] = u
               \/ \E k \in 1..Len(linkChallenges') :
                     /\ linkChallenges'[k].user = u
                     /\ linkChallenges'[k].wallet = p
                     /\ linkChallenges'[k].used
  <2>3. SUFFICES \A s \in 1..Len(sessions') :
                    Good(sessions'[s].user, challenges'[sessions'[s].challenge].proof)
    BY DEF SessionsAreProven
  <2> SUFFICES ASSUME NEW s \in 1..Len(sessions'), NEW u, NEW p,
                      u = sessions'[s].user,
                      p = challenges'[sessions'[s].challenge].proof
      PROVE  (p \in Genuine /\ Holder[p] = u) \/ Shown(u, p)'
    BY DEF Shown
  <2>1. CASE s \in 1..Len(sessions)
    <3>1. u = sessions[s].user /\ p = challenges[sessions[s].challenge].proof
      BY <1>6, <1>7, <2>1 DEF SessionsFit, IInv
    <3>2. (p \in Genuine /\ Holder[p] = u) \/ Shown(u, p)
      BY <2>1, <3>1 DEF IInv, SessionsAreProven, Shown
    <3> QED BY <3>2, <1>10, <1>11, ShownStays DEF IInv
  <2>2. CASE s = Len(sessions) + 1
    <3>1. u = challenges[i].user /\ p = challenges[i].proof
      BY <1>2, <1>5, <1>6, <1>7, <2>2
    <3>2. CASE p \in Resources /\ Holder[p] = u /\ p \in trusted
      BY <3>2 DEF IInv
    <3>3. CASE p \in Wallets /\ links[<<u, p>>] # None
      <4>1. u \in Users
        BY <1>3, <3>1 DEF Challenge
      <4> QED BY <3>3, <4>1, <1>10, <1>11, ShownStays DEF IInv, LinksFit
    <3> QED BY <1>1, <3>1, <3>2, <3>3 DEF Proven, Linked
  <2> QED BY <1>8, <2>1, <2>2
<1>15. LinksFit' /\ FirstAddressKept'
  BY <1>1, <1>10, <1>11, LinksStay
<1>16. \A d \in Calls \ {c} : pc[d] = "mint" =>
          /\ locked'[args[d].challenge] = locked[args[d].challenge]
          /\ challenges'[args[d].challenge].spent = challenges[args[d].challenge].spent
  BY <1>1, <1>6, ReleaseFrees, MintRowsDiffer DEF IInv, CallFits
<1> QED BY <1>1, <1>9, <1>10, <1>11, <1>12, <1>13, <1>14, <1>15, <1>16, StepKeeps DEF IInv

\* One row of the sessions is written: whose it is and its challenge stay.
LEMMA SessionWritten ==
  ASSUME TypeOK, NEW s \in 1..Len(sessions), NEW row \in Session,
         sessions' = [sessions EXCEPT ![s] = row],
         row.user = sessions[s].user, row.challenge = sessions[s].challenge,
         UNCHANGED <<challenges, linkChallenges>>
  PROVE  /\ sessions' \in Seq(Session) /\ Len(sessions') = Len(sessions)
         /\ Grown
<1>1. /\ sessions' \in Seq(Session) /\ Len(sessions') = Len(sessions)
      /\ \A t \in 1..Len(sessions) : sessions'[t] = IF t = s THEN row ELSE sessions[t]
  BY ExceptSeq DEF TypeOK
<1> QED BY <1>1, Lengths DEF Grown

LEMMA ExpireSessionKeeps ==
  ASSUME IInv, NEW s \in 1..Len(sessions), ExpireSession(s), UNCHANGED linkOwn
  PROVE  IInv'
<1> DEFINE row == [sessions[s] EXCEPT !.live = FALSE]
<1>1. /\ UNCHANGED <<pc, args, trusted, challenges, locked, links>>
      /\ UNCHANGED <<linkChallenges, linkLocked, first, trail>>
      /\ sessions' = [sessions EXCEPT ![s] = row]
  BY DEF ExpireSession, linkOwn
<1>2. sessions[s] \in Session
  BY ElementOfSeq DEF IInv, TypeOK
<1>3. row \in Session /\ row.user = sessions[s].user /\ row.challenge = sessions[s].challenge
  BY <1>2 DEF Session
<1> HIDE DEF row
<1>4. sessions' \in Seq(Session) /\ Len(sessions') = Len(sessions) /\ Grown
  BY <1>1, <1>3, SessionWritten DEF IInv
<1>5. TypeOK'
  BY <1>1, <1>4 DEF IInv, TypeOK
<1> QED BY <1>1, <1>4, <1>5, NobodyMoves

LEMMA PresentForRevokeKeeps ==
  ASSUME IInv, NEW c \in Calls, NEW s \in 1..Len(sessions), PresentForRevoke(c, s), UNCHANGED linkOwn
  PROVE  IInv'
<1>1. UNCHANGED <<own, links>>
  BY DEF PresentForRevoke
<1>2. CASE Answer(c, "unauthorized")
  BY <1>1, <1>2, AnswerFits, HandlerMoves DEF IInv
<1>3. CASE Goto(c, "revoke", [session |-> s])
  <2>1. CallFits(c)'
    BY <1>1, <1>3 DEF IInv, TypeOK, Goto, CallFits, own
  <2> QED BY <1>1, <1>3, <2>1, HandlerMoves DEF Goto, Places
<1> QED BY <1>2, <1>3 DEF PresentForRevoke

LEMMA RevokeSessionKeeps ==
  ASSUME IInv, NEW c \in Calls, RevokeSession(c), UNCHANGED linkOwn
  PROVE  IInv'
<1> DEFINE s == args[c].session
           row == [sessions[s] EXCEPT !.revoked = TRUE]
<1>1. /\ pc[c] = "revoke" /\ Answer(c, "revoked")
      /\ sessions' = [sessions EXCEPT ![s] = row]
      /\ UNCHANGED <<trusted, challenges, locked, links>>
      /\ UNCHANGED <<linkChallenges, linkLocked, first, trail>>
  BY DEF RevokeSession, linkOwn
<1>2. s \in 1..Len(sessions)
  BY <1>1 DEF IInv, CallFits
<1>3. sessions[s] \in Session
  BY <1>2, ElementOfSeq DEF IInv, TypeOK
<1>4. row \in Session /\ row.user = sessions[s].user /\ row.challenge = sessions[s].challenge
  BY <1>3 DEF Session
<1> HIDE DEF row, s
<1>5. sessions' \in Seq(Session) /\ Len(sessions') = Len(sessions) /\ Grown
  BY <1>1, <1>2, <1>4, SessionWritten DEF IInv
<1>6. /\ pc' = [pc EXCEPT ![c] = "done"] /\ args' = [args EXCEPT ![c] = None]
      /\ "done" \in Places /\ CallFits(c)'
  BY <1>1, AnswerFits DEF IInv
<1>7. TypeOK'
  BY <1>1, <1>5, <1>6 DEF IInv, TypeOK
<1>8. SessionsFit' /\ OneSession' /\ SessionsAreProven' /\ LinksFit' /\ FirstAddressKept'
  BY <1>1, <1>5, <1>7, SessionsStay, LinksStay
<1> QED BY <1>1, <1>5, <1>6, <1>7, <1>8, StepKeeps DEF IInv

LEMMA AuthNextKeeps ==
  ASSUME IInv, AuthNext, UNCHANGED linkOwn
  PROVE  IInv'
BY AskChallengeKeeps, ConfirmKeyKeeps, IssueChallengeKeeps, AskExternalChallengeKeeps,
   ExpireChallengeKeeps, LoadChallengeKeeps, RefuseMintKeeps, MintSessionKeeps,
   ExpireSessionKeeps, PresentForRevokeKeeps, RevokeSessionKeeps
   DEF AuthNext, Mints

-----------------------------------------------------------------------------
(* Links *)

\* One row of the linking challenges is written.
LEMMA LinkRowWritten ==
  ASSUME TypeOK, NEW i \in 1..Len(linkChallenges), NEW row \in LinkChallenge,
         linkChallenges' = [linkChallenges EXCEPT ![i] = row],
         row.user = linkChallenges[i].user, row.wallet = linkChallenges[i].wallet,
         linkChallenges[i].used => row.used,
         UNCHANGED <<challenges, sessions>>
  PROVE  /\ linkChallenges' \in Seq(LinkChallenge) /\ Len(linkChallenges') = Len(linkChallenges)
         /\ linkChallenges'[i] = row
         /\ Grown
<1>1. /\ linkChallenges' \in Seq(LinkChallenge) /\ Len(linkChallenges') = Len(linkChallenges)
      /\ \A j \in 1..Len(linkChallenges) :
           linkChallenges'[j] = IF j = i THEN row ELSE linkChallenges[j]
  BY ExceptSeq DEF TypeOK
<1> QED BY <1>1, Lengths DEF Grown

LEMMA AskLinkKeeps ==
  ASSUME IInv, NEW u \in Users, NEW w \in Wallets, NEW key \in BOOLEAN, AskLink(u, w, key)
  PROVE  IInv'
<1> DEFINE row == [user |-> u, wallet |-> w, key |-> key, used |-> FALSE, live |-> TRUE]
<1>1. /\ UNCHANGED <<pc, args, trusted, challenges, locked, sessions, links, linkLocked, first, trail>>
      /\ Len(linkChallenges) < MaxLinkChallenges
      /\ linkChallenges' = Append(linkChallenges, row)
  BY DEF AskLink, authVars, own
<1>2. row \in LinkChallenge
  BY DEF LinkChallenge
<1> HIDE DEF row
<1>3. /\ linkChallenges' \in Seq(LinkChallenge) /\ Len(linkChallenges') = Len(linkChallenges) + 1
      /\ \A i \in 1..Len(linkChallenges) : linkChallenges'[i] = linkChallenges[i]
  BY <1>1, <1>2, AppendProperties DEF IInv, TypeOK
<1>4. TypeOK'
  BY <1>1, <1>3, Lengths, LinkBoundOK DEF IInv, TypeOK
<1>5. Grown
  BY <1>1, <1>3, Lengths DEF Grown, IInv
<1> QED BY <1>1, <1>4, <1>5, NobodyMoves

LEMMA ExpireLinkKeeps ==
  ASSUME IInv, NEW i \in 1..Len(linkChallenges), ExpireLink(i)
  PROVE  IInv'
<1> DEFINE row == [linkChallenges[i] EXCEPT !.live = FALSE]
<1>1. /\ UNCHANGED <<pc, args, trusted, challenges, locked, sessions, links, linkLocked, first, trail>>
      /\ linkChallenges' = [linkChallenges EXCEPT ![i] = row]
  BY DEF ExpireLink, authVars, own
<1>2. linkChallenges[i] \in LinkChallenge
  BY ElementOfSeq DEF IInv, TypeOK
<1>3. /\ row \in LinkChallenge /\ row.user = linkChallenges[i].user
      /\ row.wallet = linkChallenges[i].wallet
      /\ linkChallenges[i].used => row.used
  BY <1>2 DEF LinkChallenge
<1> HIDE DEF row
<1>4. /\ linkChallenges' \in Seq(LinkChallenge) /\ Len(linkChallenges') = Len(linkChallenges)
      /\ Grown
  BY <1>1, <1>3, LinkRowWritten DEF IInv
<1>5. TypeOK'
  BY <1>1, <1>4 DEF IInv, TypeOK
<1> QED BY <1>1, <1>4, <1>5, NobodyMoves

LEMMA PresentLinkKeeps ==
  ASSUME IInv, NEW c \in Calls, NEW u \in Users, NEW i \in 1..Len(linkChallenges), PresentLink(c, u, i)
  PROVE  IInv'
<1>1. UNCHANGED <<own, links, linkOwn>>
  BY DEF PresentLink
<1>2. CASE Answer(c, "unauthorized")
  BY <1>1, <1>2, AnswerFits, HandlerMoves DEF IInv
<1>3. CASE Goto(c, "record", [user |-> u, challenge |-> i])
  <2>1. CallFits(c)'
    BY <1>1, <1>3 DEF IInv, TypeOK, Goto, CallFits, linkOwn
  <2> QED BY <1>1, <1>3, <2>1, HandlerMoves DEF Goto, Places
<1> QED BY <1>2, <1>3 DEF PresentLink

LEMMA ReadRecordKeeps ==
  ASSUME IInv, NEW c \in Calls, NEW signed \in BOOLEAN, ReadRecord(c, signed)
  PROVE  IInv'
<1>1. pc[c] = "record" /\ UNCHANGED <<own, links, linkOwn>>
  BY DEF ReadRecord
<1>2. CASE Answer(c, "refused")
  BY <1>1, <1>2, AnswerFits, HandlerMoves DEF IInv
<1>3. CASE linkChallenges[args[c].challenge].user = args[c].user /\ Goto(c, "claim", args[c])
  <2>1. CallFits(c)'
    BY <1>1, <1>3 DEF IInv, TypeOK, Goto, CallFits, linkOwn
  <2> QED BY <1>1, <1>3, <2>1, HandlerMoves DEF Goto, Places
<1> QED BY <1>2, <1>3 DEF ReadRecord

LEMMA ClaimLinkKeeps ==
  ASSUME IInv, NEW c \in Calls, ClaimLink(c)
  PROVE  IInv'
<1> DEFINE i == args[c].challenge
           l == <<args[c].user, linkChallenges[i].wallet>>
           a == [user |-> args[c].user, challenge |-> i, seen |-> links[l]]
<1>1. /\ pc[c] = "claim" /\ linkLocked' = [linkLocked EXCEPT ![i] = c]
      /\ pc' = [pc EXCEPT ![c] = "store"] /\ args' = [args EXCEPT ![c] = a]
      /\ UNCHANGED <<trusted, challenges, locked, sessions, links, linkChallenges, first, trail>>
  BY DEF ClaimLink, Goto, own
<1>2. /\ args[c].user \in Users /\ i \in 1..Len(linkChallenges)
      /\ linkChallenges[i].user = args[c].user
  BY <1>1 DEF IInv, CallFits
<1>3. linkChallenges[i] \in LinkChallenge
  BY <1>2, ElementOfSeq DEF IInv, TypeOK
<1>4. links[l] \in Link \union {None}
  BY <1>2, <1>3 DEF IInv, TypeOK, LinkChallenge
<1>5. a.user = args[c].user /\ a.challenge = i /\ a.seen = links[l]
  OBVIOUS
<1> HIDE DEF a, l
<1>6. "store" \in Places
  BY DEF Places
<1>7. pc' \in [Calls -> Places] /\ pc'[c] = "store" /\ args'[c] = a
  BY <1>1, <1>6, CallMoves DEF IInv
<1>8. TypeOK'
  BY <1>1, <1>7 DEF IInv, TypeOK
<1>9. Grown
  BY <1>1, UnchangedGrown DEF IInv
<1>10. CallFits(c)'
  BY <1>1, <1>2, <1>4, <1>5, <1>7 DEF CallFits
<1>11. SessionsFit' /\ OneSession' /\ SessionsAreProven' /\ LinksFit' /\ FirstAddressKept'
  BY <1>1, <1>8, <1>9, SessionsStay, LinksStay
<1> QED BY <1>1, <1>6, <1>8, <1>9, <1>10, <1>11, StepKeeps DEF IInv

\* The upsert keeps the first address of the link: as the current one, or as
\* the legacy one, which it writes once.
LEMMA UpsertKeepsFirst ==
  ASSUME NEW old \in Link, old # None, NEW row \in LinkChallenge, NEW address \in Identities,
         address \in {old.arch, old.legacy}, old.legacy \in {None, address}
  PROVE  /\ Upsert(old, row) \in Link
         /\ address \in {Upsert(old, row).arch, Upsert(old, row).legacy}
         /\ Upsert(old, row).legacy \in {None, address}
BY NullIsNoIdentity DEF Upsert, Derived, Link, LinkChallenge, Identities

LEMMA UpsertInserts ==
  ASSUME NEW row \in LinkChallenge
  PROVE  /\ Upsert(None, row) \in Link
         /\ Upsert(None, row).arch = Derived(row)
         /\ Upsert(None, row).legacy = None
         /\ Derived(row) \in Identities
BY DEF Upsert, Derived, Link, LinkChallenge, Identities

LEMMA MigrationFits ==
  ASSUME NEW l \in Users \X Wallets, NEW seen \in Link \union {None}, NEW row \in LinkChallenge
  PROVE  Migration(l, seen, row) \subseteq (Users \X Wallets) \X Identities \X Identities
BY DEF Migration, Derived, Link, Identities

LEMMA StoreLinkKeeps ==
  ASSUME IInv, NEW c \in Calls, StoreLink(c)
  PROVE  IInv'
<1> DEFINE i == args[c].challenge
           row == linkChallenges[i]
           used == [row EXCEPT !.used = TRUE]
           l == <<args[c].user, row.wallet>>
<1>1. /\ pc[c] = "store" /\ UNCHANGED <<trusted, challenges, locked, sessions>>
      /\ links' = [links EXCEPT ![l] = Upsert(links[l], row)]
      /\ first' = [first EXCEPT ![l] = IF links[l] = None THEN Derived(row) ELSE first[l]]
      /\ trail' = trail \union Migration(l, args[c].seen, row)
      /\ linkChallenges' = [linkChallenges EXCEPT ![i] = used]
      /\ linkLocked' = [linkLocked EXCEPT ![i] = None]
      /\ \E what : Answer(c, what)
  BY DEF StoreLink, own
<1>2. /\ args[c].user \in Users /\ i \in 1..Len(linkChallenges)
      /\ row.user = args[c].user /\ args[c].seen \in Link \union {None}
  BY <1>1 DEF IInv, CallFits
<1>3. row \in LinkChallenge
  BY <1>2, ElementOfSeq DEF IInv, TypeOK
<1>4. /\ used \in LinkChallenge /\ used.user = row.user /\ used.wallet = row.wallet /\ used.used
      /\ row.wallet \in Wallets
  BY <1>3 DEF LinkChallenge
<1>5. l \in Users \X Wallets
  BY <1>2, <1>4
<1>6. /\ linkChallenges' \in Seq(LinkChallenge) /\ Len(linkChallenges') = Len(linkChallenges)
      /\ linkChallenges'[i] = used
      /\ Grown
  BY <1>1, <1>2, <1>4, LinkRowWritten DEF IInv
<1>7. ASSUME NEW u, NEW w, u = args[c].user, w = row.wallet
      PROVE  Shown(u, w)'
  BY <1>2, <1>4, <1>6, <1>7 DEF Shown
<1> HIDE DEF used, row, i
<1>8. /\ Upsert(links[l], row) \in Link
      /\ first'[l] \in Identities
      /\ first'[l] \in {Upsert(links[l], row).arch, Upsert(links[l], row).legacy}
      /\ Upsert(links[l], row).legacy \in {None, first'[l]}
  <2>1. CASE links[l] = None
    BY <1>1, <1>3, <1>5, <2>1, UpsertInserts DEF IInv, TypeOK
  <2>2. CASE links[l] # None
    <3>1. /\ first[l] \in Identities
          /\ first[l] \in {links[l].arch, links[l].legacy}
          /\ links[l].legacy \in {None, first[l]}
      BY <1>5, <2>2 DEF IInv, LinksFit, FirstAddressKept
    <3>2. first'[l] = first[l]
      BY <1>1, <1>5, <2>2 DEF IInv, TypeOK
    <3>3. links[l] \in Link
      BY <1>5, <2>2 DEF IInv, TypeOK
    <3> QED BY <1>3, <2>2, <3>1, <3>2, <3>3, UpsertKeepsFirst
  <2> QED BY <2>1, <2>2
<1>9. /\ pc' = [pc EXCEPT ![c] = "done"] /\ args' = [args EXCEPT ![c] = None]
      /\ "done" \in Places /\ CallFits(c)'
  BY <1>1, AnswerFits DEF IInv
<1>10. /\ links' \in [Users \X Wallets -> Link \union {None}]
       /\ first' \in [Users \X Wallets -> Identities \union {None}]
       /\ links'[l] = Upsert(links[l], row)
       /\ \A k \in Users \X Wallets : k # l => links'[k] = links[k] /\ first'[k] = first[k]
  BY <1>1, <1>5, <1>8 DEF IInv, TypeOK
<1>11. TypeOK'
  <2>1. trail' \subseteq (Users \X Wallets) \X Identities \X Identities
    BY <1>1, <1>2, <1>3, <1>5, MigrationFits DEF IInv, TypeOK
  <2>2. linkLocked' \in [1..MaxLinkChallenges -> Calls \union {None}]
    BY <1>1 DEF IInv, TypeOK
  <2> QED BY <1>1, <1>6, <1>9, <1>10, <2>1, <2>2 DEF IInv, TypeOK
<1>12. SessionsFit' /\ OneSession' /\ SessionsAreProven'
  BY <1>1, <1>6, <1>11, SessionsStay
<1>13. LinksFit'
  <2> SUFFICES ASSUME NEW u \in Users, NEW w \in Wallets, links'[<<u, w>>] # None
      PROVE  Shown(u, w)' /\ first'[<<u, w>>] \in Identities
    BY DEF LinksFit
  <2>1. CASE <<u, w>> = l
    <3>1. u = args[c].user /\ w = row.wallet
      BY <2>1
    <3> QED BY <1>7, <1>8, <2>1, <3>1
  <2>2. CASE <<u, w>> # l
    BY <1>6, <1>10, <1>11, <2>2, ShownStays DEF IInv, LinksFit
  <2> QED BY <2>1, <2>2
<1>14. FirstAddressKept'
  <2> SUFFICES ASSUME NEW k \in Users \X Wallets, links'[k] # None
      PROVE  /\ first'[k] \in {links'[k].arch, links'[k].legacy}
             /\ links'[k].legacy \in {None, first'[k]}
    BY DEF FirstAddressKept
  <2>1. CASE k = l
    BY <1>8, <1>10, <2>1
  <2>2. CASE k # l
    BY <1>10, <2>2 DEF IInv, FirstAddressKept
  <2> QED BY <2>1, <2>2
<1> QED BY <1>1, <1>6, <1>9, <1>11, <1>12, <1>13, <1>14, StepKeeps DEF IInv

LEMMA StoreFailsKeeps ==
  ASSUME IInv, NEW c \in Calls, StoreFails(c)
  PROVE  IInv'
<1>1. /\ linkLocked' = [linkLocked EXCEPT ![args[c].challenge] = None] /\ Answer(c, "error")
      /\ UNCHANGED <<trusted, challenges, locked, sessions, links, linkChallenges, first, trail>>
  BY DEF StoreFails, own
<1>2. /\ pc' = [pc EXCEPT ![c] = "done"] /\ args' = [args EXCEPT ![c] = None]
      /\ "done" \in Places /\ CallFits(c)'
  BY <1>1, AnswerFits DEF IInv
<1>3. TypeOK'
  BY <1>1, <1>2 DEF IInv, TypeOK
<1>4. Grown
  BY <1>1, UnchangedGrown DEF IInv
<1>5. SessionsFit' /\ OneSession' /\ SessionsAreProven' /\ LinksFit' /\ FirstAddressKept'
  BY <1>1, <1>3, <1>4, SessionsStay, LinksStay
<1> QED BY <1>1, <1>2, <1>3, <1>4, <1>5, StepKeeps DEF IInv

LEMMA LinkNextKeeps ==
  ASSUME IInv, LinkNext
  PROVE  IInv'
BY AskLinkKeeps, ExpireLinkKeeps, PresentLinkKeeps, ReadRecordKeeps, ClaimLinkKeeps,
   StoreLinkKeeps, StoreFailsKeeps DEF LinkNext

-----------------------------------------------------------------------------
(* Theorems *)

\* Every step of the Hub's two routes keeps the invariant.
THEOREM Inductive == IInv /\ [Next]_vars => IInv'
<1> SUFFICES ASSUME IInv, [Next]_vars PROVE IInv'
  OBVIOUS
<1>1. CASE Next
  BY <1>1, AuthNextKeeps, LinkNextKeeps DEF Next
<1>2. CASE UNCHANGED vars
  <2>1. UNCHANGED <<pc, args, trusted, challenges, locked, sessions, links, linkChallenges,
                    linkLocked, first, trail>>
    BY <1>2 DEF vars, authVars, own, linkOwn
  <2>2. TypeOK' /\ Grown
    BY <2>1, UnchangedGrown DEF IInv, TypeOK
  <2> QED BY <2>1, <2>2, NobodyMoves
<1> QED BY <1>1, <1>2

\* In every reachable state the invariant holds (routes/authSessions.ts,
\* routes/walletLinking.ts).
THEOREM Invariance == Spec => []IInv
BY InitIsSafe, Inductive, PTL DEF Spec

\* The state of the two routes has its type.
THEOREM TypeCorrect == Spec => []TypeOK
<1>1. IInv => TypeOK
  BY DEF IInv
<1> QED BY <1>1, Invariance, PTL

\* loadConsumableChallenge and mintSession: a challenge mints one session,
\* because who mints holds the lock of an unspent row.
THEOREM OneSessionHolds == Spec => []OneSession
<1>1. IInv => OneSession
  BY DEF IInv
<1> QED BY <1>1, Invariance, PTL

\* POST /auth/session and /auth/session/external: who has a session has shown
\* a key Turnkey knows or a wallet that proved its address.
THEOREM SessionsAreProvenHolds == Spec => []SessionsAreProven
<1>1. IInv => SessionsAreProven
  BY DEF IInv
<1> QED BY <1>1, Invariance, PTL

\* The upsert of POST /wallet-links/verify never loses the first Arch address
\* of a link.
THEOREM FirstAddressKeptHolds == Spec => []FirstAddressKept
<1>1. IInv => FirstAddressKept
  BY DEF IInv
<1> QED BY <1>1, Invariance, PTL

=============================================================================
