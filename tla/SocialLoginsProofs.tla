------------------------- MODULE SocialLoginsProofs -------------------------
(***************************************************************************)
(* Tokens that work once and sessions that are of the identity's person,   *)
(* for any number of calls, subjects, tokens, residues and faults, by the  *)
(* inductive invariant IInv; and of the onboarding page, that accounts     *)
(* stay, by PageInv.                                                       *)
(***************************************************************************)
EXTENDS MCSocialLogins, SequenceTheorems, WellFoundedInduction, TLAPS

\* Where a handler has made its token its own, or will have when the row it
\* inserted commits with its step.
Claiming == {"request", "create", "refused", "finish", "raced", "login", "session", "refusedLogin"}

HasSession(c) == \E x \in sessions : x[1] = c

\* Who has had something of a token.
Claimant(c) == pc[c] \in Claiming \/ c \in orgs \/ HasSession(c)

\* What a place in the handler says of the token and of the person.
CallFits(c) ==
    /\ pc[c] # "idle" => token[c] \in Tokens
    /\ pc[c] = "idle" => ~Claimant(c)
    /\ pc[c] \in Waiting => ~HasSession(c)
    /\ pc[c] = "owner" => token[c] \notin used /\ RowFree(c)
    /\ pc[c] \in {"login", "session"} =>
         person[c] # None /\ identity[Subject(c)] = person[c]
    /\ adopted[c] \in people \union {None}

\* Tokens are spent before they are of use, and by one call.
ClaimsFit ==
    \A c \in Calls : Claimant(c) =>
        /\ token[c] \in used
        /\ \A d \in Calls : Claimant(d) /\ token[d] = token[c] => d = c

\* Who has an identity is on file, and who is on file without one was left
\* there by an older version.
PeopleFit ==
    /\ \A s \in Subjects : identity[s] \in people \union {None}
    /\ \A p \in people \ Residues : HasIdentity(p)

IInv ==
    /\ TypeOK
    /\ \A c \in Calls : CallFits(c)
    /\ ClaimsFit
    /\ PeopleFit
    /\ \A x, y \in sessions : x[1] = y[1] => x = y
    /\ SessionsProveIdentity

-----------------------------------------------------------------------------
(* What a person has *)

\* A set of positions that is not empty has a last one.
LEMMA LastExists ==
  ASSUME NEW n \in Nat, NEW T, T \subseteq 1..n, T # {}
  PROVE  \E i \in T : \A j \in T : j <= i
<1> DEFINE D == {n - i : i \in T}
<1>1. D \subseteq Nat /\ D # {}
  <2>1. \A i \in T : i \in 1..n /\ n - i \in Nat
    OBVIOUS
  <2>2. \A i \in T : n - i \in D
    OBVIOUS
  <2> QED BY <2>1, <2>2
<1>2. PICK x \in D : \A y \in D : ~(<<y, x>> \in OpToRel(<, Nat))
  BY <1>1, NatLessThanWellFounded, WFMin
<1>3. PICK i \in T : x = n - i
  OBVIOUS
<1>4. ASSUME NEW j \in T PROVE j <= i
  <2>1. n - j \in D /\ n - j \in Nat /\ x \in Nat
    OBVIOUS
  <2>2. ~(n - j < x)
    BY <1>2, <2>1 DEF OpToRel
  <2> QED BY <1>3, <2>2
<1> QED BY <1>4

LEMMA NewestExists ==
  ASSUME TypeOK, NEW p, WalletsOf(p) # {}
  PROVE  Newest(p) \in Calls
<1>1. Len(wallets) \in Nat /\ WalletsOf(p) \subseteq 1..Len(wallets)
  BY DEF TypeOK, WalletsOf
<1>2. \E i \in WalletsOf(p) : \A j \in WalletsOf(p) : j <= i
  BY <1>1, LastExists
<1> DEFINE last == CHOOSE i \in WalletsOf(p) : \A j \in WalletsOf(p) : j <= i
<1>3. last \in 1..Len(wallets)
  BY <1>1, <1>2
<1>4. wallets[last] \in [person: People, org: Calls]
  BY <1>3, ElementOfSeq DEF TypeOK
<1> QED BY <1>4 DEF Newest

LEMMA TokenFields ==
  ASSUME NEW t \in Tokens
  PROVE  /\ t.subject \in Subjects
         /\ t.email \in Emails \union {None}
         /\ t.verified \in BOOLEAN
         /\ t.verified => t.email \in Emails
BY TokensOK, VerifiedNamesEmail

\* A promotion writes an address of the token over an empty one.
LEMMA PromotedFits ==
  ASSUME TypeOK, NEW c \in Calls, token[c] \in Tokens, NEW p \in people, Promoted(p, c)
  PROVE  /\ people' = people
         /\ primary' \in [People -> Emails \union {None}]
         /\ verified' \subseteq people'
<1>1. p \in People /\ Mail(c) \in Emails \union {None}
  BY TokenFields DEF TypeOK, Mail
<1>2. CASE UNCHANGED users
  BY <1>2 DEF users, TypeOK
<1>3. CASE ~UNCHANGED users
  BY <1>1, <1>3 DEF Promoted, TypeOK
<1> QED BY <1>2, <1>3

-----------------------------------------------------------------------------
(* Frames *)

LEMMA InitIsSafe == Init => IInv
<1> SUFFICES ASSUME Init PROVE IInv
  OBVIOUS
<1>1. PICK left \in SUBSET Residues :
        /\ people = left /\ verified = left
        /\ \E mail \in [left -> Emails] :
             primary = [p \in People |-> IF p \in left THEN mail[p] ELSE None]
  BY DEF Init
<1>2. TypeOK
  <2>1. primary \in [People -> Emails \union {None}]
    BY <1>1
  <2>2. people \subseteq People /\ verified \subseteq people
    BY <1>1 DEF People
  <2>3. wallets \in Seq([person: People, org: Calls])
    BY DEF Init
  <2> QED BY <2>1, <2>2, <2>3, MaxFaultsOK DEF Init, TypeOK
<1>3. \A c \in Calls : CallFits(c)
  BY DEF Init, CallFits, Claimant, Claiming, HasSession, Waiting
<1>4. ClaimsFit /\ PeopleFit
  BY DEF Init, ClaimsFit, PeopleFit, Claimant, Claiming, HasSession
<1> QED BY <1>2, <1>3, <1>4 DEF Init, IInv, SessionsProveIdentity

\* A step of a handler: what it may do to what others rely on.  A token is
\* spent under its row; what it is good for goes to the call that spends it or
\* has; an identity keeps its person.
LEMMA HandlerSteps ==
  ASSUME IInv, TypeOK', NEW c \in Calls, pc[c] \in Waiting,
         NEW place, place # "idle", pc' = [pc EXCEPT ![c] = place],
         UNCHANGED token,
         used \subseteq used', used' \subseteq used \union {token[c]},
         used' # used => RowFree(c),
         orgs' \subseteq orgs \union {c},
         \/ sessions' = sessions
         \/ /\ sessions' = sessions \union {<<c, person[c]>>}
            /\ pc[c] = "session" /\ place \notin Waiting,
         orgs' # orgs \/ place \in Claiming =>
            pc[c] \in Claiming \/ (token[c] \notin used /\ token[c] \in used'),
         place = "owner" => RowFree(c) /\ token[c] \notin used',
         \A s \in Subjects : identity[s] # None => identity'[s] = identity[s],
         people \subseteq people', PeopleFit',
         \A d \in Calls \ {c} : person'[d] = person[d] /\ adopted'[d] = adopted[d],
         adopted'[c] \in people' \union {None},
         place \in {"login", "session"} =>
            person'[c] # None /\ identity'[Subject(c)] = person'[c]
  PROVE  IInv'
<1>1. TypeOK /\ (\A d \in Calls : CallFits(d)) /\ ClaimsFit
  BY DEF IInv
<1>2. pc'[c] = place /\ \A d \in Calls \ {c} : pc'[d] = pc[d]
  BY <1>1 DEF TypeOK
<1>3. /\ token[c] \in Tokens /\ ~HasSession(c)
      /\ \A d \in Calls : pc[d] # "idle" => token[d] \in Tokens /\ Subject(d) \in Subjects
  BY <1>1, TokenFields DEF CallFits, Subject, Waiting
<1>4. \A d \in Calls \ {c} : HasSession(d)' <=> HasSession(d)
  BY DEF HasSession
<1>5. \A d \in Calls \ {c} : Claimant(d)' => Claimant(d)
  BY <1>2, <1>4 DEF Claimant
\* Who claims now did, or spent the token just now.
<1>6. Claimant(c)' => Claimant(c) \/ (token[c] \notin used /\ token[c] \in used')
  <2>1. HasSession(c)' => pc[c] \in Claiming
    BY <1>3 DEF HasSession, Claiming
  <2> QED BY <1>2, <2>1 DEF Claimant
<1>7. \A d \in Calls \ {c} : CallFits(d)'
  <2> SUFFICES ASSUME NEW d \in Calls \ {c} PROVE CallFits(d)'
    OBVIOUS
  <2>1. CallFits(d)
    BY <1>1
  <2>2. pc[d] = "owner" => token[d] \notin used' /\ RowFree(d)'
    <3> SUFFICES ASSUME pc[d] = "owner" PROVE token[d] \notin used' /\ RowFree(d)'
      OBVIOUS
    <3>1. token[d] \notin used /\ RowFree(d)
      BY <2>1 DEF CallFits
    <3>2. token[d] \notin used'
      BY <3>1 DEF RowFree
    <3>3. place = "owner" => token[c] # token[d]
      BY DEF RowFree
    <3> QED BY <1>2, <3>1, <3>2, <3>3 DEF RowFree
  <2>3. pc[d] \in {"login", "session"} =>
          person'[d] # None /\ identity'[Subject(d)'] = person'[d]
    BY <1>3, <2>1 DEF CallFits, Subject
  <2> QED BY <1>2, <1>4, <1>5, <2>1, <2>2, <2>3 DEF CallFits
<1>8. CallFits(c)'
  <2>1. place \in Waiting => ~HasSession(c)'
    BY <1>3 DEF HasSession
  <2>2. place = "owner" => token'[c] \notin used' /\ RowFree(c)'
    BY <1>2 DEF RowFree
  <2> QED BY <1>2, <1>3, <2>1, <2>2 DEF CallFits, Subject
<1>9. ClaimsFit'
  <2> SUFFICES ASSUME NEW d \in Calls, Claimant(d)',
                      NEW e \in Calls, Claimant(e)', token[d] = token[e]
      PROVE  token[d] \in used' /\ d = e
    BY DEF ClaimsFit
  <2>1. CASE d # c /\ e # c
    BY <1>1, <1>5, <2>1 DEF ClaimsFit
  <2>2. CASE d = c \/ e = c
    BY <1>1, <1>5, <1>6, <2>2 DEF ClaimsFit
  <2> QED BY <2>1, <2>2
<1>10. (\A x, y \in sessions : x[1] = y[1] => x = y)'
  BY <1>3 DEF IInv, HasSession
<1>11. SessionsProveIdentity'
  <2> SUFFICES ASSUME NEW x \in sessions' PROVE identity'[Subject(x[1])] = x[2]
    BY DEF SessionsProveIdentity, Subject
  <2>1. CASE x \in sessions
    <3>1. x[1] \in Calls /\ x[2] \in People /\ identity[Subject(x[1])] = x[2]
      BY <1>1, <2>1 DEF TypeOK, IInv, SessionsProveIdentity
    <3>2. pc[x[1]] # "idle"
      BY <1>1, <2>1, <3>1 DEF CallFits, Claimant, HasSession
    <3> QED BY <1>3, <3>1, <3>2, NoneIsNothing
  <2>2. CASE x = <<c, person[c]>> /\ pc[c] = "session"
    <3>1. person[c] # None /\ identity[Subject(c)] = person[c] /\ Subject(c) \in Subjects
      BY <1>1, <1>3, <2>2 DEF CallFits, Waiting
    <3> QED BY <2>2, <3>1
  <2> QED BY <2>1, <2>2
<1> QED BY <1>7, <1>8, <1>9, <1>10, <1>11 DEF IInv

\* A step after which the call has nothing to go on with.
LEMMA LeavesKeep ==
  ASSUME IInv, NEW c \in Calls, pc[c] \in Waiting,
         NEW place \in {"done", "dead"}, pc' = [pc EXCEPT ![c] = place],
         TypeOK', UNCHANGED <<local, used, users, identity, sessions, orgs>>
  PROVE  IInv'
<1>1. UNCHANGED <<token, adopted, person, people>>
  BY DEF local, users
<1>2. PeopleFit' /\ adopted[c] \in people \union {None}
  BY <1>1 DEF IInv, PeopleFit, HasIdentity, CallFits
<1>3. place \notin Claiming /\ place \notin Waiting /\ place # "idle" /\ place # "owner"
      /\ place \notin {"login", "session"}
  BY DEF Claiming, Waiting
<1> QED BY <1>1, <1>2, <1>3, HandlerSteps

\* Where a handler may stand, and what it may answer.
Places == {"idle", "done", "dead"} \union Waiting

LEMMA Moves ==
  ASSUME TypeOK, NEW c \in Calls, NEW place \in Places
  PROVE  [pc EXCEPT ![c] = place] \in [Calls -> Places]
BY DEF TypeOK, Places

LEMMA AnswerFits ==
  ASSUME TypeOK, NEW c \in Calls, NEW what \in Answers, Answer(c, what)
  PROVE  /\ pc' = [pc EXCEPT ![c] = "done"]
         /\ pc' \in [Calls -> Places]
         /\ reply' \in [Calls -> Answers \union {"none"}]
BY DEF TypeOK, Answer, Places

LEMMA GotoFits ==
  ASSUME TypeOK, NEW c \in Calls, NEW place \in Waiting \union {"dead"}, Goto(c, place)
  PROVE  /\ pc' = [pc EXCEPT ![c] = place]
         /\ pc' \in [Calls -> Places]
         /\ reply' \in [Calls -> Answers \union {"none"}]
BY DEF TypeOK, Goto, Places

LEMMA FaultFits ==
  ASSUME TypeOK, NoFault \/ Fault
  PROVE  faults' \in 0..MaxFaults
BY MaxFaultsOK DEF TypeOK, NoFault, Fault

\* A transaction that commits: the handler goes on, or is done.
LEMMA CommittedFits ==
  ASSUME TypeOK, NEW c \in Calls, NEW next, NEW place \in Waiting \union {"done"},
         Committed(c, next), 
         next => \/ place \in Waiting /\ Goto(c, place)
                 \/ place = "done" /\ \E what \in Answers : Answer(c, what)
  PROVE  /\ \E where \in {place, "done"} : pc' = [pc EXCEPT ![c] = where]
         /\ pc' \in [Calls -> Places]
         /\ reply' \in [Calls -> Answers \union {"none"}]
         /\ faults' \in 0..MaxFaults
<1>1. CASE next /\ NoFault
  BY <1>1, GotoFits, AnswerFits, FaultFits
<1>2. CASE Answer(c, "error") /\ Fault
  BY <1>2, AnswerFits, FaultFits DEF Answers
<1> QED BY <1>1, <1>2 DEF Committed

-----------------------------------------------------------------------------
(* Steps *)

LEMMA ArriveKeeps ==
  ASSUME IInv, NEW c \in Calls, Arrive(c)
  PROVE  IInv'
<1>1. PICK t \in Tokens : token' = [token EXCEPT ![c] = t]
  BY DEF Arrive
<1>2. /\ pc[c] = "idle" /\ Goto(c, "identify")
      /\ owned' = [owned EXCEPT ![c] = {p \in People : HasIdentity(p)}]
      /\ UNCHANGED <<adopted, person, org, used, people, primary, verified, identity, wallets,
                     trail, sessions, orgs, faults>>
  BY DEF Arrive, hub, users, NoFault
<1>3. pc' = [pc EXCEPT ![c] = "identify"] /\ UNCHANGED reply
  BY <1>2 DEF Goto
<1>4. TypeOK'
  BY <1>1, <1>2, <1>3 DEF IInv, TypeOK, Waiting
<1>5. /\ pc'[c] = "identify" /\ token'[c] = t
      /\ \A d \in Calls \ {c} : pc'[d] = pc[d] /\ token'[d] = token[d]
  BY <1>1, <1>3 DEF IInv, TypeOK
<1>6. ~Claimant(c) /\ ~Claimant(c)'
  BY <1>2, <1>5 DEF IInv, CallFits, Claimant, HasSession, Claiming
<1>7. \A d \in Calls \ {c} : Claimant(d)' <=> Claimant(d)
  BY <1>2, <1>5 DEF Claimant, HasSession
<1>8. \A d \in Calls : CallFits(d)'
  <2> SUFFICES ASSUME NEW d \in Calls PROVE CallFits(d)'
    OBVIOUS
  <2>1. CallFits(d)
    BY DEF IInv
  <2>2. CASE d = c
    BY <1>2, <1>5, <1>6, <2>1, <2>2 DEF CallFits, HasSession, Claimant
  <2>3. CASE d # c
    <3>1. pc[d] = "owner" => RowFree(d)'
      BY <1>2, <1>5, <2>1, <2>3 DEF CallFits, RowFree
    <3> QED BY <1>2, <1>5, <1>7, <2>1, <2>3, <3>1 DEF CallFits, HasSession, Subject
  <2> QED BY <2>2, <2>3
<1>9. ClaimsFit'
  BY <1>2, <1>5, <1>6, <1>7 DEF IInv, ClaimsFit
<1>10. PeopleFit' /\ (\A x, y \in sessions : x[1] = y[1] => x = y)'
  BY <1>2 DEF IInv, PeopleFit, HasIdentity
<1>11. SessionsProveIdentity'
  <2>1. \A x \in sessions : x[1] \in Calls /\ x[1] # c
    BY <1>6 DEF IInv, TypeOK, Claimant, HasSession
  <2> QED BY <1>2, <1>5, <2>1 DEF IInv, SessionsProveIdentity, Subject
<1> QED BY <1>4, <1>8, <1>9, <1>10, <1>11 DEF IInv

LEMMA DbFailsKeeps ==
  ASSUME IInv, NEW c \in Calls, DbFails(c)
  PROVE  IInv'
<1>1. /\ pc[c] \in Waiting /\ Answer(c, "error") /\ Fault
      /\ UNCHANGED <<local, used, users, identity, sessions, orgs, wallets, trail>>
  BY DEF DbFails, hub
<1>2. TypeOK /\ TypeOK'
  BY <1>1, AnswerFits, FaultFits DEF IInv, TypeOK, Answers, local, users, Places
<1> QED BY <1>1, <1>2, LeavesKeep DEF Answer

LEMMA CrashKeeps ==
  ASSUME IInv, NEW c \in Calls, Crash(c)
  PROVE  IInv'
<1>1. /\ pc[c] \in Waiting /\ Goto(c, "dead") /\ Fault
      /\ UNCHANGED <<local, used, users, identity, sessions, orgs, wallets, trail>>
  BY DEF Crash, hub
<1>2. TypeOK /\ TypeOK'
  BY <1>1, GotoFits, FaultFits DEF IInv, TypeOK, local, users, Places
<1> QED BY <1>1, <1>2, LeavesKeep DEF Goto

\* A step that only moves its handler on, past what it claims, or writes its
\* outcome on the audit chain.
LEMMA MovesKeep ==
  ASSUME IInv, NEW c \in Calls, pc[c] \in Claiming,
         NEW place \in {"create", "finish", "refused", "raced", "session", "refusedLogin", "done"},
         pc' = [pc EXCEPT ![c] = place],
         place = "session" => pc[c] = "login",
         TypeOK', orgs' \subseteq orgs \union {c},
         UNCHANGED <<local, used, users, identity, sessions>>
  PROVE  IInv'
<1>1. UNCHANGED <<token, adopted, person, people>>
  BY DEF local, users
<1>2. PeopleFit' /\ adopted'[c] \in people' \union {None}
  BY <1>1 DEF IInv, PeopleFit, HasIdentity, CallFits
<1>3. pc[c] \in Waiting /\ place # "idle" /\ place # "owner" /\ place # "login"
  BY DEF Claiming, Waiting
<1>4. place \in {"login", "session"} =>
        person'[c] # None /\ identity'[Subject(c)] = person'[c]
  BY <1>1, <1>3 DEF IInv, CallFits
<1> QED BY <1>1, <1>2, <1>3, <1>4, HandlerSteps

LEMMA AuditRequestKeeps ==
  ASSUME IInv, NEW c \in Calls, AuditRequest(c)
  PROVE  IInv'
<1>1. /\ pc[c] = "request" /\ Committed(c, Goto(c, "create"))
      /\ trail' = trail \union {<<c, "requested">>}
      /\ UNCHANGED <<local, used, users, identity, sessions, orgs, wallets>>
  BY DEF AuditRequest
<1>2. TypeOK /\ pc[c] \in Claiming /\ "create" \in Waiting
  BY <1>1 DEF IInv, Claiming, Waiting
<1>3. /\ \E where \in {"create", "done"} : pc' = [pc EXCEPT ![c] = where]
      /\ pc' \in [Calls -> Places]
      /\ reply' \in [Calls -> Answers \union {"none"}]
      /\ faults' \in 0..MaxFaults
  BY <1>1, <1>2, CommittedFits
<1>4. TypeOK'
  BY <1>1, <1>2, <1>3 DEF TypeOK, local, users, Places
<1> QED BY <1>1, <1>2, <1>3, <1>4, MovesKeep

LEMMA AuditRefusalKeeps ==
  ASSUME IInv, NEW c \in Calls, AuditRefusal(c)
  PROVE  IInv'
<1>1. /\ pc[c] = "refused" /\ Committed(c, Answer(c, "unavailable"))
      /\ trail' = trail \union {<<c, "failed">>}
      /\ UNCHANGED <<local, used, users, identity, sessions, orgs, wallets>>
  BY DEF AuditRefusal
<1>2. TypeOK /\ pc[c] \in Claiming /\ "unavailable" \in Answers
  BY <1>1 DEF IInv, Claiming, Answers
<1>3. /\ \E where \in {"done", "done"} : pc' = [pc EXCEPT ![c] = where]
      /\ pc' \in [Calls -> Places]
      /\ reply' \in [Calls -> Answers \union {"none"}]
      /\ faults' \in 0..MaxFaults
  BY <1>1, <1>2, CommittedFits
<1>4. TypeOK'
  BY <1>1, <1>2, <1>3 DEF TypeOK, local, users, Places
<1> QED BY <1>1, <1>2, <1>3, <1>4, MovesKeep

LEMMA AuditRaceKeeps ==
  ASSUME IInv, NEW c \in Calls, AuditRace(c)
  PROVE  IInv'
<1>1. /\ pc[c] = "raced" /\ Committed(c, Answer(c, "raced"))
      /\ trail' = trail \union {<<c, "failed">>}
      /\ UNCHANGED <<local, used, users, identity, sessions, orgs, wallets>>
  BY DEF AuditRace
<1>2. TypeOK /\ pc[c] \in Claiming /\ "raced" \in Answers
  BY <1>1 DEF IInv, Claiming, Answers
<1>3. /\ \E where \in {"done", "done"} : pc' = [pc EXCEPT ![c] = where]
      /\ pc' \in [Calls -> Places]
      /\ reply' \in [Calls -> Answers \union {"none"}]
      /\ faults' \in 0..MaxFaults
  BY <1>1, <1>2, CommittedFits
<1>4. TypeOK'
  BY <1>1, <1>2, <1>3 DEF TypeOK, local, users, Places
<1> QED BY <1>1, <1>2, <1>3, <1>4, MovesKeep

LEMMA AuditRefusedLoginKeeps ==
  ASSUME IInv, NEW c \in Calls, AuditRefusedLogin(c)
  PROVE  IInv'
<1>1. /\ pc[c] = "refusedLogin" /\ Committed(c, Answer(c, "unavailable"))
      /\ UNCHANGED <<local, used, users, identity, sessions, orgs, wallets, trail>>
  BY DEF AuditRefusedLogin, hub
<1>2. TypeOK /\ pc[c] \in Claiming /\ "unavailable" \in Answers
  BY <1>1 DEF IInv, Claiming, Answers
<1>3. /\ \E where \in {"done", "done"} : pc' = [pc EXCEPT ![c] = where]
      /\ pc' \in [Calls -> Places]
      /\ reply' \in [Calls -> Answers \union {"none"}]
      /\ faults' \in 0..MaxFaults
  BY <1>1, <1>2, CommittedFits
<1>4. TypeOK'
  BY <1>1, <1>2, <1>3 DEF TypeOK, local, users, Places
<1> QED BY <1>1, <1>2, <1>3, <1>4, MovesKeep

LEMMA CreateSubOrgKeeps ==
  ASSUME IInv, NEW c \in Calls, CreateSubOrg(c)
  PROVE  IInv'
<1>1. PICK place \in {"finish", "refused"} : Goto(c, place)
  BY DEF CreateSubOrg
<1>2. /\ pc[c] = "create" /\ NoFault
      /\ orgs' \in {orgs, orgs \union {c}}
      /\ UNCHANGED <<local, used, users, identity, sessions, wallets, trail>>
  BY DEF CreateSubOrg, hub
<1>3. TypeOK /\ pc[c] \in Claiming /\ place \in Waiting
  BY <1>1, <1>2 DEF IInv, Claiming, Waiting
<1>4. pc' = [pc EXCEPT ![c] = place] /\ pc' \in [Calls -> Places] /\ UNCHANGED reply
  BY <1>1, <1>3, GotoFits DEF Goto
<1>5. TypeOK'
  BY <1>2, <1>3, <1>4 DEF TypeOK, local, users, Places, NoFault
<1> QED BY <1>2, <1>3, <1>4, <1>5, MovesKeep

LEMMA LoginKeeps ==
  ASSUME IInv, NEW c \in Calls, Login(c)
  PROVE  IInv'
<1>1. PICK place \in {"session", "refusedLogin"} : Goto(c, place)
  BY DEF Login
<1>2. /\ pc[c] = "login" /\ NoFault
      /\ UNCHANGED <<local, used, users, identity, sessions, orgs, wallets, trail>>
  BY DEF Login, hub
<1>3. TypeOK /\ pc[c] \in Claiming /\ place \in Waiting
  BY <1>1, <1>2 DEF IInv, Claiming, Waiting
<1>4. pc' = [pc EXCEPT ![c] = place] /\ pc' \in [Calls -> Places] /\ UNCHANGED reply
  BY <1>1, <1>3, GotoFits DEF Goto
<1>5. TypeOK'
  BY <1>2, <1>3, <1>4 DEF TypeOK, local, users, Places, NoFault
<1> QED BY <1>2, <1>3, <1>4, <1>5, MovesKeep

LEMMA FinishRejectedKeeps ==
  ASSUME IInv, NEW c \in Calls, FinishRejected(c)
  PROVE  IInv'
<1>1. /\ pc[c] = "finish" /\ pc[c] \in Waiting /\ Answer(c, "error") /\ NoFault
      /\ UNCHANGED <<local, used, users, identity, sessions, orgs, wallets, trail>>
  BY DEF FinishRejected, hub, Waiting
<1>2. TypeOK /\ TypeOK'
  BY <1>1, AnswerFits, FaultFits DEF IInv, TypeOK, Answers, local, users, Places
<1> QED BY <1>1, <1>2, LeavesKeep DEF Answer

LEMMA FinishRacedKeeps ==
  ASSUME IInv, NEW c \in Calls, FinishRaced(c)
  PROVE  IInv'
<1>1. /\ pc[c] = "finish" /\ pc[c] \in Claiming /\ Goto(c, "raced") /\ NoFault
      /\ UNCHANGED <<local, used, users, identity, sessions, orgs, wallets, trail>>
  BY DEF FinishRaced, hub, Claiming
<1>2. "raced" \in Waiting
  BY DEF Waiting
<1>3. TypeOK /\ TypeOK'
  BY <1>1, <1>2, GotoFits, FaultFits DEF IInv, TypeOK, local, users, Places
<1> QED BY <1>1, <1>3, MovesKeep DEF Goto

\* Who calls answers for is on file.
LEMMA KnownArePeople ==
  ASSUME IInv, NEW c \in Calls, pc[c] # "idle", identity[Subject(c)] # None
  PROVE  identity[Subject(c)] \in people
<1>1. Subject(c) \in Subjects
  BY TokenFields DEF IInv, CallFits, Subject
<1> QED BY <1>1 DEF IInv, PeopleFit, HasIdentity

LEMMA IdentifyKeeps ==
  ASSUME IInv, NEW c \in Calls, Identify(c)
  PROVE  IInv'
<1> DEFINE p == identity[Subject(c)]
<1>1. /\ pc[c] = "identify" /\ pc[c] \in Waiting /\ RowFree(c)
      /\ UNCHANGED <<token, owned, adopted, identity, wallets, trail, sessions, orgs>>
  BY DEF Identify, Waiting
<1>2. TypeOK /\ token[c] \in Tokens /\ adopted[c] \in people \union {None}
  BY <1>1 DEF IInv, CallFits
<1>3. CASE /\ Answer(c, "replayed") /\ NoFault
           /\ UNCHANGED <<person, org, used, users>>
  <2>1. TypeOK'
    BY <1>1, <1>2, <1>3, AnswerFits DEF TypeOK, Answers, users, Places, NoFault
  <2> QED BY <1>1, <1>3, <2>1, LeavesKeep DEF Answer, local
<1>4. CASE /\ token[c] \notin used /\ Goto(c, "owner") /\ NoFault
           /\ UNCHANGED <<person, org, used, users>>
  <2>1. TypeOK'
    <3>1. "owner" \in Waiting
      BY DEF Waiting
    <3> QED BY <1>1, <1>2, <1>4, <3>1, GotoFits DEF TypeOK, users, Places, NoFault
  <2>2. PeopleFit' /\ people' = people
    BY <1>1, <1>4 DEF IInv, PeopleFit, HasIdentity, users
  <2>3. "owner" \notin Claiming /\ "owner" \notin {"idle", "login", "session"}
    BY DEF Claiming
  <2>4. pc' = [pc EXCEPT ![c] = "owner"]
    BY <1>4 DEF Goto
  <2>5. UNCHANGED <<token, used, orgs, sessions, identity, people, person, adopted>>
    BY <1>1, <1>4, <2>2
  <2> QED BY <1>1, <1>2, <1>4, <2>1, <2>2, <2>3, <2>4, <2>5, HandlerSteps
<1>5. CASE /\ token[c] \notin used /\ p # None /\ used' = Uses(c) /\ WalletsOf(p) = {}
           /\ Answer(c, "orphan") /\ NoFault /\ UNCHANGED <<person, org, users>>
  <2>1. TypeOK'
    BY <1>1, <1>2, <1>5, AnswerFits DEF TypeOK, Answers, users, Places, NoFault, Uses
  <2>2. PeopleFit' /\ people' = people
    BY <1>1, <1>5 DEF IInv, PeopleFit, HasIdentity, users
  <2>3. "done" \notin Claiming /\ "done" \notin {"idle", "login", "session", "owner"}
    BY DEF Claiming
  <2>4. pc' = [pc EXCEPT ![c] = "done"]
    BY <1>5 DEF Answer
  <2>5. /\ UNCHANGED <<token, orgs, sessions, identity, people, person, adopted>>
        /\ used' = used \union {token[c]}
    BY <1>1, <1>5, <2>2 DEF Uses
  <2> QED BY <1>1, <1>2, <1>5, <2>1, <2>2, <2>3, <2>4, <2>5, HandlerSteps
<1>6. CASE /\ token[c] \notin used /\ p # None /\ used' = Uses(c) /\ WalletsOf(p) # {}
           /\ Promoted(p, c)
           /\ person' = [person EXCEPT ![c] = p]
           /\ org' = [org EXCEPT ![c] = Newest(p)]
           /\ Committed(c, Goto(c, "login"))
  <2>1. p \in people
    BY <1>1, <1>6, KnownArePeople
  <2>2. Newest(p) \in Calls
    BY <1>2, <1>6, NewestExists
  <2>3. /\ people' = people
        /\ primary' \in [People -> Emails \union {None}]
        /\ verified' \subseteq people'
    BY <1>2, <1>6, <2>1, PromotedFits
  <2>4. /\ \E where \in {"login", "done"} : pc' = [pc EXCEPT ![c] = where]
        /\ pc' \in [Calls -> Places]
        /\ reply' \in [Calls -> Answers \union {"none"}]
        /\ faults' \in 0..MaxFaults
    <3>1. "login" \in Waiting
      BY DEF Waiting
    <3> QED BY <1>2, <1>6, <3>1, CommittedFits
  <2>5. TypeOK'
    <3>1. /\ person' \in [Calls -> People \union {None}]
          /\ org' \in [Calls -> Calls \union {None}]
          /\ used' \subseteq Tokens
      BY <1>2, <1>6, <2>1, <2>2 DEF TypeOK, Uses
    <3> QED BY <1>1, <1>2, <2>3, <2>4, <3>1 DEF TypeOK, Places
  <2>6. PICK where \in {"login", "done"} : pc' = [pc EXCEPT ![c] = where]
    BY <2>4
  <2>7. PeopleFit'
    BY <1>1, <2>3 DEF IInv, PeopleFit, HasIdentity
  <2>8. /\ used' = used \union {token[c]} /\ person'[c] = p
        /\ \A d \in Calls \ {c} : person'[d] = person[d]
    BY <1>2, <1>6 DEF Uses, TypeOK
  <2>9. where \notin {"idle", "owner"}
    OBVIOUS
  <2> HIDE DEF p
  <2>10. p = identity'[Subject(c)]
    BY <1>1 DEF p
  <2> QED BY <1>1, <1>2, <1>6, <2>3, <2>5, <2>6, <2>7, <2>8, <2>9, <2>10, HandlerSteps
<1>7. \/ /\ Answer(c, "replayed") /\ NoFault
         /\ UNCHANGED <<person, org, used, users>>
      \/ /\ token[c] \notin used /\ p # None /\ used' = Uses(c)
         /\ IF WalletsOf(p) = {}
            THEN Answer(c, "orphan") /\ NoFault /\ UNCHANGED <<person, org, users>>
            ELSE /\ Promoted(p, c)
                 /\ person' = [person EXCEPT ![c] = p]
                 /\ org' = [org EXCEPT ![c] = Newest(p)]
                 /\ Committed(c, Goto(c, "login"))
      \/ /\ token[c] \notin used /\ Goto(c, "owner") /\ NoFault
         /\ UNCHANGED <<person, org, used, users>>
  BY DEF Identify
<1> HIDE DEF p
<1> QED BY <1>3, <1>4, <1>5, <1>6, <1>7

LEMMA FindOwnerKeeps ==
  ASSUME IInv, NEW c \in Calls, FindOwner(c)
  PROVE  IInv'
<1>1. /\ pc[c] = "owner" /\ pc[c] \in Waiting /\ used' = used \union {token[c]}
      /\ UNCHANGED <<token, owned, person, org, people, primary, verified, identity, wallets,
                     trail, sessions, orgs>>
  BY DEF FindOwner, Waiting, Uses, users
<1>2. /\ TypeOK /\ token[c] \in Tokens /\ adopted[c] \in people \union {None}
      /\ token[c] \notin used /\ RowFree(c)
  BY <1>1 DEF IInv, CallFits
<1>3. PICK place \in {"request", "done"} :
        /\ pc' = [pc EXCEPT ![c] = place]
        /\ pc' \in [Calls -> Places]
        /\ reply' \in [Calls -> Answers \union {"none"}]
        /\ faults' \in 0..MaxFaults
  <2>1. CASE Committed(c, Goto(c, "request"))
    <3>1. "request" \in Waiting
      BY DEF Waiting
    <3> QED BY <1>2, <2>1, <3>1, CommittedFits
  <2>2. CASE Committed(c, Answer(c, "collision"))
    <3>1. "collision" \in Answers
      BY DEF Answers
    <3>2. \E where \in {"done", "done"} : pc' = [pc EXCEPT ![c] = where]
      BY <1>2, <2>2, <3>1, CommittedFits
    <3>3. /\ pc' \in [Calls -> Places]
          /\ reply' \in [Calls -> Answers \union {"none"}]
          /\ faults' \in 0..MaxFaults
      BY <1>2, <2>2, <3>1, CommittedFits
    <3> QED BY <3>2, <3>3
  <2> QED BY <2>1, <2>2 DEF FindOwner
\* Whom the transaction may adopt has no identity: a residue.
<1>4. PICK a \in Residues \union {None} :
        a \in people \union {None} /\ adopted' = [adopted EXCEPT ![c] = a]
  <2>1. CASE UNCHANGED adopted
    <3>1. adopted[c] \in Residues \union {None} /\ adopted' = [adopted EXCEPT ![c] = adopted[c]]
      BY <2>1, <1>2 DEF TypeOK
    <3> QED BY <1>2, <3>1
  <2>2. ASSUME NEW q \in Owners(c), Adoptable(q), adopted' = [adopted EXCEPT ![c] = q]
        PROVE  \E a \in Residues \union {None} :
                 a \in people \union {None} /\ adopted' = [adopted EXCEPT ![c] = a]
    <3>1. q \in people
      BY <1>2 DEF Owners, TypeOK
    <3>2. q \in Residues
      BY <2>2, <3>1 DEF Adoptable, IInv, PeopleFit
    <3> QED BY <2>2, <3>1, <3>2
  <2> QED BY <2>1, <2>2 DEF FindOwner
<1>5. TypeOK'
  BY <1>1, <1>2, <1>3, <1>4 DEF TypeOK, Places
<1>6. PeopleFit'
  BY <1>1 DEF IInv, PeopleFit, HasIdentity
<1>7. /\ adopted'[c] = a
      /\ \A d \in Calls \ {c} : adopted'[d] = adopted[d] /\ person'[d] = person[d]
  BY <1>1, <1>2, <1>4 DEF TypeOK
<1>8. place \notin {"idle", "owner", "login", "session"}
  OBVIOUS
<1> QED BY <1>1, <1>2, <1>3, <1>4, <1>5, <1>6, <1>7, <1>8, HandlerSteps

LEMMA FinishKeeps ==
  ASSUME IInv, NEW c \in Calls, Finish(c)
  PROVE  IInv'
<1> DEFINE p == Who(c)
<1>1. /\ pc[c] = "finish" /\ pc[c] \in Waiting /\ pc[c] \in Claiming /\ ~IdentityTaken(c)
      /\ wallets' = Append(wallets, [person |-> p, org |-> c])
      /\ identity' = [identity EXCEPT ![Subject(c)] = p]
      /\ trail' = trail \union {<<c, "succeeded">>}
      /\ person' = [person EXCEPT ![c] = p]
      /\ org' = [org EXCEPT ![c] = c]
      /\ Committed(c, Goto(c, "login"))
      /\ UNCHANGED <<token, owned, adopted, used, sessions, orgs>>
  BY DEF Finish, Waiting, Claiming
<1>2. /\ TypeOK /\ token[c] \in Tokens /\ adopted[c] \in people \union {None}
      /\ Subject(c) \in Subjects /\ Mail(c) \in Emails \union {None}
  BY <1>1, TokenFields DEF IInv, CallFits, Subject, Mail
<1>3. p \in People /\ p # None
  BY <1>2, NoneIsNothing DEF Who, People, TypeOK
<1>4. /\ people \subseteq people' /\ people' \subseteq People
      /\ people' \subseteq people \union {p} /\ p \in people'
      /\ primary' \in [People -> Emails \union {None}]
      /\ verified' \subseteq people'
  <2>1. CASE adopted[c] # None
    <3>1. p = adopted[c] /\ p \in people /\ Promoted(p, c)
      BY <1>2, <2>1 DEF Who, Finish
    <3>2. /\ people' = people
          /\ primary' \in [People -> Emails \union {None}]
          /\ verified' \subseteq people'
      BY <1>2, <3>1, PromotedFits
    <3> QED BY <1>2, <3>1, <3>2 DEF TypeOK
  <2>2. CASE adopted[c] = None
    <3>1. /\ p = c /\ people' = people \union {c}
          /\ primary' = [primary EXCEPT ![c] = Mail(c)]
          /\ verified' = IF token[c].verified THEN verified \union {c} ELSE verified
      BY <2>2 DEF Who, Finish
    <3> QED BY <1>2, <1>3, <3>1 DEF TypeOK
  <2> QED BY <2>1, <2>2
<1>5. PICK where \in {"login", "done"} :
        /\ pc' = [pc EXCEPT ![c] = where]
        /\ pc' \in [Calls -> Places]
        /\ reply' \in [Calls -> Answers \union {"none"}]
        /\ faults' \in 0..MaxFaults
  <2>1. "login" \in Waiting
    BY DEF Waiting
  <2> QED BY <1>1, <1>2, <2>1, CommittedFits
<1>6. TypeOK'
  <2> HIDE DEF p
  <2>1. wallets' \in Seq([person: People, org: Calls])
    BY <1>1, <1>2, <1>3, AppendProperties DEF TypeOK
  <2>2. /\ identity' \in [Subjects -> People \union {None}]
        /\ person' \in [Calls -> People \union {None}]
        /\ org' \in [Calls -> Calls \union {None}]
        /\ trail' \subseteq Calls \X {"requested", "succeeded", "failed"}
    BY <1>1, <1>2, <1>3 DEF TypeOK
  <2> QED BY <1>1, <1>2, <1>4, <1>5, <2>1, <2>2 DEF TypeOK, Places
\* The subject was nobody's, or already this person's.
<1>7. \A s \in Subjects : identity[s] # None => identity'[s] = identity[s]
  BY <1>1, <1>2 DEF IdentityTaken, TypeOK
<1>8. identity'[Subject(c)] = p
  BY <1>1, <1>2 DEF TypeOK
<1>9. PeopleFit'
  <2> HIDE DEF p
  <2>1. \A s \in Subjects : identity'[s] \in people' \union {None}
    BY <1>1, <1>2, <1>4 DEF IInv, PeopleFit, TypeOK
  <2>2. ASSUME NEW q \in people' \ Residues
        PROVE  \E s \in Subjects : identity'[s] = q
    <3>1. CASE q = p
      BY <1>2, <1>8, <3>1
    <3>2. CASE q \in people
      <4>1. PICK s \in Subjects : identity[s] = q
        BY <2>2, <3>2 DEF IInv, PeopleFit, HasIdentity
      <4>2. q # None
        BY <1>2, <3>2, NoneIsNothing DEF TypeOK
      <4> QED BY <1>7, <4>1, <4>2
    <3> QED BY <1>4, <2>2, <3>1, <3>2
  <2> QED BY <2>1, <2>2 DEF PeopleFit, HasIdentity
<1>10. person'[c] = p /\ \A d \in Calls \ {c} : person'[d] = person[d] /\ adopted'[d] = adopted[d]
  BY <1>1, <1>2 DEF TypeOK
<1>11. where \notin {"idle", "owner"} /\ adopted'[c] \in people' \union {None}
  BY <1>1, <1>2, <1>4
<1> HIDE DEF p
<1> QED BY <1>1, <1>3, <1>4, <1>5, <1>6, <1>7, <1>8, <1>9, <1>10, <1>11, HandlerSteps

LEMMA MintSessionKeeps ==
  ASSUME IInv, NEW c \in Calls, MintSession(c)
  PROVE  IInv'
<1>1. /\ pc[c] = "session" /\ pc[c] \in Waiting /\ pc[c] \in Claiming
      /\ sessions' = sessions \union {<<c, person[c]>>}
      /\ Committed(c, Answer(c, "session"))
      /\ UNCHANGED <<local, used, users, identity, wallets, trail, orgs>>
  BY DEF MintSession, Waiting, Claiming
<1>2. TypeOK /\ "session" \in Answers
  BY DEF IInv, Answers
<1>3. person[c] \in People
  BY <1>1 DEF IInv, CallFits, TypeOK
<1>4. \E where \in {"done", "done"} : pc' = [pc EXCEPT ![c] = where]
  BY <1>1, <1>2, CommittedFits
<1>5. /\ pc' \in [Calls -> Places]
      /\ reply' \in [Calls -> Answers \union {"none"}]
      /\ faults' \in 0..MaxFaults
  BY <1>1, <1>2, CommittedFits
<1>6. TypeOK'
  BY <1>1, <1>2, <1>3, <1>5 DEF TypeOK, local, users, Places
<1>7. UNCHANGED <<token, adopted, person, people, used, identity, orgs>>
  BY <1>1 DEF local, users
<1>8. PeopleFit' /\ adopted'[c] \in people' \union {None}
  BY <1>7 DEF IInv, PeopleFit, HasIdentity, CallFits
<1>9. "done" \notin Waiting /\ "done" \notin Claiming /\ "done" \notin {"idle", "login", "session"}
  BY DEF Waiting, Claiming
<1> QED BY <1>1, <1>4, <1>6, <1>7, <1>8, <1>9, HandlerSteps

-----------------------------------------------------------------------------
(* Theorems *)

\* Arrivals, handlers, failed transactions and crashes keep the invariant, in
\* every order in which calls overlap.
THEOREM Inductive ==
  ASSUME IInv, [Next]_vars
  PROVE  IInv'
<1>1. CASE Next
  <2>1. PICK c \in Calls : Arrive(c) \/ Handle(c) \/ DbFails(c) \/ Crash(c)
    BY <1>1 DEF Next
  <2>2. CASE Arrive(c)
    BY <2>2, ArriveKeeps
  <2>3. CASE Handle(c)
    BY <2>3, IdentifyKeeps, FindOwnerKeeps, AuditRequestKeeps, CreateSubOrgKeeps,
       AuditRefusalKeeps, FinishKeeps, FinishRejectedKeeps, FinishRacedKeeps, AuditRaceKeeps,
       LoginKeeps, AuditRefusedLoginKeeps, MintSessionKeeps DEF Handle
  <2>4. CASE DbFails(c) \/ Crash(c)
    BY <2>4, DbFailsKeeps, CrashKeeps
  <2> QED BY <2>1, <2>2, <2>3, <2>4
<1>2. CASE UNCHANGED vars
  <2>1. UNCHANGED <<pc, token, owned, adopted, person, org, used, people, primary, verified,
                    identity, wallets, trail, sessions, orgs, reply, faults>>
    BY <1>2 DEF vars, local, hub, users
  <2>2. TypeOK'
    BY <2>1 DEF IInv, TypeOK, Waiting
  <2>3. ClaimsFit' /\ PeopleFit' /\ SessionsProveIdentity'
    BY <2>1 DEF IInv, ClaimsFit, PeopleFit, HasIdentity, SessionsProveIdentity, Subject,
                Claimant, HasSession
  <2>4. \A c \in Calls : CallFits(c)'
    BY <2>1 DEF IInv, CallFits, Claimant, HasSession, RowFree, Subject
  <2> QED BY <2>1, <2>2, <2>3, <2>4 DEF IInv
<1> QED BY <1>1, <1>2

\* The hub is never out of the invariant.
THEOREM Invariance == Spec => []IInv
<1>1. Init => IInv
  BY InitIsSafe
<1>2. IInv /\ [Next]_vars => IInv'
  BY Inductive
<1> QED BY <1>1, <1>2, PTL DEF Spec

\* Tables, trails and handlers hold what TypeOK says.
THEOREM TypeCorrect == Spec => []TypeOK
<1>1. IInv => TypeOK
  BY DEF IInv
<1> QED BY <1>1, Invariance, PTL

\* An id token opens one session and makes one sub-organization, however many
\* calls bring it at the same time.
THEOREM TokensOnce == Spec => []TokenOnce
<1>1. ASSUME IInv PROVE TokenOnce
  <2>1. ASSUME NEW c \in orgs, NEW d \in orgs, token[c] = token[d] PROVE c = d
    <3>1. c \in Calls /\ d \in Calls /\ Claimant(c) /\ Claimant(d)
      BY <1>1 DEF IInv, TypeOK, Claimant
    <3> QED BY <1>1, <2>1, <3>1 DEF IInv, ClaimsFit
  <2>2. ASSUME NEW x \in sessions, NEW y \in sessions, token[x[1]] = token[y[1]] PROVE x = y
    <3>1. x[1] \in Calls /\ y[1] \in Calls /\ Claimant(x[1]) /\ Claimant(y[1])
      BY <1>1 DEF IInv, TypeOK, Claimant, HasSession
    <3>2. x[1] = y[1]
      BY <1>1, <2>2, <3>1 DEF IInv, ClaimsFit
    <3> QED BY <1>1, <3>2 DEF IInv
  <2> QED BY <2>1, <2>2 DEF TokenOnce
<1> QED BY <1>1, Invariance, PTL

\* Whoever a session is of has the identity its token was made for.
THEOREM SessionsTrue == Spec => []SessionsProveIdentity
<1>1. IInv => SessionsProveIdentity
  BY DEF IInv
<1> QED BY <1>1, Invariance, PTL

-----------------------------------------------------------------------------
(* The onboarding page *)

Awaits == {"build", "config", "ceremony", "create", "connect", "challenge", "sign", "save", "write"}

FlowType == [at: Awaits \union {"idle", "done", "failed"}, method: Page!Methods \union {None},
             adds: BOOLEAN, mount: Nat, copy: SUBSET Calls]

\* A callback is at one of the awaits of its method, and what it has yet to
\* save the hub has made.
FlowFits(f) ==
    /\ flow[f].at \in Awaits \ {"save", "write"} =>
          /\ flow[f].method \in Page!Methods
          /\ flow[f].at \in DOMAIN Page!After[flow[f].method]
    /\ flow[f].at \in {"save", "write"} => f \in made

\* Accounts that nothing else ran beside.
Settled == stored \ overlapped

PageInv ==
    /\ flow \in [Calls -> FlowType] /\ mounts \in Nat /\ adding \in BOOLEAN
    /\ stored \subseteq Calls /\ overlapped \subseteq Calls /\ device \subseteq Calls
    /\ \A f \in Calls : FlowFits(f)
    /\ page # "left" /\ ~adding => device = {}
    /\ \A f, g \in Page!UnderWay : f # g => f \in overlapped
    /\ \A f \in Page!UnderWay : ~flow[f].adds => Settled = {}
    /\ \A f \in Calls : flow[f].at = "write" =>
          flow[f].adds /\ Settled \subseteq flow[f].copy /\ flow[f].copy \subseteq made
    /\ Page!StoredStays

\* A callback that has yet to save goes on, by one await or to its end.
LEMMA FlowMoves ==
  ASSUME PageInv, NEW f \in Calls, flow[f].at \in Awaits,
         NEW at \in (Awaits \ {"write"}) \union {"done", "failed"},
         flow' = [flow EXCEPT ![f].at = at],
         at \in Awaits \ {"save"} => /\ flow[f].method \in Page!Methods
                                     /\ at \in DOMAIN Page!After[flow[f].method],
         made' \in {made, made \union {f}}, at = "save" => f \in made',
         page' # "left" => page # "left" \/ adding \/ device = {},
         UNCHANGED <<adding, mounts, device, locked, stored, overlapped>>
  PROVE  PageInv'
<1>1. /\ flow' \in [Calls -> FlowType]
      /\ flow'[f] = [flow[f] EXCEPT !.at = at]
      /\ \A g \in Calls \ {f} : flow'[g] = flow[g]
  BY DEF PageInv, FlowType
<1>2. Page!UnderWay' \subseteq Page!UnderWay /\ Settled' = Settled /\ made \subseteq made'
  BY <1>1 DEF Page!UnderWay, Awaits, Settled
<1>3. \A g \in Calls : FlowFits(g)'
  BY <1>1, <1>2 DEF PageInv, FlowFits, FlowType, Awaits
<1>4. \A g \in Page!UnderWay' : flow'[g].adds = flow[g].adds
  BY <1>1 DEF Page!UnderWay, PageInv, FlowType
<1>5. \A g \in Calls : flow'[g].at = "write" => flow[g].at = "write" /\ flow'[g] = flow[g]
  BY <1>1 DEF PageInv, FlowType
<1>6. Page!StoredStays'
  BY <1>2 DEF PageInv, Page!StoredStays
<1> QED BY <1>1, <1>2, <1>3, <1>4, <1>5, <1>6 DEF PageInv

LEMMA AfterFits ==
  ASSUME NEW m \in Page!Methods, NEW at \in DOMAIN Page!After[m]
  PROVE  /\ Page!After[m][at] \in Awaits \ {"write"}
         /\ Page!After[m][at] = "save" \/ Page!After[m][at] \in DOMAIN Page!After[m]
         /\ Page!After[m][at] = "save" => at = "create"
BY DEF Page!Methods, Page!After, Awaits

LEMMA CallsMove ==
  ASSUME PageInv, NEW f \in Calls,
         Page!Advance(f) \/ Page!Ceremony(f) \/ Page!Create(f) \/ Page!CallFails(f) \/ Page!SaveFails(f)
  PROVE  PageInv'
<1>1. flow[f] \in FlowType /\ FlowFits(f)
  BY DEF PageInv
<1>2. flow[f].at \in Awaits
  BY <1>1 DEF Page!Advance, Page!Ceremony, Page!Create, Page!CallFails, Page!SaveFails, Page!Calling,
      Page!UnderWay, Awaits, FlowType
<1>3. CASE Page!Advance(f) \/ Page!Ceremony(f) \/ Page!Create(f)
  <2> DEFINE m == flow[f].method
             at == Page!After[m][flow[f].at]
  <2>1. flow[f].at \notin {"save", "write"}
    BY <1>3 DEF Page!Advance, Page!Ceremony, Page!Create, Page!Calling
  <2>2. m \in Page!Methods /\ flow[f].at \in DOMAIN Page!After[m]
    BY <1>1, <1>2, <2>1 DEF FlowFits, Awaits
  <2>3. /\ at \in Awaits \ {"write"}
        /\ at = "save" \/ at \in DOMAIN Page!After[m]
        /\ at = "save" => flow[f].at = "create"
    BY <2>2, AfterFits
  <2>4. /\ flow' = [flow EXCEPT ![f].at = at]
        /\ UNCHANGED <<page, adding, mounts, device, locked, stored, overlapped>>
        /\ made' \in {made, made \union {f}}
        /\ flow[f].at = "create" => f \in made'
    BY <1>3 DEF Page!Advance, Page!Ceremony, Page!Create, Page!GoesOn, Page!Goes, Page!history
  <2> HIDE DEF at
  <2> QED BY <1>2, <2>2, <2>3, <2>4, FlowMoves
<1>4. CASE Page!CallFails(f) \/ Page!SaveFails(f)
  <2>1. /\ flow' = [flow EXCEPT ![f].at = "failed"]
        /\ UNCHANGED <<adding, mounts, device, locked, stored, overlapped>>
        /\ made' \in {made, made \union {f}}
        /\ page' # "left" => page # "left"
    BY <1>4 DEF Page!CallFails, Page!SaveFails, Page!Fail, Page!Goes, Page!history
  <2>2. "failed" \in (Awaits \ {"write"}) \union {"done", "failed"} /\ "failed" \notin Awaits
    BY DEF Awaits
  <2> QED BY <1>2, <2>1, <2>2, FlowMoves
<1> QED BY <1>3, <1>4

\* The account is on the device, and what was settled there stays.
LEMMA StoresKeep ==
  ASSUME PageInv, NEW f \in Calls, NEW state, Page!Stores(f, state), flow[f].at \in {"save", "write"},
         f \in state, Settled \subseteq state, state \subseteq made,
         state \subseteq Calls,
         UNCHANGED <<adding, mounts, made, overlapped>>
  PROVE  PageInv'
<1>1. /\ flow' \in [Calls -> FlowType]
      /\ flow'[f].at = "done"
      /\ \A g \in Calls \ {f} : flow'[g] = flow[g]
      /\ device' = state /\ stored' = stored \union {f} /\ page' = "left"
  BY DEF Page!Stores, Page!Goes, PageInv, FlowType
<1>2. f \in Page!UnderWay /\ Page!UnderWay' \subseteq Page!UnderWay \ {f}
  BY <1>1 DEF Page!UnderWay
<1>3. Settled' \subseteq state
  BY <1>1 DEF Settled
<1>4. ASSUME NEW g \in Page!UnderWay' PROVE Settled' = Settled /\ flow'[g] = flow[g]
  <2>1. f \in overlapped /\ g \in Calls \ {f}
    BY <1>2, <1>4 DEF PageInv, Page!UnderWay
  <2> QED BY <1>1, <2>1 DEF Settled
<1>5. \A g \in Calls : FlowFits(g)'
  BY <1>1 DEF PageInv, FlowFits, Awaits
<1>6. ASSUME NEW g \in Calls, flow'[g].at = "write"
      PROVE  flow'[g].adds /\ Settled' \subseteq flow'[g].copy /\ flow'[g].copy \subseteq made'
  <2>1. g \in Page!UnderWay'
    BY <1>6 DEF Page!UnderWay
  <2> QED BY <1>4, <1>6, <2>1 DEF PageInv
<1>7. Page!StoredStays'
  BY <1>1, <1>3 DEF Page!StoredStays, Settled
<1> QED BY <1>1, <1>2, <1>4, <1>5, <1>6, <1>7 DEF PageInv

LEMMA SavesKeep ==
  ASSUME PageInv, NEW f \in Calls, Page!Seal(f) \/ Page!ReadState(f) \/ Page!WriteState(f)
  PROVE  PageInv'
<1>1. CASE Page!Seal(f)
  <2>1. f \in Page!UnderWay /\ ~flow[f].adds /\ flow[f].at = "save" /\ f \in made
    BY <1>1 DEF Page!Seal, Page!UnderWay, PageInv, FlowFits
  <2>2. Settled = {}
    BY <2>1 DEF PageInv
  <2> QED BY <1>1, <2>1, <2>2, StoresKeep DEF Page!Seal
<1>2. CASE Page!ReadState(f)
  <2> DEFINE o == [flow[f] EXCEPT !.at = "write", !.copy = device]
  <2>a. /\ flow[f].at = "save" /\ (flow[f].adds) = TRUE
        /\ flow' = [flow EXCEPT ![f] = o]
        /\ UNCHANGED <<page, adding, mounts, made, device, stored, overlapped>>
    BY <1>2 DEF Page!ReadState, Page!history, PageInv, FlowType
  <2>b. /\ o \in FlowType
        /\ o.at = "write" /\ o.adds = flow[f].adds /\ o.copy = device
    BY DEF PageInv, FlowType, Awaits
  <2> HIDE DEF o
  <2>1. /\ flow' \in [Calls -> FlowType]
        /\ flow'[f] = o
        /\ \A g \in Calls \ {f} : flow'[g] = flow[g]
    BY <2>a, <2>b DEF PageInv
  <2>2. Page!UnderWay' = Page!UnderWay /\ Settled' = Settled
    BY <2>a, <2>b, <2>1 DEF Page!UnderWay, Settled
  <2>3. \A g \in Calls : flow'[g].adds = flow[g].adds
    BY <2>b, <2>1
  <2>4. \A g \in Calls : FlowFits(g)'
    BY <2>a, <2>b, <2>1 DEF PageInv, FlowFits, Awaits
  <2>5. Settled \subseteq device /\ device \subseteq made /\ Page!StoredStays'
    BY <2>a DEF PageInv, Page!StoredStays, Settled
  <2>6. ASSUME NEW g \in Calls, flow'[g].at = "write"
        PROVE  flow'[g].adds /\ Settled' \subseteq flow'[g].copy /\ flow'[g].copy \subseteq made'
    <3>1. CASE g = f
      BY <2>a, <2>b, <2>1, <2>2, <2>5, <3>1
    <3>2. CASE g # f
      BY <2>a, <2>1, <2>2, <2>6, <3>2 DEF PageInv
    <3> QED BY <3>1, <3>2
  <2> QED BY <2>a, <2>1, <2>2, <2>3, <2>4, <2>5, <2>6 DEF PageInv
<1>3. CASE Page!WriteState(f)
  <2>1. /\ flow[f].at = "write" /\ f \in made /\ Settled \subseteq flow[f].copy
        /\ flow[f].copy \subseteq made /\ flow[f].copy \subseteq Calls
    BY <1>3 DEF Page!WriteState, PageInv, FlowFits, FlowType
  <2> DEFINE state == flow[f].copy \union {f}
  <2>2. Page!Stores(f, state) /\ UNCHANGED <<adding, mounts, made, overlapped>>
    BY <1>3 DEF Page!WriteState
  <2> QED BY <2>1, <2>2, StoresKeep
<1> QED BY <1>1, <1>2, <1>3

\* A flow that begins beside others shares their fate.
LEMMA SubmitKeeps ==
  ASSUME PageInv, NEW f \in Calls, NEW m \in Page!Methods, Page!Submit(f, m)
  PROVE  PageInv'
<1>1. /\ page # "left" /\ flow[f].at = "idle"
      /\ flow' \in [Calls -> FlowType]
      /\ flow'[f] = [at |-> "build", method |-> m, adds |-> adding, mount |-> mounts, copy |-> {}]
      /\ \A g \in Calls \ {f} : flow'[g] = flow[g]
      /\ page' # "left"
      /\ UNCHANGED <<adding, mounts, made, device, stored>>
  BY DEF Page!Submit, PageInv, FlowType, Awaits
<1>2. Page!UnderWay' = Page!UnderWay \union {f} /\ f \notin Page!UnderWay
  BY <1>1 DEF Page!UnderWay
<1>3. /\ overlapped \subseteq overlapped' /\ overlapped' \subseteq Calls
      /\ Page!UnderWay # {} => Page!UnderWay \union {f} \subseteq overlapped'
  BY DEF Page!Submit, PageInv, Page!UnderWay
<1>4. Settled' \subseteq Settled /\ Settled \subseteq device
  BY <1>1, <1>3 DEF PageInv, Settled, Page!StoredStays
<1>5. \A g \in Calls : FlowFits(g)'
  <2>1. FlowFits(f)'
    BY <1>1 DEF FlowFits, Page!Methods, Page!After
  <2> QED BY <1>1, <2>1 DEF PageInv, FlowFits
<1>6. \A g, h \in Page!UnderWay' : g # h => g \in overlapped'
  BY <1>2, <1>3
<1>7. ASSUME NEW g \in Page!UnderWay', ~flow'[g].adds PROVE Settled' = {}
  <2>1. CASE g = f
    BY <1>1, <1>4, <1>7, <2>1 DEF PageInv
  <2>2. CASE g # f
    BY <1>1, <1>2, <1>4, <1>7, <2>2 DEF PageInv, Page!UnderWay
  <2> QED BY <2>1, <2>2
<1>8. \A g \in Calls : flow'[g].at = "write" =>
        flow'[g].adds /\ Settled' \subseteq flow'[g].copy /\ flow'[g].copy \subseteq made'
  BY <1>1, <1>4 DEF PageInv
<1>9. Page!StoredStays'
  BY <1>1, <1>4 DEF PageInv, Page!StoredStays, Settled
<1> QED BY <1>1, <1>3, <1>5, <1>6, <1>7, <1>8, <1>9 DEF PageInv

\* Leaving, locking, closing and opening the page again keep the invariant.
LEMMA WindowsKeep ==
  ASSUME PageInv, \/ Page!Cancel \/ Page!AddWallet \/ Page!Lock \/ Page!Unlock \/ Page!Close
                  \/ UNCHANGED Page!vars
  PROVE  PageInv'
<1>1. /\ UNCHANGED <<made, device, stored, overlapped>>
      /\ mounts' \in {mounts, mounts + 1} /\ (adding' = adding \/ adding' = TRUE)
  BY DEF PageInv, Page!Cancel, Page!AddWallet, Page!Lock, Page!Unlock, Page!Close, Page!vars, Page!history
<1>0. mounts' \in Nat /\ adding' \in BOOLEAN
  <2>1. mounts' \in Nat
    BY <1>1 DEF PageInv
  <2>2. adding \in BOOLEAN
    BY DEF PageInv
  <2>3. adding' \in BOOLEAN
    BY <1>1, <2>2, Zenon
  <2> QED BY <2>1, <2>3
<1>2. page' # "left" /\ ~adding' => device = {}
  BY DEF PageInv, Page!Cancel, Page!AddWallet, Page!Lock, Page!Unlock, Page!Close, Page!vars, Page!history
<1>3. Settled' = Settled /\ Page!StoredStays'
  BY <1>1 DEF Settled, PageInv, Page!StoredStays
<1>4. CASE UNCHANGED flow
  BY <1>0, <1>1, <1>2, <1>3, <1>4 DEF PageInv, FlowFits, Page!UnderWay
<1>5. CASE flow' = [f \in Calls |-> IF f \in Page!UnderWay THEN [flow[f] EXCEPT !.at = "failed"]
                                    ELSE flow[f]]
  <2>1. /\ flow' \in [Calls -> FlowType]
        /\ \A f \in Calls : IF f \in Page!UnderWay THEN flow'[f].at = "failed" ELSE flow'[f] = flow[f]
    BY <1>5 DEF PageInv, FlowType
  <2>2. Page!UnderWay' = {}
    BY <2>1 DEF Page!UnderWay
  <2>3. \A f \in Calls : flow'[f].at \notin Awaits
    BY <2>1 DEF Page!UnderWay, Awaits, PageInv, FlowType
  <2>4. \A f \in Calls : FlowFits(f)'
    BY <2>3 DEF FlowFits, Awaits
  <2> QED BY <1>0, <1>1, <1>2, <1>3, <2>1, <2>2, <2>3, <2>4 DEF PageInv, Awaits
<1> QED BY <1>4, <1>5 DEF Page!Cancel, Page!AddWallet, Page!Lock, Page!Unlock, Page!Close, Page!vars

\* Flows of any number, cancelled, left and begun beside one another, keep the
\* invariant (pages/Onboarding/Onboarding.tsx, state/wallet-store.ts).
THEOREM PageInductive ==
  ASSUME PageInv, [Page!Next]_(Page!vars)
  PROVE  PageInv'
<1>1. ASSUME NEW f \in Calls,
             \/ \E m \in Page!Methods : Page!Submit(f, m)
             \/ Page!Advance(f) \/ Page!Ceremony(f) \/ Page!Create(f) \/ Page!CallFails(f)
             \/ Page!Seal(f) \/ Page!ReadState(f) \/ Page!WriteState(f) \/ Page!SaveFails(f)
      PROVE  PageInv'
  BY <1>1, SubmitKeeps, CallsMove, SavesKeep
<1>2. CASE \/ Page!Cancel \/ Page!AddWallet \/ Page!Lock \/ Page!Unlock \/ Page!Close
           \/ UNCHANGED Page!vars
  BY <1>2, WindowsKeep
<1> QED BY <1>1, <1>2 DEF Page!Next

\* An account that was written to the device by a flow that ran alone stays
\* there, and the hub knows the wallet of every account, however pages are
\* cancelled, left, locked and opened again.
THEOREM StoredAccountsStay == Page!Spec => []StoredStays
<1>1. ASSUME Page!Init PROVE PageInv
  <2>1. /\ \A f \in Calls : flow[f] \in FlowType /\ flow[f].at = "idle"
        /\ flow \in [Calls -> FlowType]
    BY <1>1 DEF Page!Init, Page!Idle, FlowType
  <2>2. \A f \in Calls : FlowFits(f)
    BY <2>1 DEF FlowFits, Awaits
  <2>3. Page!UnderWay = {}
    BY <2>1 DEF Page!UnderWay
  <2> QED BY <1>1, <2>1, <2>2, <2>3 DEF Page!Init, PageInv, Settled, Page!StoredStays
<1>2. PageInv /\ [Page!Next]_(Page!vars) => PageInv'
  BY PageInductive
<1>3. PageInv => StoredStays
  BY DEF PageInv, StoredStays
<1> QED BY <1>1, <1>2, <1>3, PTL DEF Page!Spec

=============================================================================
