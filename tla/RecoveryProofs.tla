--------------------------- MODULE RecoveryProofs ---------------------------
(***************************************************************************)
(* No guess that was not counted, credentials only for the code that was   *)
(* mailed for the call's own challenge and wallet, and no way back for a   *)
(* challenge that is over, for any number of challenges, wallets and       *)
(* calls, by the inductive invariant IInv; and of the page, that verified  *)
(* credentials stay, by PageInv.                                           *)
(***************************************************************************)
EXTENDS MCRecovery, FiniteSetTheorems, SequenceTheorems, TLAPS

\* Calls of POST /recovery/email/verify that were counted and have not yet
\* asked Turnkey.
Guessing == {"reread", "auth"}
InFlight(ch) == {c \in Verifies : pc[c] \in Guessing /\ Challenge(c) = ch}

\* Each of them has one attempt set aside that no guess has used.
Budget ==
  \A ch \in Challenges :
    /\ IsFiniteSet(InFlight(ch))
    /\ guesses[ch] + Cardinality(InFlight(ch)) <= attempts[ch]

\* An OTP bound to a candidate was mailed for it.
OtpsFit ==
  \A ch \in Challenges, w \in Wallets : otp[ch][w] # 0 => mails[otp[ch][w]] = <<ch, w>>

\* What a place in the handler says of what the call works on.
Targeted == {"mint", "record", "count", "fail", "reread", "auth", "consume"}
PlacesFit ==
  \A c \in Calls :
    /\ pc[c] \in Targeted => at[c] \in Challenges \X Wallets
    /\ pc[c] = "tell" => Challenge(c) \in Challenges
    /\ pc[c] \in {"count", "reread"} => otp[Challenge(c)][Wallet(c)] # 0
    /\ pc[c] \in {"record", "auth"} => held[c] # 0 /\ mails[held[c]] = at[c]
    /\ reply[c] = "credentials" => pc[c] = "end"

\* Turnkey took the code of this call.
Won(c) == pc[c] = "consume" \/ reply[c] = "credentials"

\* The code was mailed for the call's challenge and wallet, and it is no other
\* winner's.
WinnersFit ==
  \A c \in Verifies : Won(c) =>
    /\ code[c] \in spent
    /\ mails[code[c]] = at[c]
    /\ \A d \in Verifies : Won(d) /\ code[d] = code[c] => d = c

IInv == /\ TypeOK
        /\ Budget
        /\ OtpsFit
        /\ PlacesFit
        /\ WinnersFit

-----------------------------------------------------------------------------
(* Frames *)

LEMMA InitIsSafe == Init => IInv
<1> SUFFICES ASSUME Init PROVE IInv
  OBVIOUS
<1>1. mails \in Seq(Challenges \X Wallets) /\ Len(mails) = 0
  BY DEF Init
<1>2. TypeOK
  BY <1>1, LimitsAssumption DEF Init, TypeOK, NoCandidates, Candidates, Statuses, Pcs, Replies
<1>3. Budget
  <2> SUFFICES ASSUME NEW ch \in Challenges PROVE Budget!(ch)
    BY DEF Budget
  <2>1. InFlight(ch) = {}
    BY DEF Init, InFlight, Guessing, Calls
  <2> QED BY <2>1, FS_EmptySet DEF Init
<1>4. OtpsFit /\ PlacesFit /\ WinnersFit
  BY DEF Init, OtpsFit, NoCandidates, PlacesFit, WinnersFit, Won, Targeted, Calls
<1> QED BY <1>2, <1>3, <1>4 DEF IInv

\* A handler that goes on or returns: no other call is touched.
LEMMA CallMoves ==
  ASSUME TypeOK, NEW c \in Calls, NEW place \in Pcs, pc' = [pc EXCEPT ![c] = place]
  PROVE  /\ pc' \in [Calls -> Pcs]
         /\ pc'[c] = place
         /\ \A d \in Calls \ {c} : pc'[d] = pc[d]
BY DEF TypeOK

LEMMA ReplyMoves ==
  ASSUME TypeOK, NEW c \in Calls, NEW what \in Replies, reply' = [reply EXCEPT ![c] = what]
  PROVE  /\ reply' \in [Calls -> Replies]
         /\ reply'[c] = what
         /\ \A d \in Calls \ {c} : reply'[d] = reply[d]
BY DEF TypeOK

\* Who neither begins nor ends a guess changes no budget.
LEMMA BudgetStays ==
  ASSUME Budget, NEW c \in Calls,
         pc[c] \notin Guessing, pc'[c] \notin Guessing,
         \A d \in Calls \ {c} : pc'[d] = pc[d] /\ at'[d] = at[d],
         UNCHANGED <<attempts, guesses>>
  PROVE  Budget'
<1> SUFFICES ASSUME NEW ch \in Challenges PROVE Budget!(ch)'
  BY DEF Budget
<1>1. InFlight(ch)' = InFlight(ch)
  BY DEF InFlight, Challenge, Calls
<1> QED BY <1>1 DEF Budget

LEMMA OtpsStay ==
  ASSUME OtpsFit, UNCHANGED <<otp, mails>>
  PROVE  OtpsFit'
BY DEF OtpsFit

\* What a step leaves of the calls that do not take it.
LEMMA OthersFit ==
  ASSUME TypeOK, PlacesFit, NEW c \in Calls,
         \A d \in Calls \ {c} : /\ pc'[d] = pc[d] /\ at'[d] = at[d]
                                /\ held'[d] = held[d] /\ reply'[d] = reply[d],
         \A ch \in Challenges, w \in Wallets : otp[ch][w] # 0 => otp'[ch][w] # 0,
         \A i \in 1..Len(mails) : mails'[i] = mails[i]
  PROVE  \A d \in Calls \ {c} : PlacesFit!(d)'
<1> SUFFICES ASSUME NEW d \in Calls, d # c PROVE PlacesFit!(d)'
  OBVIOUS
<1>1. pc[d] \in Targeted => Challenge(d) \in Challenges /\ Wallet(d) \in Wallets
  BY DEF PlacesFit, Challenge, Wallet
<1>2. held[d] # 0 => mails'[held[d]] = mails[held[d]]
  <2>1. Len(mails) \in Nat /\ held[d] \in 0..Len(mails)
    BY DEF TypeOK
  <2> QED BY <2>1
<1> QED BY <1>1, <1>2 DEF PlacesFit, Challenge, Wallet, Targeted

\* A step that lets nobody win.
LEMMA WinnersStay ==
  ASSUME TypeOK, WinnersFit, spent \subseteq spent',
         \A d \in Verifies : Won(d)' => Won(d) /\ code'[d] = code[d] /\ at'[d] = at[d],
         \A i \in 1..Len(mails) : mails'[i] = mails[i]
  PROVE  WinnersFit'
<1> SUFFICES ASSUME NEW d \in Verifies, Won(d)'
    PROVE  WinnersFit!(d)!2'
  BY DEF WinnersFit
<1>1. Won(d) /\ code'[d] = code[d] /\ at'[d] = at[d]
  OBVIOUS
<1>2. code[d] \in spent /\ mails'[code[d]] = mails[code[d]]
  BY <1>1 DEF WinnersFit, TypeOK
<1> QED BY <1>1, <1>2 DEF WinnersFit

-----------------------------------------------------------------------------
(* Steps *)

\* A step of a call that touches neither the OTPs nor a guess, and after which
\* the call has won only if it had.
LEMMA MoveKeeps ==
  ASSUME IInv, TypeOK', NEW c \in Calls,
         pc[c] \notin Guessing, pc'[c] \notin Guessing,
         \A d \in Calls \ {c} : /\ pc'[d] = pc[d] /\ at'[d] = at[d]
                                /\ held'[d] = held[d] /\ reply'[d] = reply[d],
         \A d \in Verifies \ {c} : code'[d] = code[d],
         UNCHANGED <<attempts, otp, mails, spent, guesses>>,
         PlacesFit!(c)',
         Won(c)' => Won(c) /\ code'[c] = code[c] /\ at'[c] = at[c]
  PROVE  IInv'
<1>1. Budget' /\ OtpsFit'
  BY BudgetStays, OtpsStay DEF IInv
<1>2. PlacesFit'
  BY OthersFit DEF IInv, PlacesFit
<1>3. WinnersFit'
  <2>1. \A d \in Verifies : Won(d)' => Won(d) /\ code'[d] = code[d] /\ at'[d] = at[d]
    BY DEF Won, Calls
  <2> QED BY <2>1, WinnersStay DEF IInv
<1> QED BY <1>1, <1>2, <1>3 DEF IInv

\* A call that returns without credentials, and has changed no more than the
\* status of a challenge and what clients know.
LEMMA ReturnKeeps ==
  ASSUME IInv, NEW c \in Calls, NEW what \in Replies \ {"credentials"}, Return(c, what),
         pc[c] # "end", pc[c] \notin Guessing,
         status' \in [Challenges -> Statuses], known' \subseteq Challenges,
         UNCHANGED <<attempts, otp, count, late, turnkey, at, seen, held, code>>
  PROVE  IInv'
<1>1. pc' = [pc EXCEPT ![c] = "end"] /\ reply' = [reply EXCEPT ![c] = what] /\ "end" \in Pcs
  BY DEF Return, Pcs
<1>2. UNCHANGED <<mails, spent, guesses>>
  BY DEF turnkey
<1>3. /\ pc' \in [Calls -> Pcs] /\ pc'[c] = "end"
      /\ reply' \in [Calls -> Replies] /\ reply'[c] = what
      /\ \A d \in Calls \ {c} : pc'[d] = pc[d] /\ reply'[d] = reply[d]
  BY <1>1, CallMoves, ReplyMoves DEF IInv
<1>4. TypeOK'
  BY <1>2, <1>3 DEF IInv, TypeOK
<1>5. PlacesFit!(c)'
  BY <1>3 DEF Targeted
<1>6. ~Won(c)'
  BY <1>3 DEF Won
<1> QED BY <1>2, <1>3, <1>4, <1>5, <1>6, MoveKeeps DEF Guessing

LEMMA LapseKeeps ==
  ASSUME IInv, NEW ch \in Challenges, Lapse(ch)
  PROVE  IInv'
<1>1. /\ UNCHANGED <<status, attempts, otp, count, known, mails, spent, guesses, pc, at, seen, held, code, reply>>
      /\ late' = [late EXCEPT ![ch] = TRUE]
  BY DEF Lapse, turnkey, calls
<1>2. TypeOK'
  BY <1>1 DEF IInv, TypeOK
<1>3. Budget' /\ OtpsFit' /\ PlacesFit' /\ WinnersFit'
  BY <1>1 DEF IInv, Budget, InFlight, OtpsFit, PlacesFit, WinnersFit, Won, Challenge, Wallet
<1> QED BY <1>2, <1>3 DEF IInv

LEMMA InitCountKeeps ==
  ASSUME IInv, NEW c \in Calls, InitCount(c)
  PROVE  IInv'
<1>1. /\ pc[c] = "begin"
      /\ UNCHANGED <<status, attempts, otp, count, late, known, mails, spent, guesses, at, seen, held, code>>
  BY DEF InitCount, rows, turnkey
<1>2. CASE Return(c, "blocked")
  BY <1>1, <1>2, ReturnKeeps DEF IInv, TypeOK, Guessing, Replies, turnkey
<1>3. CASE Goto(c, "insert")
  <2>1. pc' \in [Calls -> Pcs] /\ pc'[c] = "insert" /\ \A d \in Calls \ {c} : pc'[d] = pc[d]
    BY <1>3, CallMoves DEF IInv, Goto, Pcs
  <2>2. TypeOK' /\ UNCHANGED reply
    BY <1>1, <1>3, <2>1 DEF IInv, TypeOK, Goto
  <2>3. PlacesFit!(c)' /\ (Won(c)' => Won(c))
    BY <1>1, <2>1, <2>2 DEF IInv, PlacesFit, Targeted, Won
  <2> QED BY <1>1, <2>1, <2>2, <2>3, MoveKeeps DEF Guessing
<1> QED BY <1>2, <1>3 DEF InitCount

LEMMA InitInsertKeeps ==
  ASSUME IInv, NEW c \in Calls, NEW ch \in Challenges, InitInsert(c, ch)
  PROVE  IInv'
<1>1. /\ pc[c] = "insert" /\ status' = [status EXCEPT ![ch] = "pending"]
      /\ at' = [at EXCEPT ![c] = <<ch>>] /\ pc' = [pc EXCEPT ![c] = "tell"]
      /\ UNCHANGED <<attempts, otp, count, late, known, mails, spent, guesses, seen, held, code, reply>>
  BY DEF InitInsert, turnkey, Goto
<1>2. pc' \in [Calls -> Pcs] /\ pc'[c] = "tell" /\ \A d \in Calls \ {c} : pc'[d] = pc[d]
  BY <1>1, CallMoves DEF IInv, Pcs
<1>3. at'[c] = <<ch>> /\ \A d \in Calls \ {c} : at'[d] = at[d]
  BY <1>1 DEF IInv, TypeOK
<1>4. TypeOK'
  BY <1>1, <1>2 DEF IInv, TypeOK, Statuses
<1>5. PlacesFit!(c)' /\ ~Won(c)'
  BY <1>1, <1>2, <1>3 DEF IInv, PlacesFit, Targeted, Won, Challenge
<1> QED BY <1>1, <1>2, <1>3, <1>4, <1>5, MoveKeeps DEF Guessing

LEMMA InitTellKeeps ==
  ASSUME IInv, NEW c \in Calls, InitTell(c)
  PROVE  IInv'
<1>1. /\ pc[c] = "tell" /\ Return(c, "challenge") /\ known' = known \cup {Challenge(c)}
      /\ UNCHANGED <<status, attempts, otp, count, late, turnkey, at, seen, held, code>>
  BY DEF InitTell, rows
<1>2. known' \subseteq Challenges /\ status' \in [Challenges -> Statuses]
  BY <1>1 DEF IInv, TypeOK, PlacesFit
<1> QED BY <1>1, <1>2, ReturnKeeps DEF Guessing, Replies

LEMMA ExpireKeeps ==
  ASSUME IInv, NEW c \in Calls, Expire(c) \/ MarkFailed(c)
  PROVE  IInv'
<1>1. PICK new \in {"expired", "failed"}, what \in {"gone", "tooMany"} :
        /\ pc[c] \in {"expire", "fail"} /\ Return(c, what)
        /\ status' = [status EXCEPT ![Challenge(c)] = new]
        /\ UNCHANGED <<attempts, otp, count, late, known, turnkey, at, seen, held, code>>
  BY DEF Expire, MarkFailed
<1>2. known' \subseteq Challenges /\ status' \in [Challenges -> Statuses]
  BY <1>1 DEF IInv, TypeOK, Statuses
<1> QED BY <1>1, <1>2, ReturnKeeps DEF Guessing, Replies

\* A call that reads the row it was asked about.
LEMMA ReadKeeps ==
  ASSUME IInv, NEW c \in Calls, NEW ch \in Challenges, NEW w \in Wallets, ReadRow(c, ch, w),
         NEW place \in {"end", "expire", "mint", "fail", "count"},
         pc' = [pc EXCEPT ![c] = place],
         NEW what \in Replies \ {"credentials"}, reply' = [reply EXCEPT ![c] = what],
         place = "count" => otp[ch][w] # 0,
         seen' \in [Starts -> Candidates],
         code' \in [Verifies -> 0..Len(mails)], \A d \in Verifies \ {c} : code'[d] = code[d],
         UNCHANGED <<rows, known, turnkey, held>>
  PROVE  IInv'
<1>1. /\ UNCHANGED <<status, attempts, otp, count, late, known, mails, spent, guesses, held>>
      /\ pc[c] = "begin" /\ at' = [at EXCEPT ![c] = <<ch, w>>]
  BY DEF rows, turnkey, ReadRow
<1>2. /\ pc' \in [Calls -> Pcs] /\ pc'[c] = place
      /\ reply' \in [Calls -> Replies] /\ reply'[c] = what
      /\ \A d \in Calls \ {c} : pc'[d] = pc[d] /\ reply'[d] = reply[d]
  BY CallMoves, ReplyMoves DEF IInv, Pcs
<1>3. at'[c] = <<ch, w>> /\ \A d \in Calls \ {c} : at'[d] = at[d]
  BY <1>1 DEF IInv, TypeOK
<1>4. at' \in [Calls -> (Challenges \X Wallets) \cup {<<h>> : h \in Challenges} \cup {<<>>}]
  BY <1>1 DEF IInv, TypeOK
<1>5. TypeOK'
  BY <1>1, <1>2, <1>4 DEF IInv, TypeOK
<1>6. PlacesFit!(c)'
  BY <1>1, <1>2, <1>3 DEF Targeted, Challenge, Wallet
<1>7. ~Won(c)'
  BY <1>2 DEF Won
<1> QED BY <1>1, <1>2, <1>3, <1>5, <1>6, <1>7, MoveKeeps DEF Guessing

\* Going on is answering nothing yet.
LEMMA GotoMoves ==
  ASSUME IInv, NEW c \in Calls, NEW place, Goto(c, place), pc[c] # "end"
  PROVE  /\ pc' = [pc EXCEPT ![c] = place]
         /\ \E what \in Replies \ {"credentials"} : reply' = [reply EXCEPT ![c] = what]
<1>1. reply[c] \in Replies \ {"credentials"} /\ reply' = [reply EXCEPT ![c] = reply[c]]
  BY DEF IInv, TypeOK, PlacesFit, Goto
<1> QED BY <1>1 DEF Goto

LEMMA StartReadKeeps ==
  ASSUME IInv, NEW c \in Starts, NEW ch \in Challenges, NEW w \in Wallets, StartRead(c, ch, w)
  PROVE  IInv'
<1>1. /\ c \in Calls /\ pc[c] = "begin" /\ ReadRow(c, ch, w)
      /\ UNCHANGED <<rows, known, turnkey, held, code>>
      /\ seen' = [seen EXCEPT ![c] = [otp |-> otp[ch], count |-> count[ch]]]
  BY DEF StartRead, ReadRow, Calls
<1>2. /\ code' \in [Verifies -> 0..Len(mails)] /\ \A d \in Verifies \ {c} : code'[d] = code[d]
  BY <1>1 DEF IInv, TypeOK
<1>3. seen' \in [Starts -> Candidates]
  <2>1. Len(mails) \in Nat
    BY DEF IInv, TypeOK
  <2>2. otp[ch] \in [Wallets -> Nat] /\ count[ch] \in [Wallets -> Nat]
    BY <2>1 DEF IInv, TypeOK
  <2> QED BY <1>1, <2>2 DEF IInv, TypeOK, Candidates
<1>4. \/ \E what \in {"gone", "wait"} : Return(c, what)
      \/ \E place \in {"expire", "mint"} : Goto(c, place)
  BY DEF StartRead, Classify
<1>5. ASSUME NEW what \in {"gone", "wait"}, Return(c, what) PROVE IInv'
  BY <1>1, <1>2, <1>3, <1>5, ReadKeeps DEF Return, Replies
<1>6. ASSUME NEW place \in {"expire", "mint"}, Goto(c, place) PROVE IInv'
  <2>1. /\ pc' = [pc EXCEPT ![c] = place]
        /\ \E what \in Replies \ {"credentials"} : reply' = [reply EXCEPT ![c] = what]
    BY <1>1, <1>6, GotoMoves
  <2>2. place \in {"end", "expire", "mint", "fail", "count"} /\ place # "count"
    OBVIOUS
  <2> QED BY <1>1, <1>2, <1>3, <2>1, <2>2, ReadKeeps
<1> QED BY <1>4, <1>5, <1>6

LEMMA VerifyReadKeeps ==
  ASSUME IInv, NEW c \in Verifies, NEW ch \in Challenges, NEW w \in Wallets, VerifyRead(c, ch, w)
  PROVE  IInv'
<1>1. /\ c \in Calls /\ pc[c] = "begin" /\ ReadRow(c, ch, w)
      /\ UNCHANGED <<rows, known, turnkey, seen, held>>
  BY DEF VerifyRead, ReadRow, Calls
<1>2. /\ code' \in [Verifies -> 0..Len(mails)] /\ \A d \in Verifies \ {c} : code'[d] = code[d]
  <2>1. PICK guess \in 0..Len(mails) : code' = [code EXCEPT ![c] = guess]
    BY DEF VerifyRead
  <2> QED BY <2>1 DEF IInv, TypeOK
<1>3. seen' \in [Starts -> Candidates]
  BY <1>1 DEF IInv, TypeOK
<1>4. \/ \E what \in {"gone", "notSent"} : Return(c, what)
      \/ \E place \in {"expire", "fail", "count"} :
           Goto(c, place) /\ (place = "count" => otp[ch][w] # 0)
  BY DEF VerifyRead, Classify
<1>5. ASSUME NEW what \in {"gone", "notSent"}, Return(c, what) PROVE IInv'
  BY <1>1, <1>2, <1>3, <1>5, ReadKeeps DEF Return, Replies
<1>6. ASSUME NEW place \in {"expire", "fail", "count"}, Goto(c, place),
             place = "count" => otp[ch][w] # 0
      PROVE  IInv'
  <2>1. pc' = [pc EXCEPT ![c] = place]
    BY <1>6 DEF Goto
  <2>2. PICK what \in Replies \ {"credentials"} : reply' = [reply EXCEPT ![c] = what]
    BY <1>1, <1>6, GotoMoves
  <2>3. place \in {"end", "expire", "mint", "fail", "count"}
    OBVIOUS
  <2>4. place = "count" => otp[ch][w] # 0
    BY <1>6
  <2> QED BY <1>1, <1>2, <1>3, <2>1, <2>2, <2>3, <2>4, ReadKeeps
<1> QED BY <1>4, <1>5, <1>6

\* A mail more leaves the places of the others.
LEMMA MailsGrow ==
  ASSUME TypeOK, NEW target \in Challenges \X Wallets, mails' = Append(mails, target)
  PROVE  /\ mails' \in Seq(Challenges \X Wallets)
         /\ Len(mails) \in Nat /\ Len(mails') = Len(mails) + 1
         /\ mails'[Len(mails')] = target
         /\ \A i \in 1..Len(mails) : mails'[i] = mails[i]
BY AppendProperties, LenProperties DEF TypeOK

LEMMA MintKeeps ==
  ASSUME IInv, NEW c \in Calls, Mint(c)
  PROVE  IInv'
<1>1. /\ pc[c] = "mint" /\ at[c] \in Challenges \X Wallets
      /\ UNCHANGED <<status, attempts, otp, count, late, known, spent, guesses, at, seen, code>>
  BY DEF Mint, rows, IInv, PlacesFit, Targeted
<1>2. CASE Return(c, "error") /\ UNCHANGED <<mails, held>>
  BY <1>1, <1>2, ReturnKeeps DEF IInv, TypeOK, Guessing, Replies, turnkey
<1>3. CASE /\ mails' = Append(mails, at[c])
           /\ \/ held' = [held EXCEPT ![c] = Len(mails')] /\ Goto(c, "record")
              \/ Return(c, "error") /\ UNCHANGED held
  <2>1. /\ mails' \in Seq(Challenges \X Wallets)
        /\ Len(mails) \in Nat /\ Len(mails') = Len(mails) + 1
        /\ mails'[Len(mails')] = at[c]
        /\ \A i \in 1..Len(mails) : mails'[i] = mails[i]
    BY <1>1, <1>3, MailsGrow DEF IInv
  <2>2. PICK place \in {"record", "end"}, what \in Replies \ {"credentials"} :
          /\ pc' = [pc EXCEPT ![c] = place]
          /\ reply' = [reply EXCEPT ![c] = what]
          /\ place = "record" => held' = [held EXCEPT ![c] = Len(mails')]
          /\ place = "end" => UNCHANGED held
    <3>1. CASE held' = [held EXCEPT ![c] = Len(mails')] /\ Goto(c, "record")
      BY <1>1, <3>1, GotoMoves
    <3>2. CASE Return(c, "error") /\ UNCHANGED held
      BY <3>2 DEF Return, Replies
    <3> QED BY <1>3, <3>1, <3>2
  <2>3. /\ pc' \in [Calls -> Pcs] /\ pc'[c] = place
        /\ reply' \in [Calls -> Replies] /\ reply'[c] = what
        /\ \A d \in Calls \ {c} : pc'[d] = pc[d] /\ reply'[d] = reply[d]
    BY <2>2, CallMoves, ReplyMoves DEF IInv, Pcs
  <2>4. /\ held' \in [Calls -> 0..Len(mails')]
        /\ place = "record" => held'[c] = Len(mails')
        /\ \A d \in Calls \ {c} : held'[d] = held[d]
    <3>1. 0..Len(mails) \subseteq 0..Len(mails') /\ Len(mails') \in 0..Len(mails')
      BY <2>1
    <3>2. CASE place = "record"
      BY <2>2, <3>1, <3>2 DEF IInv, TypeOK
    <3>3. CASE place = "end"
      BY <2>2, <3>1, <3>3 DEF IInv, TypeOK
    <3> QED BY <3>2, <3>3
  <2>5. TypeOK'
    <3>1. 0..Len(mails) \subseteq 0..Len(mails') /\ 1..Len(mails) \subseteq 1..Len(mails')
      BY <2>1
    <3>2. otp' \in [Challenges -> [Wallets -> 0..Len(mails')]]
      BY <1>1, <3>1 DEF IInv, TypeOK
    <3>3. code' \in [Verifies -> 0..Len(mails')]
      BY <1>1, <3>1 DEF IInv, TypeOK
    <3> QED BY <1>1, <2>1, <2>3, <2>4, <3>1, <3>2, <3>3 DEF IInv, TypeOK
  <2>6. Budget'
    BY <1>1, <2>3, BudgetStays DEF IInv, Guessing
  <2>7. OtpsFit'
    <3> SUFFICES ASSUME NEW ch \in Challenges, NEW w \in Wallets, otp[ch][w] # 0
        PROVE  mails'[otp[ch][w]] = <<ch, w>>
      BY <1>1 DEF OtpsFit
    <3>1. otp[ch][w] \in 1..Len(mails)
      BY <2>1 DEF IInv, TypeOK
    <3> QED BY <2>1, <3>1 DEF IInv, OtpsFit
  <2>8. PlacesFit'
    <3>1. PlacesFit!(c)'
      BY <1>1, <2>1, <2>3, <2>4 DEF Targeted
    <3>2. \A d \in Calls \ {c} : PlacesFit!(d)'
      BY <1>1, <2>1, <2>3, <2>4, OthersFit DEF IInv
    <3> QED BY <3>1, <3>2 DEF PlacesFit
  <2>9. WinnersFit'
    <3>1. \A d \in Verifies : Won(d)' => Won(d)
      BY <2>3 DEF Won, Calls
    <3> QED BY <1>1, <2>1, <3>1, WinnersStay DEF IInv
  <2> QED BY <2>5, <2>6, <2>7, <2>8, <2>9 DEF IInv
<1> QED BY <1>2, <1>3 DEF Mint

LEMMA RecordStartKeeps ==
  ASSUME IInv, NEW c \in Calls, RecordStart(c)
  PROVE  IInv'
<1> DEFINE ch == Challenge(c)
           w == Wallet(c)
<1>1. /\ pc[c] = "record" /\ Return(c, "sent")
      /\ otp' = [otp EXCEPT ![ch] = [otp[ch] EXCEPT ![w] = held[c]]]
      /\ count' = [count EXCEPT ![ch] = [count[ch] EXCEPT ![w] = count[ch][w] + 1]]
      /\ UNCHANGED <<status, attempts, late, known, mails, spent, guesses, at, seen, held, code>>
  BY DEF RecordStart, turnkey
<1>2. ch \in Challenges /\ w \in Wallets /\ held[c] # 0 /\ mails[held[c]] = <<ch, w>>
  BY <1>1 DEF IInv, PlacesFit, Targeted, Challenge, Wallet
<1>3. /\ pc' \in [Calls -> Pcs] /\ pc'[c] = "end"
      /\ reply' \in [Calls -> Replies] /\ reply'[c] = "sent"
      /\ \A d \in Calls \ {c} : pc'[d] = pc[d] /\ reply'[d] = reply[d]
  BY <1>1, CallMoves, ReplyMoves DEF IInv, Return, Pcs, Replies
<1> HIDE DEF ch, w
<1>4. /\ otp' \in [Challenges -> [Wallets -> 0..Len(mails)]]
      /\ \A h \in Challenges, v \in Wallets :
           otp'[h][v] = IF h = ch /\ v = w THEN held[c] ELSE otp[h][v]
  BY <1>1, <1>2 DEF IInv, TypeOK
<1>5. TypeOK'
  <2>1. count' \in [Challenges -> [Wallets -> Nat]]
    <3>1. count[ch] \in [Wallets -> Nat]
      BY <1>2 DEF IInv, TypeOK
    <3>2. count[ch][w] + 1 \in Nat
      BY <1>2, <3>1
    <3>3. [count[ch] EXCEPT ![w] = count[ch][w] + 1] \in [Wallets -> Nat]
      BY <3>1, <3>2
    <3> QED BY <1>1, <3>3 DEF IInv, TypeOK
  <2> QED BY <1>1, <1>3, <1>4, <2>1 DEF IInv, TypeOK
<1>6. Budget'
  BY <1>1, <1>3, BudgetStays DEF IInv, Guessing
<1>7. OtpsFit'
  BY <1>1, <1>2, <1>4 DEF IInv, OtpsFit
<1>8. PlacesFit'
  <2>1. PlacesFit!(c)'
    BY <1>3 DEF Targeted
  <2>2. \A h \in Challenges, v \in Wallets : otp[h][v] # 0 => otp'[h][v] # 0
    BY <1>2, <1>4
  <2>3. \A d \in Calls \ {c} : PlacesFit!(d)'
    BY <1>1, <1>3, <2>2, OthersFit DEF IInv
  <2> QED BY <2>1, <2>3 DEF PlacesFit
<1>9. WinnersFit'
  <2>1. \A d \in Verifies : Won(d)' => Won(d)
    BY <1>3 DEF Won, Calls
  <2> QED BY <1>1, <2>1, WinnersStay DEF IInv
<1> QED BY <1>5, <1>6, <1>7, <1>8, <1>9 DEF IInv

\* Counting takes one attempt from the budget and sets it aside for the call.
LEMMA CountAttemptKeeps ==
  ASSUME IInv, NEW c \in Verifies, CountAttempt(c)
  PROVE  IInv'
<1> DEFINE ch == Challenge(c)
<1>1. /\ pc[c] = "count" /\ c \in Calls
      /\ UNCHANGED <<status, otp, count, late, known, mails, spent, guesses, at, seen, held, code>>
  BY DEF CountAttempt, turnkey, Calls
<1>2. at[c] \in Challenges \X Wallets /\ ch \in Challenges /\ otp[ch][Wallet(c)] # 0
  BY <1>1 DEF IInv, PlacesFit, Targeted, Challenge
<1>3. PICK place \in {"reread", "fail"} :
        /\ Goto(c, place)
        /\ place = "reread" => Countable(ch) /\ attempts' = [attempts EXCEPT ![ch] = attempts[ch] + 1]
        /\ place = "fail" => UNCHANGED attempts
  BY DEF CountAttempt
<1>4. /\ pc' \in [Calls -> Pcs] /\ pc'[c] = place
      /\ \A d \in Calls \ {c} : pc'[d] = pc[d]
      /\ UNCHANGED reply
  BY <1>1, <1>3, CallMoves DEF IInv, Pcs, Goto
<1>5. attempts' \in [Challenges -> 0..MaxAttempts]
  <2>1. CASE place = "fail"
    BY <1>3, <2>1 DEF IInv, TypeOK
  <2>2. CASE place = "reread"
    <3>1. attempts[ch] \in 0..MaxAttempts /\ attempts[ch] < MaxAttempts
      BY <1>2, <1>3, <2>2 DEF IInv, TypeOK, Countable
    <3>2. attempts[ch] + 1 \in 0..MaxAttempts
      BY <3>1, LimitsAssumption
    <3> QED BY <1>3, <2>2, <3>2 DEF IInv, TypeOK
  <2> QED BY <2>1, <2>2
<1>6. TypeOK'
  BY <1>1, <1>4, <1>5 DEF IInv, TypeOK
<1>7. OtpsFit'
  BY <1>1, OtpsStay DEF IInv
<1>8. PlacesFit'
  <2>1. PlacesFit!(c)'
    BY <1>1, <1>2, <1>4 DEF IInv, PlacesFit, Targeted, Challenge, Wallet
  <2>2. \A d \in Calls \ {c} : PlacesFit!(d)'
    BY <1>1, <1>4, OthersFit DEF IInv
  <2> QED BY <2>1, <2>2 DEF PlacesFit
<1>9. WinnersFit'
  <2>1. \A d \in Verifies : Won(d)' => Won(d)
    BY <1>4 DEF Won, Calls
  <2> QED BY <1>1, <2>1, WinnersStay DEF IInv
<1>10. Budget'
  <2>1. CASE place = "fail"
    BY <1>1, <1>3, <1>4, <2>1, BudgetStays DEF IInv, Guessing
  <2>2. CASE place = "reread"
    <3> SUFFICES ASSUME NEW h \in Challenges PROVE Budget!(h)'
      BY DEF Budget
    <3>1. IsFiniteSet(InFlight(h)) /\ guesses[h] + Cardinality(InFlight(h)) <= attempts[h]
      BY DEF IInv, Budget
    <3>2. CASE h = ch
      <4>1. InFlight(h)' = InFlight(h) \cup {c} /\ c \notin InFlight(h)
        BY <1>1, <1>4, <2>2, <3>2 DEF InFlight, Guessing, Challenge, Calls
      <4>2. /\ IsFiniteSet(InFlight(h)')
            /\ Cardinality(InFlight(h)') = Cardinality(InFlight(h)) + 1
        BY <3>1, <4>1, FS_AddElement
      <4>3. attempts'[h] = attempts[h] + 1 /\ guesses[h] \in Nat /\ attempts[h] \in Nat
        BY <1>3, <2>2, <3>2 DEF IInv, TypeOK
      <4>4. Cardinality(InFlight(h)) \in Nat
        BY <3>1, FS_CardinalityType
      <4> QED BY <1>1, <3>1, <4>2, <4>3, <4>4
    <3>3. CASE h # ch
      <4>1. InFlight(h)' = InFlight(h)
        BY <1>1, <1>4, <3>3 DEF InFlight, Guessing, Challenge, Calls
      <4>2. attempts'[h] = attempts[h]
        BY <1>3, <2>2, <3>3 DEF IInv, TypeOK
      <4> QED BY <1>1, <3>1, <4>1, <4>2
    <3> QED BY <3>2, <3>3
  <2> QED BY <2>1, <2>2
<1> QED BY <1>6, <1>7, <1>8, <1>9, <1>10 DEF IInv

LEMMA RereadKeeps ==
  ASSUME IInv, NEW c \in Calls, Reread(c)
  PROVE  IInv'
<1>1. /\ pc[c] = "reread" /\ Goto(c, "auth")
      /\ held' = [held EXCEPT ![c] = otp[Challenge(c)][Wallet(c)]]
      /\ UNCHANGED <<status, attempts, otp, count, late, known, mails, spent, guesses, at, seen, code>>
  BY DEF Reread, rows, turnkey
<1>2. /\ at[c] \in Challenges \X Wallets /\ Challenge(c) \in Challenges /\ Wallet(c) \in Wallets
      /\ at[c] = <<Challenge(c), Wallet(c)>> /\ otp[Challenge(c)][Wallet(c)] # 0
  BY <1>1 DEF IInv, PlacesFit, Targeted, Challenge, Wallet
<1>3. /\ pc' \in [Calls -> Pcs] /\ pc'[c] = "auth"
      /\ \A d \in Calls \ {c} : pc'[d] = pc[d]
      /\ UNCHANGED reply
  BY <1>1, CallMoves DEF IInv, Pcs, Goto
<1>4. /\ held' \in [Calls -> 0..Len(mails)]
      /\ held'[c] = otp[Challenge(c)][Wallet(c)]
      /\ \A d \in Calls \ {c} : held'[d] = held[d]
  BY <1>1, <1>2 DEF IInv, TypeOK
<1>5. TypeOK'
  BY <1>1, <1>3, <1>4 DEF IInv, TypeOK
<1>6. Budget'
  <2> SUFFICES ASSUME NEW h \in Challenges PROVE Budget!(h)'
    BY DEF Budget
  <2>1. InFlight(h)' = InFlight(h)
    BY <1>1, <1>3 DEF InFlight, Guessing, Challenge, Calls
  <2> QED BY <1>1, <2>1 DEF IInv, Budget
<1>7. OtpsFit'
  BY <1>1, OtpsStay DEF IInv
<1>8. PlacesFit'
  <2>1. mails[held'[c]] = at[c]
    BY <1>2, <1>4 DEF IInv, OtpsFit
  <2>2. PlacesFit!(c)'
    BY <1>1, <1>2, <1>3, <1>4, <2>1 DEF IInv, PlacesFit, Targeted
  <2>3. \A d \in Calls \ {c} : PlacesFit!(d)'
    BY <1>1, <1>3, <1>4, OthersFit DEF IInv
  <2> QED BY <2>2, <2>3 DEF PlacesFit
<1>9. WinnersFit'
  <2>1. \A d \in Verifies : Won(d)' => Won(d)
    BY <1>3 DEF Won, Calls
  <2> QED BY <1>1, <2>1, WinnersStay DEF IInv
<1> QED BY <1>5, <1>6, <1>7, <1>8, <1>9 DEF IInv

\* A guess uses up the attempt that was set aside for it.
LEMMA GuessUsesAttempt ==
  ASSUME IInv, NEW c \in Verifies, pc[c] \in Guessing, pc'[c] \notin Guessing,
         \A d \in Calls \ {c} : pc'[d] = pc[d],
         UNCHANGED <<attempts, at>>,
         \/ guesses' = [guesses EXCEPT ![Challenge(c)] = guesses[Challenge(c)] + 1]
         \/ UNCHANGED guesses
  PROVE  Budget'
<1> SUFFICES ASSUME NEW h \in Challenges PROVE Budget!(h)'
  BY DEF Budget
<1>1. IsFiniteSet(InFlight(h)) /\ guesses[h] + Cardinality(InFlight(h)) <= attempts[h]
  BY DEF IInv, Budget
<1>2. guesses[h] \in Nat /\ attempts[h] \in Nat /\ c \in Calls
  BY DEF IInv, TypeOK, Calls
<1>3. Cardinality(InFlight(h)) \in Nat
  BY <1>1, FS_CardinalityType
<1>4. CASE h = Challenge(c)
  <2>1. InFlight(h)' = InFlight(h) \ {c} /\ c \in InFlight(h)
    BY <1>2, <1>4 DEF InFlight, Challenge, Calls
  <2>2. /\ IsFiniteSet(InFlight(h)')
        /\ Cardinality(InFlight(h)') = Cardinality(InFlight(h)) - 1
    BY <1>1, <2>1, FS_RemoveElement
  <2>3. guesses'[h] \in {guesses[h], guesses[h] + 1}
    BY <1>4 DEF IInv, TypeOK
  <2> QED BY <1>1, <1>2, <1>3, <2>2, <2>3
<1>5. CASE h # Challenge(c)
  <2>1. InFlight(h)' = InFlight(h)
    BY <1>5 DEF InFlight, Challenge, Calls
  <2>2. guesses'[h] = guesses[h]
    BY <1>5 DEF IInv, TypeOK
  <2> QED BY <1>1, <2>1, <2>2
<1> QED BY <1>4, <1>5

\* Turnkey takes a code once, so who wins is the first to win with it.
LEMMA AuthKeeps ==
  ASSUME IInv, NEW c \in Verifies, Auth(c)
  PROVE  IInv'
<1>1. /\ pc[c] = "auth" /\ c \in Calls
      /\ guesses' = [guesses EXCEPT ![Challenge(c)] = guesses[Challenge(c)] + 1]
      /\ UNCHANGED <<status, attempts, otp, count, late, known, mails, at, seen, held, code>>
  BY DEF Auth, rows, Calls
<1>2. at[c] \in Challenges \X Wallets /\ held[c] # 0 /\ mails[held[c]] = at[c]
  BY <1>1 DEF IInv, PlacesFit, Targeted
<1>3. PICK place \in {"consume", "end"}, what \in Replies \ {"credentials"} :
        /\ pc' = [pc EXCEPT ![c] = place]
        /\ reply' = [reply EXCEPT ![c] = what]
        /\ \/ code[c] = held[c] /\ held[c] \notin spent /\ spent' = spent \cup {held[c]}
           \/ place = "end" /\ UNCHANGED spent
  <2>1. CASE Return(c, "unauthorized")
    BY <2>1 DEF Auth, Return, Replies
  <2>2. CASE /\ code[c] = held[c] /\ held[c] \notin spent
             /\ spent' = spent \cup {held[c]} /\ Goto(c, "consume")
    <3>1. /\ pc' = [pc EXCEPT ![c] = "consume"]
          /\ \E what \in Replies \ {"credentials"} : reply' = [reply EXCEPT ![c] = what]
      BY <1>1, <2>2, GotoMoves
    <3> QED BY <2>2, <3>1
  <2> QED BY <2>1, <2>2 DEF Auth
<1>4. /\ pc' \in [Calls -> Pcs] /\ pc'[c] = place
      /\ reply' \in [Calls -> Replies] /\ reply'[c] = what
      /\ \A d \in Calls \ {c} : pc'[d] = pc[d] /\ reply'[d] = reply[d]
  BY <1>1, <1>3, CallMoves, ReplyMoves DEF IInv, Pcs
<1>5. spent \subseteq spent' /\ spent' \subseteq 1..Len(mails)
  <2>1. held[c] \in 1..Len(mails)
    BY <1>1, <1>2, LenProperties DEF IInv, TypeOK
  <2> QED BY <1>3, <2>1 DEF IInv, TypeOK
<1>6. TypeOK'
  <2>1. guesses' \in [Challenges -> Nat]
    <3>1. Challenge(c) \in Challenges
      BY <1>2 DEF Challenge
    <3>2. guesses[Challenge(c)] + 1 \in Nat
      BY <3>1 DEF IInv, TypeOK
    <3> QED BY <1>1, <3>2 DEF IInv, TypeOK
  <2> QED BY <1>1, <1>4, <1>5, <2>1 DEF IInv, TypeOK
<1>7. Budget'
  BY <1>1, <1>4, GuessUsesAttempt DEF Guessing
<1>8. OtpsFit'
  BY <1>1, OtpsStay DEF IInv
<1>9. PlacesFit'
  <2>1. PlacesFit!(c)'
    BY <1>1, <1>2, <1>4 DEF Targeted
  <2>2. \A d \in Calls \ {c} : PlacesFit!(d)'
    BY <1>1, <1>4, OthersFit DEF IInv
  <2> QED BY <2>1, <2>2 DEF PlacesFit
<1>10. \A d \in Verifies \ {c} : Won(d)' <=> Won(d)
  BY <1>4 DEF Won, Calls
<1>11. CASE place = "consume"
  <2>1. code[c] = held[c] /\ held[c] \notin spent /\ spent' = spent \cup {held[c]}
    BY <1>3, <1>11
  <2>2. \A d \in Verifies \ {c} : Won(d) => code[d] \in spent /\ code[d] # code[c]
    BY <2>1 DEF IInv, WinnersFit
  <2>3. WinnersFit'
    <3> SUFFICES ASSUME NEW d \in Verifies, Won(d)' PROVE WinnersFit!(d)!2'
      BY DEF WinnersFit
    <3>1. CASE d = c
      BY <1>1, <1>2, <1>10, <2>1, <2>2, <3>1
    <3>2. CASE d # c
      BY <1>1, <1>5, <1>10, <2>2, <3>2 DEF IInv, WinnersFit
    <3> QED BY <3>1, <3>2
  <2> QED BY <1>6, <1>7, <1>8, <1>9, <2>3 DEF IInv
<1>12. CASE place = "end"
  <2>1. ~Won(c)'
    BY <1>4, <1>12 DEF Won
  <2>2. WinnersFit'
    BY <1>1, <1>5, <1>10, <2>1, WinnersStay DEF IInv
  <2> QED BY <1>6, <1>7, <1>8, <1>9, <2>2 DEF IInv
<1> QED BY <1>11, <1>12

LEMMA ConsumeKeeps ==
  ASSUME IInv, NEW c \in Calls, Consume(c)
  PROVE  IInv'
<1>1. /\ pc[c] = "consume"
      /\ UNCHANGED <<attempts, otp, count, late, known, mails, spent, guesses, at, seen, held, code>>
      /\ status' \in [Challenges -> Statuses]
  BY DEF Consume, turnkey, IInv, TypeOK, Statuses
<1>2. PICK what \in {"credentials", "unauthorized"} : Return(c, what)
  BY DEF Consume
<1>3. /\ pc' \in [Calls -> Pcs] /\ pc'[c] = "end"
      /\ reply' \in [Calls -> Replies] /\ reply'[c] = what
      /\ \A d \in Calls \ {c} : pc'[d] = pc[d] /\ reply'[d] = reply[d]
  BY <1>2, CallMoves, ReplyMoves DEF IInv, Return, Pcs, Replies
<1>4. TypeOK'
  BY <1>1, <1>3 DEF IInv, TypeOK
<1>5. PlacesFit!(c)' /\ Won(c)
  BY <1>1, <1>3 DEF Targeted, Won
<1> QED BY <1>1, <1>3, <1>4, <1>5, MoveKeeps DEF Guessing

LEMMA DieKeeps ==
  ASSUME IInv, NEW c \in Calls, Die(c)
  PROVE  IInv'
<1>1. /\ pc[c] \notin {"begin", "end"} /\ Return(c, "lost")
      /\ UNCHANGED <<status, attempts, otp, count, late, known, turnkey, at, seen, held, code>>
  BY DEF Die, rows
<1>2. CASE pc[c] \notin Guessing
  BY <1>1, <1>2, ReturnKeeps DEF IInv, TypeOK, Replies
<1>3. CASE pc[c] \in Guessing
  <2>1. /\ pc' \in [Calls -> Pcs] /\ pc'[c] = "end"
        /\ reply' \in [Calls -> Replies] /\ reply'[c] = "lost"
        /\ \A d \in Calls \ {c} : pc'[d] = pc[d] /\ reply'[d] = reply[d]
        /\ UNCHANGED <<mails, spent, guesses>>
    BY <1>1, CallMoves, ReplyMoves DEF IInv, Return, Pcs, Replies, turnkey
  <2>2. TypeOK'
    BY <1>1, <2>1 DEF IInv, TypeOK
  <2>3. Budget'
    <3>1. CASE c \in Verifies
      BY <1>1, <1>3, <2>1, <3>1, GuessUsesAttempt DEF Guessing
    <3>2. CASE c \notin Verifies
      <4> SUFFICES ASSUME NEW h \in Challenges PROVE Budget!(h)'
        BY DEF Budget
      <4>1. InFlight(h)' = InFlight(h)
        BY <1>1, <2>1, <3>2 DEF InFlight, Challenge, Calls
      <4> QED BY <1>1, <2>1, <4>1 DEF IInv, Budget
    <3> QED BY <3>1, <3>2
  <2>4. OtpsFit'
    BY <1>1, <2>1, OtpsStay DEF IInv
  <2>5. PlacesFit'
    <3>1. PlacesFit!(c)'
      BY <2>1 DEF Targeted
    <3>2. \A d \in Calls \ {c} : PlacesFit!(d)'
      BY <1>1, <2>1, OthersFit DEF IInv
    <3> QED BY <3>1, <3>2 DEF PlacesFit
  <2>6. WinnersFit'
    <3>1. \A d \in Verifies : Won(d)' => Won(d)
      BY <2>1 DEF Won, Calls
    <3> QED BY <1>1, <2>1, <3>1, WinnersStay DEF IInv
  <2> QED BY <2>2, <2>3, <2>4, <2>5, <2>6 DEF IInv
<1> QED BY <1>2, <1>3

-----------------------------------------------------------------------------
(* Theorems *)

\* Every step of the three routes keeps the invariant.
THEOREM Inductive == IInv /\ [Next]_vars => IInv'
<1> SUFFICES ASSUME IInv, [Next]_vars PROVE IInv'
  OBVIOUS
<1>1. CASE Next
  <2>1. Inits \subseteq Calls /\ Starts \subseteq Calls /\ Verifies \subseteq Calls
    BY DEF Calls
  <2> QED BY <1>1, <2>1, LapseKeeps, InitCountKeeps, InitTellKeeps, InitInsertKeeps, MintKeeps,
             RecordStartKeeps, StartReadKeeps, CountAttemptKeeps, ExpireKeeps, RereadKeeps,
             AuthKeeps, ConsumeKeeps, VerifyReadKeeps, DieKeeps DEF Next
<1>2. CASE UNCHANGED vars
  <2>1. TypeOK'
    BY <1>2 DEF vars, IInv, TypeOK
  <2>2. Budget' /\ OtpsFit' /\ PlacesFit' /\ WinnersFit'
    BY <1>2 DEF vars, IInv, Budget, InFlight, OtpsFit, PlacesFit, WinnersFit, Won, Challenge, Wallet
  <2> QED BY <2>1, <2>2 DEF IInv
<1> QED BY <1>1, <1>2

\* In every reachable state of the recovery routes the invariant holds.
THEOREM Invariance == Spec => []IInv
BY InitIsSafe, Inductive, PTL DEF Spec

\* The rows, Turnkey's books and the calls keep their types.
THEOREM TypeCorrect == Spec => []TypeOK
<1>1. IInv => TypeOK
  BY DEF IInv
<1> QED BY <1>1, Invariance, PTL

\* incrementRecoveryAttemptIfUnderCap: a guess is counted before it is made,
\* and no more are made than the cap allows.
THEOREM EveryGuessCounted == Spec => []GuessesCounted
<1>1. IInv => GuessesCounted
  <2> SUFFICES ASSUME IInv, NEW ch \in Challenges
      PROVE  guesses[ch] <= attempts[ch] /\ attempts[ch] <= MaxAttempts
    BY DEF GuessesCounted
  <2>1. IsFiniteSet(InFlight(ch)) /\ guesses[ch] + Cardinality(InFlight(ch)) <= attempts[ch]
    BY DEF IInv, Budget
  <2>2. Cardinality(InFlight(ch)) \in Nat
    BY <2>1, FS_CardinalityType
  <2>3. guesses[ch] \in Nat /\ attempts[ch] \in 0..MaxAttempts
    BY DEF IInv, TypeOK
  <2> QED BY <2>1, <2>2, <2>3, LimitsAssumption
<1> QED BY <1>1, Invariance, PTL

\* otpAuth: credentials go to the call whose code was mailed for its challenge
\* and wallet, and to no other.
THEOREM CredentialsRight == Spec => []CredentialsForTheMailed
<1>1. IInv => CredentialsForTheMailed
  BY DEF IInv, WinnersFit, Won, CredentialsForTheMailed
<1> QED BY <1>1, Invariance, PTL

\* The statuses are written by id, whatever the row says by then: a challenge
\* that is over is marked again, but gives no attempt and is never pending.
THEOREM OverStaysOver == Spec => OverForGood
<1> DEFINE Over(ch) == status[ch] \in {"consumed", "expired", "failed"}
           Stays == \A ch \in Challenges : Over(ch) =>
                      status'[ch] \notin {"absent", "pending"} /\ attempts'[ch] = attempts[ch]
<1>1. IInv /\ [Next]_vars => Stays
  <2> SUFFICES ASSUME IInv, [Next]_vars, NEW ch \in Challenges, Over(ch)
      PROVE  status'[ch] \notin {"absent", "pending"} /\ attempts'[ch] = attempts[ch]
    OBVIOUS
  <2>1. status \in [Challenges -> Statuses] /\ attempts \in [Challenges -> 0..MaxAttempts]
    BY DEF IInv, TypeOK
  <2>2. CASE UNCHANGED <<status, attempts>>
    BY <2>2
  <2>3. ASSUME NEW c \in Calls, NEW new \in {"expired", "failed", "consumed"},
               status' = [status EXCEPT ![Challenge(c)] = new], UNCHANGED attempts
        PROVE  status'[ch] \notin {"absent", "pending"} /\ attempts'[ch] = attempts[ch]
    BY <2>1, <2>3
  <2>4. ASSUME NEW c \in Calls, NEW h \in Challenges, InitInsert(c, h)
        PROVE  status'[ch] \notin {"absent", "pending"} /\ attempts'[ch] = attempts[ch]
    BY <2>1, <2>4 DEF InitInsert
  <2>5. ASSUME NEW c \in Calls, CountAttempt(c)
        PROVE  status'[ch] \notin {"absent", "pending"} /\ attempts'[ch] = attempts[ch]
    BY <2>1, <2>5 DEF CountAttempt, Countable
  <2>6. CASE Next
    <3>1. \/ UNCHANGED <<status, attempts>>
          \/ \E c \in Calls : \/ Expire(c) \/ MarkFailed(c) \/ Consume(c) \/ CountAttempt(c)
                              \/ \E h \in Challenges : InitInsert(c, h)
      BY <2>6 DEF Next, Lapse, InitCount, InitTell, Mint, RecordStart, StartRead, VerifyRead,
                  Reread, Auth, Die, rows, Calls
    <3> QED BY <2>2, <2>3, <2>4, <2>5, <3>1 DEF Expire, MarkFailed, Consume
  <2> QED BY <2>2, <2>6 DEF vars
<1> QED BY <1>1, Invariance, PTL DEF Spec, OverForGood

-----------------------------------------------------------------------------
(* The recovery page *)

Steps == {"email", "otp", "pick", "password", "done"}
Perhaps(S) == S \union {None}

PageType == [step: Steps, challenge: Perhaps(Challenges), picked: Perhaps(PageWallets),
             cands: SUBSET PageWallets, verified: Perhaps(Verifications),
             loading: BOOLEAN, resending: BOOLEAN]
OpType == [kind: {"restore", "init", "start", "resend", "verify", "finish"}, mount: Nat,
           challenge: Perhaps(Challenges), wallet: Perhaps(PageWallets), cands: SUBSET PageWallets,
           at: {"load", "asks", "ok", "failed", "spent", "clearing", "saving",
                "registers", "confirms", "seals", "sealed"}]
EntryType == [value: Perhaps(Checkpoints), of: Perhaps(OpType)]
HubType == [Challenges -> {"unborn", "pending", "spent"}]

\* What is named of a challenge, the hub has given out.
Born(c, h) == c # None => h[c] # "unborn"
ValueFits(v, h) == v # None => Born(v.challenge, h)
FitEntries(h) == {e \in EntryType : ValueFits(e.value, h)}

\* A callback is at a place of its kind, and has what the place needs.
CallbackFits(o, h) ==
    /\ o.kind = "restore" => o.at = "load"
    /\ o.at = "load" => o.kind = "restore"
    /\ o.at \in {"registers", "confirms", "seals", "sealed"} => o.kind = "finish"
    /\ o.kind = "finish" => o.at \in {"registers", "confirms", "seals", "sealed"}
    /\ o.at = "saving" => o.kind = "verify"
    /\ o.at \in {"spent", "clearing"} => o.kind \in {"start", "resend", "verify"}
    /\ o.kind \in {"start", "resend", "verify"} => o.challenge \in Challenges /\ o.wallet \in PageWallets
    /\ o.kind = "init" /\ o.at = "ok" => o.challenge \in Challenges
    /\ o.kind # "finish" => Born(o.challenge, h)
    /\ o.kind = "verify" /\ o.at \in {"ok", "saving"} => h[o.challenge] = "spent"

PageTypes ==
    /\ mount \in Nat /\ mounts \in Nat /\ pin \in Perhaps(PageWallets)
    /\ page \in PageType /\ Born(page.challenge, hub)
    /\ ops \subseteq OpType /\ \A o \in ops : CallbackFits(o, hub)
    /\ queue \in Seq(FitEntries(hub))
    /\ stored \in Perhaps(Checkpoints) /\ ValueFits(stored, hub)
    /\ hub \in HubType
    /\ saved \subseteq {c \in Challenges : hub[c] = "spent"}

\* A checkpoint that carries the credentials of c to the password step.
Carries(v, c) ==
    /\ v # None
    /\ v.step = "password" /\ v.challenge = c /\ v.verified # None /\ v.verified.challenge = c
Carriers(c) == {e \in EntryType : Carries(e.value, c)}

\* They are stored, and no write that is waiting will replace them.
Safe(c) == Carries(stored, c) /\ queue \in Seq(Carriers(c))

\* A code that is verified with nothing else under way.
Alone(o) == o.kind = "verify" /\ o.challenge \notin dropped \union overlapped

AloneFits(o) ==
    /\ ops = {o} /\ o.mount = mount /\ mount # 0
    /\ page.step = "otp" /\ page.loading /\ page.challenge = o.challenge
    /\ o.at = "saving" =>
         \/ Safe(o.challenge)
         \/ \E i \in 1..Len(queue) :
               /\ queue[i].of = o
               /\ \A j \in i..Len(queue) : queue[j] \in Carriers(o.challenge)

\* Credentials that were written, and that nobody has given up.
Live == saved \ (dropped \union overlapped)

Showing(c) ==
    /\ page.step = "password" /\ page.challenge = c
    /\ page.verified # None /\ page.verified.challenge = c
Finishing(o, c) == o.kind = "finish" /\ o.challenge = c

LiveFits(c) ==
    /\ Safe(c)
    /\ mount = 0 => ops = {}
    /\ \A o \in ops : o.mount = mount /\ (o.kind = "restore" \/ Finishing(o, c))
    /\ mount # 0 => \/ Showing(c)
                    \/ page = Page!Blank /\ ops # {} /\ \A o \in ops : o.kind = "restore"

PageInv ==
    /\ PageTypes
    /\ \A o \in ops : Alone(o) => AloneFits(o)
    /\ \A c \in Live : LiveFits(c)

-----------------------------------------------------------------------------
(* What is of its type *)

HubGrows == /\ hub' \in HubType
            /\ \A c \in Challenges : /\ hub[c] # "unborn" => hub'[c] # "unborn"
                                     /\ hub[c] = "spent" => hub'[c] = "spent"

LEMMA ElementsSeq ==
  ASSUME NEW S, NEW T, NEW s \in Seq(S), \A i \in 1..Len(s) : s[i] \in T
  PROVE  s \in Seq(T)
<1>1. Len(s) \in Nat /\ s = [i \in 1..Len(s) |-> s[i]]
  OBVIOUS
<1>2. [i \in 1..Len(s) |-> s[i]] \in Seq(T)
  BY <1>1
<1> QED BY <1>1, <1>2

LEMMA FitsGrow ==
  ASSUME HubGrows
  PROVE  /\ \A c \in Perhaps(Challenges) : Born(c, hub) => Born(c, hub')
         /\ \A v \in Perhaps(Checkpoints) : ValueFits(v, hub) => ValueFits(v, hub')
         /\ \A o \in OpType : CallbackFits(o, hub) => CallbackFits(o, hub')
         /\ Seq(FitEntries(hub)) \subseteq Seq(FitEntries(hub'))
<1>1. \A c \in Perhaps(Challenges) : Born(c, hub) => Born(c, hub')
  BY DEF Born, HubGrows, Perhaps
<1>2. \A v \in Perhaps(Checkpoints) : ValueFits(v, hub) => ValueFits(v, hub')
  BY <1>1 DEF ValueFits, Perhaps, Checkpoints
<1>3. ASSUME NEW o \in OpType, CallbackFits(o, hub) PROVE CallbackFits(o, hub')
  <2>1. o.kind # "finish" => Born(o.challenge, hub')
    BY <1>1, <1>3 DEF CallbackFits, OpType
  <2>2. o.kind = "verify" /\ o.at \in {"ok", "saving"} => hub'[o.challenge] = "spent"
    BY <1>3 DEF CallbackFits, HubGrows
  <2> QED BY <1>3, <2>1, <2>2 DEF CallbackFits
<1>4. FitEntries(hub) \subseteq FitEntries(hub')
  BY <1>2 DEF FitEntries, EntryType
<1>5. \A s \in Seq(FitEntries(hub)) : s \in Seq(FitEntries(hub'))
  <2>1. \A s \in Seq(FitEntries(hub)) : \A i \in 1..Len(s) : s[i] \in FitEntries(hub')
    BY <1>4
  <2> QED BY <2>1, ElementsSeq
<1> QED BY <1>1, <1>2, <1>3, <1>5

\* Of a page that becomes p, the checkpoint fits.
LEMMA SetPageFits ==
  ASSUME PageTypes, NEW o, NEW p \in PageType, Born(p.challenge, hub),
         NEW first \in Seq(FitEntries(hub)), Page!SetPage(o, p, first)
  PROVE  /\ page' \in PageType /\ Born(page'.challenge, hub)
         /\ queue' \in Seq(FitEntries(hub))
<1> DEFINE v == [Page!Checkpoint(p) EXCEPT !.verified = IF p.step = "password" THEN @ ELSE None]
           e == Page!Entry(v, None)
<1>1. v \in Checkpoints /\ v.challenge = p.challenge
  BY DEF Page!Checkpoint, Checkpoints, PageType, PageTypes, Perhaps, Steps
<1>2. e \in FitEntries(hub)
  BY <1>1 DEF Page!Entry, FitEntries, ValueFits, EntryType, Perhaps
<1>3. queue \in Seq(FitEntries(hub)) /\ queue \o first \in Seq(FitEntries(hub))
  BY ConcatProperties DEF PageTypes
<1>4. CASE Page!Render(p, first)
  <2>1. page' = p /\ \/ queue' = queue \o first \o <<e>>
                     \/ queue' = queue \o first \o <<>>
    BY <1>4 DEF Page!Render
  <2>2. <<e>> \in Seq(FitEntries(hub)) /\ <<>> \in Seq(FitEntries(hub))
    BY <1>2
  <2> HIDE DEF e
  <2> QED BY <2>1, <2>2, <1>3, ConcatProperties
<1>5. CASE page' = page /\ queue' = queue \o first
  BY <1>3, <1>5 DEF PageTypes
<1> QED BY <1>4, <1>5 DEF Page!SetPage

\* Steps keep the types when what they add fits.
LEMMA TypesMove ==
  ASSUME PageTypes, HubGrows, UNCHANGED <<mount, mounts, pin, stored>>,
         \A n \in ops' \ ops : n \in OpType /\ CallbackFits(n, hub'),
         page' \in PageType, Born(page'.challenge, hub),
         queue' \in Seq(FitEntries(hub)),
         saved' \subseteq {c \in Challenges : hub'[c] = "spent"}
  PROVE  PageTypes'
<1>1. \A o \in ops' : o \in OpType /\ CallbackFits(o, hub')
  BY FitsGrow DEF PageTypes
<1>2. Born(page'.challenge, hub') /\ ValueFits(stored, hub')
  BY FitsGrow DEF PageTypes, PageType
<1>3. queue' \in Seq(FitEntries(hub'))
  BY FitsGrow
<1> QED BY <1>1, <1>2, <1>3 DEF PageTypes, HubGrows

LEMMA HubStays ==
  ASSUME PageTypes, UNCHANGED hub
  PROVE  HubGrows /\ (UNCHANGED saved => saved' \subseteq {c \in Challenges : hub'[c] = "spent"})
BY DEF PageTypes, HubGrows

\* A callback goes on or ends, and sets the page.
LEMMA CallbackTypes ==
  ASSUME PageTypes, NEW o \in ops, UNCHANGED <<mount, mounts, pin, stored, hub, saved>>,
         \A n \in ops' \ ops : n \in OpType /\ CallbackFits(n, hub),
         \/ UNCHANGED <<page, queue>>
         \/ \E p \in PageType, first \in Seq(FitEntries(hub)) :
               Born(p.challenge, hub) /\ Page!SetPage(o, p, first)
  PROVE  PageTypes'
<1>1. page' \in PageType /\ Born(page'.challenge, hub) /\ queue' \in Seq(FitEntries(hub))
  <2>1. CASE UNCHANGED <<page, queue>>
    BY <2>1 DEF PageTypes
  <2>2. CASE \E p \in PageType, first \in Seq(FitEntries(hub)) :
                Born(p.challenge, hub) /\ Page!SetPage(o, p, first)
    BY <2>2, SetPageFits
  <2> QED BY <2>1, <2>2
<1> QED BY <1>1, HubStays, TypesMove

-----------------------------------------------------------------------------
(* What stays safe *)

\* Of a page whose surface stays, nothing is written.
LEMMA SurfaceStays ==
  ASSUME PageTypes, NEW p, NEW first \in Seq(EntryType), Page!Render(p, first),
         Page!Surface(p) = Page!Surface(page)
  PROVE  page' = p /\ queue' = queue \o first
<1>1. queue \in Seq(EntryType)
  BY DEF PageTypes, FitEntries
<1>2. page' = p /\ queue' = queue \o first \o <<>>
  BY DEF Page!Render
<1>3. queue \o first \in Seq(EntryType)
  BY <1>1, ConcatProperties
<1> QED BY <1>2, <1>3, ConcatEmptySeq

\* Of a page that shows the credentials, they are written.
LEMMA ShownIsWritten ==
  ASSUME PageTypes, NEW c, Safe(c), NEW p \in PageType, p.step = "password", p.challenge = c,
         p.verified # None, p.verified.challenge = c, Page!Render(p, <<>>), UNCHANGED stored
  PROVE  Safe(c)' /\ Showing(c)'
<1> DEFINE v == [Page!Checkpoint(p) EXCEPT !.verified = IF p.step = "password" THEN @ ELSE None]
           e == Page!Entry(v, None)
<1>1. v \in Checkpoints /\ v.step = "password" /\ v.challenge = c /\ v.verified = p.verified
  BY DEF Page!Checkpoint, Checkpoints, PageType, PageTypes, Perhaps, Steps
<1>2. e \in Carriers(c)
  BY <1>1, NoneIsNothing DEF Page!Entry, Carriers, Carries, EntryType, Perhaps
<1>3. page' = p /\ (queue' = queue \o <<>> \o <<e>> \/ queue' = queue \o <<>> \o <<>>)
  BY DEF Page!Render
<1>4. <<>> \in Seq(Carriers(c)) /\ <<e>> \in Seq(Carriers(c)) /\ queue \in Seq(Carriers(c))
  BY <1>2 DEF Safe
<1>5. queue' \in Seq(Carriers(c))
  <2> HIDE DEF e
  <2> QED BY <1>3, <1>4, ConcatProperties
<1>6. Safe(c)'
  BY <1>5 DEF Safe, Carriers, Carries, EntryType
<1> QED BY <1>3, <1>6 DEF Showing

\* A callback that has others beside it, or sends no code, moves on.
LEMMA BusyMoves ==
  ASSUME PageInv, PageTypes', NEW o \in ops,
         o.kind \in {"init", "start", "resend"} \/ (o.kind = "verify" /\ ~Alone(o)),
         \A n \in ops' \ ops : n.kind = "verify" => o.kind = "verify" /\ n.challenge = o.challenge,
         \A c \in dropped \ dropped' : c \in Challenges /\ hub[c] = "unborn", UNCHANGED overlapped,
         saved' \subseteq saved \union (IF o.kind = "verify" THEN {o.challenge} ELSE {})
  PROVE  PageInv'
<1>1. Live = {}
  BY DEF PageInv, LiveFits, Finishing
<1>2. \A q \in ops : q.kind = "verify" => q.challenge \notin dropped \ dropped'
  BY NoneIsNothing DEF PageInv, PageTypes, CallbackFits, Born
<1>3. \A q \in ops : q.kind = "verify" => q.challenge \in dropped \union overlapped
  BY DEF PageInv, Alone, AloneFits
<1>4. \A c \in saved : c \notin dropped \ dropped'
  BY DEF PageInv, PageTypes
<1>5. Live' = {}
  BY <1>1, <1>2, <1>3, <1>4 DEF Live
<1>6. \A q \in ops' : ~Alone(q)'
  BY <1>2, <1>3 DEF Alone
<1> QED BY <1>5, <1>6 DEF PageInv

\* A callback to the page or the credentials is moved on, and none is alone.
LEMMA NobodyAlone ==
  ASSUME PageInv, NEW o \in ops, o.kind \in {"restore", "finish"},
         \A n \in ops' \ ops : n.kind # "verify",
         dropped \subseteq dropped', UNCHANGED overlapped
  PROVE  \A q \in ops' : ~Alone(q)'
<1>1. \A q \in ops : q.kind = "verify" => ~Alone(q)
  BY DEF PageInv, AloneFits
<1> QED BY <1>1 DEF Alone

-----------------------------------------------------------------------------
(* Clicks *)

LEMMA ClickTypes ==
  ASSUME PageTypes, NEW o \in OpType, CallbackFits(o, hub), NEW p \in PageType,
         Born(p.challenge, hub), Page!Click(o, p), UNCHANGED saved
  PROVE  PageTypes'
<1>1. UNCHANGED <<mount, mounts, pin, stored, hub>> /\ ops' = ops \union {o} /\ Page!Render(p, <<>>)
  BY DEF Page!Click, Page!outside
<1>2. <<>> \in Seq(FitEntries(hub))
  OBVIOUS
<1>3. page' \in PageType /\ Born(page'.challenge, hub) /\ queue' \in Seq(FitEntries(hub))
  <2>1. Page!SetPage([mount |-> mount], p, <<>>)
    BY <1>1 DEF Page!SetPage
  <2> QED BY <1>2, <2>1, SetPageFits
<1>4. HubGrows /\ saved' \subseteq {c \in Challenges : hub'[c] = "spent"}
  BY <1>1, HubStays
<1>5. \A n \in ops' \ ops : n \in OpType /\ CallbackFits(n, hub')
  BY <1>1
<1> QED BY <1>1, <1>3, <1>4, <1>5, TypesMove

\* Nobody is alone beside a page that takes a click, and who sees credentials
\* sees no other button than theirs.
LEMMA ClickFrees ==
  ASSUME PageInv, ~page.loading, NEW o, NEW p, Page!Click(o, p)
  PROVE  /\ \A q \in ops : ~Alone(q)
         /\ \A c \in Live : Showing(c) /\ page.step = "password"
<1>1. mount # 0 /\ \A q \in ops : q.kind = "restore" => q.mount # mount
  BY DEF Page!Click
<1> QED BY <1>1 DEF PageInv, AloneFits, LiveFits, Showing

LEMMA ClicksKeep ==
  ASSUME PageInv,
         \/ Page!InitOtp \/ Page!ResendOtp \/ Page!VerifyOtp
         \/ \E w \in PageWallets : Page!Pick(w)
  PROVE  PageInv'
<1>0. PageTypes /\ mount \in Nat
  BY DEF PageInv, PageTypes
<1>1. PICK o \in OpType, p \in PageType :
         /\ CallbackFits(o, hub) /\ Born(p.challenge, hub) /\ Page!Click(o, p) /\ UNCHANGED saved
         /\ o.kind = "verify" => Page!VerifyOtp /\ o.challenge = page.challenge /\ o.at = "asks"
                                 /\ o.mount = mount
                                 /\ p = [page EXCEPT !.loading = TRUE]
  <2>1. CASE Page!InitOtp
    <3> DEFINE o == Page!Op("init", None, None, "asks")
               p == [page EXCEPT !.loading = TRUE]
    <3>1. o \in OpType /\ CallbackFits(o, hub) /\ o.kind = "init"
      BY <1>0 DEF Page!Op, OpType, CallbackFits, Born, Perhaps, PageTypes, PageType
    <3>2. p \in PageType /\ p.challenge = page.challenge
      BY <1>0 DEF PageTypes, PageType
    <3>3. Page!Click(o, p) /\ UNCHANGED saved
      BY <2>1 DEF Page!InitOtp
    <3> HIDE DEF o, p
    <3> QED BY <1>0, <3>1, <3>2, <3>3 DEF PageTypes
  <2>2. CASE Page!ResendOtp
    <3> DEFINE o == Page!Op("resend", page.challenge, page.picked, "asks")
               p == [page EXCEPT !.resending = TRUE]
    <3>1. o \in OpType /\ CallbackFits(o, hub) /\ o.kind = "resend"
      BY <1>0, <2>2 DEF Page!ResendOtp, Page!Op, OpType, CallbackFits, Perhaps, PageTypes, PageType
    <3>2. p \in PageType /\ p.challenge = page.challenge
      BY <1>0 DEF PageTypes, PageType
    <3>3. Page!Click(o, p) /\ UNCHANGED saved
      BY <2>2 DEF Page!ResendOtp, Page!history
    <3> HIDE DEF o, p
    <3> QED BY <1>0, <3>1, <3>2, <3>3 DEF PageTypes
  <2>3. CASE Page!VerifyOtp
    <3> DEFINE o == Page!Op("verify", page.challenge, page.picked, "asks")
               p == [page EXCEPT !.loading = TRUE]
    <3>1. o \in OpType /\ CallbackFits(o, hub) /\ o.challenge = page.challenge /\ o.at = "asks"
          /\ o.mount = mount
      BY <1>0, <2>3 DEF Page!VerifyOtp, Page!Op, OpType, CallbackFits, Perhaps, PageTypes, PageType
    <3>2. p \in PageType /\ p.challenge = page.challenge
      BY <1>0 DEF PageTypes, PageType
    <3>3. Page!Click(o, p) /\ UNCHANGED saved
      BY <2>3 DEF Page!VerifyOtp
    <3>4. p = [page EXCEPT !.loading = TRUE]
      OBVIOUS
    <3> HIDE DEF o, p
    <3> QED BY <1>0, <2>3, <3>1, <3>2, <3>3, <3>4 DEF PageTypes
  <2>4. ASSUME NEW w \in PageWallets, Page!Pick(w)
        PROVE  \E o \in OpType, p \in PageType :
                  /\ CallbackFits(o, hub) /\ Born(p.challenge, hub) /\ Page!Click(o, p)
                  /\ UNCHANGED saved /\ o.kind # "verify"
    <3> DEFINE o == Page!Op("start", page.challenge, w, "asks")
               p == [page EXCEPT !.loading = TRUE]
    <3>1. o \in OpType /\ CallbackFits(o, hub) /\ o.kind = "start"
      BY <1>0, <2>4 DEF Page!Pick, Page!Op, OpType, CallbackFits, Perhaps, PageTypes, PageType
    <3>2. p \in PageType /\ p.challenge = page.challenge
      BY <1>0 DEF PageTypes, PageType
    <3>3. Page!Click(o, p) /\ UNCHANGED saved
      BY <2>4 DEF Page!Pick, Page!history
    <3> HIDE DEF o, p
    <3> QED BY <1>0, <3>1, <3>2, <3>3 DEF PageTypes
  <2> QED BY <2>1, <2>2, <2>3, <2>4
<1>2. PageTypes'
  BY <1>0, <1>1, ClickTypes
<1>3. ~page.loading /\ page.step # "password"
  BY DEF Page!InitOtp, Page!ResendOtp, Page!VerifyOtp, Page!Pick, Page!CanSend, Page!CanResend,
         Page!CanVerify, Page!CanPick
<1>4. (\A q \in ops : ~Alone(q)) /\ Live = {}
  BY <1>1, <1>3, ClickFrees
<1>5. Live' = {}
  BY <1>1, <1>4 DEF Live, Page!InitOtp, Page!ResendOtp, Page!VerifyOtp, Page!Pick, Page!history, PageInv,
         PageTypes
<1>6. ops' = ops \union {o} /\ mount # 0 /\ UNCHANGED <<mount, hub, stored>> /\ Page!Render(p, <<>>)
  BY <1>1 DEF Page!Click, Page!outside
<1>7. ASSUME NEW q \in ops', Alone(q)' PROVE AloneFits(q)'
  <2>1. q.challenge \notin dropped' \union overlapped' /\ q.kind = "verify"
    BY <1>7 DEF Alone
  <2>2. q = o
    <3>1. dropped \subseteq dropped' \/ Page!InitOtp
      BY DEF Page!InitOtp, Page!ResendOtp, Page!VerifyOtp, Page!Pick, Page!history
    <3>2. q \in ops => q.challenge \in Challenges
      BY <2>1 DEF PageInv, PageTypes, CallbackFits
    <3>3. q \in ops => q.challenge \in dropped'
                       \/ q.challenge \in overlapped
      BY <1>4, <2>1, <3>1, <3>2 DEF Alone, Page!InitOtp
    <3>4. overlapped \subseteq overlapped'
      BY DEF Page!InitOtp, Page!ResendOtp, Page!VerifyOtp, Page!Pick, Page!history
    <3> QED BY <1>6, <2>1, <3>3, <3>4
  <2>3. ops = {}
    BY <1>1, <2>1, <2>2 DEF Page!VerifyOtp
  <2>4. page' = p /\ page.step = "otp"
    BY <1>1, <1>6, <2>1, <2>2 DEF Page!Render, Page!VerifyOtp, Page!CanVerify
  <2>5. p.step = "otp" /\ p.loading = TRUE /\ p.challenge = page.challenge
    BY <1>0, <1>1, <2>1, <2>2, <2>4 DEF PageTypes, PageType
  <2> QED BY <1>1, <1>6, <2>1, <2>2, <2>3, <2>4, <2>5 DEF AloneFits
<1> QED BY <1>2, <1>5, <1>7 DEF PageInv

LEMMA CompleteKeeps ==
  ASSUME PageInv, Page!CompleteRecovery
  PROVE  PageInv'
<1> DEFINE o == Page!Op("finish", page.verified.challenge, page.verified.wallet,
                        IF page.verified.wallet \in PasskeyOnes THEN "registers" ELSE "seals")
           p == [page EXCEPT !.loading = TRUE]
<1>0. PageTypes
  BY DEF PageInv
<1>1. /\ ~page.loading /\ page.verified # None /\ Page!Click(o, p)
      /\ UNCHANGED <<saved, dropped, overlapped>>
  BY DEF Page!CompleteRecovery, Page!CanFinish, Page!history
<1>2. o \in OpType /\ CallbackFits(o, hub) /\ o.kind = "finish" /\ o.mount = mount
      /\ o.challenge = page.verified.challenge
  BY <1>0, <1>1 DEF Page!Op, OpType, CallbackFits, Perhaps, PageTypes, PageType, Verifications
<1>3. /\ p \in PageType /\ p.challenge = page.challenge /\ p.verified = page.verified
      /\ p.step = page.step /\ Page!Surface(p) = Page!Surface(page)
  BY <1>0 DEF PageTypes, PageType, Page!Surface
<1> HIDE DEF o, p
<1>4. PageTypes'
  BY <1>0, <1>1, <1>2, <1>3, ClickTypes DEF PageTypes
<1>5. (\A q \in ops : ~Alone(q)) /\ \A c \in Live : Showing(c)
  BY <1>1, ClickFrees
<1>6. ops' = ops \union {o} /\ mount # 0 /\ UNCHANGED <<mount, hub, stored>> /\ Page!Render(p, <<>>)
  BY <1>1 DEF Page!Click, Page!outside
<1>7. page' = p /\ queue' = queue
  <2>1. <<>> \in Seq(EntryType) /\ queue \in Seq(EntryType)
    BY <1>0 DEF PageTypes, FitEntries
  <2> QED BY <1>0, <1>3, <1>6, <2>1, SurfaceStays, ConcatEmptySeq
<1>8. \A q \in ops' : ~Alone(q)'
  BY <1>1, <1>2, <1>5, <1>6 DEF Alone
<1>9. ASSUME NEW c \in Live' PROVE LiveFits(c)'
  <2>1. c \in Live
    BY <1>1, <1>9 DEF Live
  <2>2. LiveFits(c) /\ Showing(c)
    BY <1>5, <2>1 DEF PageInv
  <2>3. Safe(c)'
    BY <1>6, <1>7, <2>2 DEF LiveFits, Safe, Carriers, Carries
  <2>4. Showing(c)'
    BY <1>3, <1>7, <2>2 DEF Showing
  <2>5. \A q \in ops' : q.mount = mount' /\ (q.kind = "restore" \/ Finishing(q, c))
    BY <1>2, <1>6, <2>2 DEF LiveFits, Finishing, Showing
  <2> QED BY <1>6, <2>3, <2>4, <2>5 DEF LiveFits
<1> QED BY <1>4, <1>8, <1>9 DEF PageInv

-----------------------------------------------------------------------------
(* Callbacks *)

\* The hub begins a recovery, and nothing else changes.
LEMMA HubInitKeeps ==
  ASSUME PageInv, NEW o \in ops, Page!HubInit(o)
  PROVE  PageInv'
<1>0. PageTypes /\ o \in OpType /\ CallbackFits(o, hub) /\ o.kind = "init"
  BY DEF PageInv, PageTypes, Page!HubInit
<1>1. UNCHANGED <<mount, mounts, pin, page, queue, stored, saved, overlapped>>
  BY DEF Page!HubInit
<1>2. /\ \A n \in ops' \ ops : n \in OpType /\ CallbackFits(n, hub') /\ n.kind = "init"
      /\ \A c \in dropped \ dropped' : c \in Challenges /\ hub[c] = "unborn"
      /\ HubGrows
  <2>1. CASE Page!Become(o, [o EXCEPT !.at = "failed"]) /\ UNCHANGED <<hub, dropped>>
    <3> DEFINE n == [o EXCEPT !.at = "failed"]
    <3>1. n \in OpType /\ n.kind = "init" /\ CallbackFits(n, hub')
      BY <1>0, <2>1 DEF OpType, CallbackFits
    <3>2. ops' = (ops \ {o}) \union {n} /\ HubGrows
      BY <1>0, <2>1, HubStays DEF Page!Become
    <3> HIDE DEF n
    <3> QED BY <2>1, <3>1, <3>2
  <2>2. ASSUME NEW c \in Challenges, NEW found \in SUBSET PageWallets, hub[c] = "unborn",
               hub' = [hub EXCEPT ![c] = "pending"],
               Page!Become(o, [o EXCEPT !.at = "ok", !.challenge = c, !.cands = found]),
               dropped' = dropped \ {c}
        PROVE  /\ \A n \in ops' \ ops : n \in OpType /\ CallbackFits(n, hub') /\ n.kind = "init"
               /\ \A d \in dropped \ dropped' : d \in Challenges /\ hub[d] = "unborn"
               /\ HubGrows
    <3> DEFINE n == [o EXCEPT !.at = "ok", !.challenge = c, !.cands = found]
    <3>1. HubGrows /\ hub'[c] = "pending"
      BY <1>0, <2>2 DEF HubGrows, HubType, PageTypes
    <3>2. n \in OpType /\ n.kind = "init" /\ CallbackFits(n, hub')
      BY <1>0, <3>1 DEF OpType, CallbackFits, Born, Perhaps
    <3>3. ops' = (ops \ {o}) \union {n}
      BY <2>2 DEF Page!Become
    <3> HIDE DEF n
    <3> QED BY <2>2, <3>1, <3>2, <3>3
  <2> QED BY <2>1, <2>2 DEF Page!HubInit
<1>3. saved' \subseteq {c \in Challenges : hub'[c] = "spent"}
  BY <1>0, <1>1, <1>2 DEF HubGrows, PageTypes
<1>4. PageTypes'
  BY <1>0, <1>1, <1>2, <1>3, TypesMove DEF PageTypes
<1> QED BY <1>0, <1>1, <1>2, <1>4, BusyMoves

\* An answer that leads to a list of wallets, or to a code for one of them.
LEMMA InitAnswerTypes ==
  ASSUME PageTypes, NEW o \in ops, Page!InitAnswer(o)
  PROVE  /\ PageTypes' /\ o.kind = "init"
         /\ \A n \in ops' \ ops : n.kind = "start"
         /\ UNCHANGED <<saved, dropped, overlapped>>
<1> DEFINE p == [page EXCEPT !.challenge = o.challenge, !.cands = o.cands, !.picked = None]
           only == IF o.mount = mount /\ pin # None THEN {pin} \intersect o.cands ELSE o.cands
           n == [o EXCEPT !.kind = "start", !.at = "asks", !.wallet = CHOOSE w \in only : TRUE]
<1>1. /\ o \in OpType /\ CallbackFits(o, hub) /\ o.kind = "init" /\ o.at \in {"ok", "failed"}
      /\ UNCHANGED <<mount, mounts, pin, stored, hub, saved, dropped, overlapped>>
  BY DEF Page!InitAnswer, PageTypes, Page!outside, Page!history
<1>2. /\ p \in PageType /\ p.challenge = o.challenge /\ Born(o.challenge, hub)
      /\ \A q \in PageType, s \in Steps :
            /\ [q EXCEPT !.loading = FALSE] \in PageType
            /\ [q EXCEPT !.loading = FALSE].challenge = q.challenge
            /\ [q EXCEPT !.step = s, !.loading = FALSE] \in PageType
            /\ [q EXCEPT !.step = s, !.loading = FALSE].challenge = q.challenge
            /\ [q EXCEPT !.challenge = None, !.step = s, !.loading = FALSE] \in PageType
            /\ [q EXCEPT !.challenge = None, !.step = s, !.loading = FALSE].challenge = None
  BY <1>1 DEF PageTypes, PageType, OpType, CallbackFits, Perhaps
<1>3. <<>> \in Seq(FitEntries(hub)) /\ <<Page!Entry(None, None)>> \in Seq(FitEntries(hub))
  BY DEF FitEntries, EntryType, ValueFits, Page!Entry, Perhaps
<1>4. page \in PageType /\ Born(page.challenge, hub) /\ Born(None, hub) /\ "email" \in Steps /\ "pick" \in Steps
  BY DEF PageTypes, Born, Steps
<1>5. CASE Page!Ends(o) /\ \E q \in PageType, first \in Seq(FitEntries(hub)) :
              Born(q.challenge, hub) /\ Page!SetPage(o, q, first)
  <2>1. ops' \subseteq ops
    BY <1>5 DEF Page!Ends
  <2> QED BY <1>1, <1>5, <2>1, CallbackTypes
<1>6. CASE only # {} /\ o.at = "ok" /\ Page!Become(o, n) /\ Page!SetPage(o, p, <<>>)
  <2>1. n \in OpType /\ CallbackFits(n, hub) /\ n.kind = "start"
    <3>1. only \subseteq PageWallets
      BY <1>1 DEF OpType
    <3>2. PICK w \in PageWallets : w = CHOOSE x \in only : TRUE
      BY <1>6, <3>1
    <3> HIDE DEF only
    <3> QED BY <1>1, <1>2, <1>6, <3>2 DEF OpType, CallbackFits, Perhaps
  <2>2. ops' = (ops \ {o}) \union {n}
    BY <1>6 DEF Page!Become
  <2> HIDE DEF n, p
  <2>3. \E q \in PageType, first \in Seq(FitEntries(hub)) :
              Born(q.challenge, hub) /\ Page!SetPage(o, q, first)
    BY <1>2, <1>3, <1>6
  <2> QED BY <1>1, <2>1, <2>2, <2>3, CallbackTypes
<1>7. CASE o.at = "failed"
  <2>1. Page!Ends(o) /\ Page!SetPage(o, [page EXCEPT !.loading = FALSE], <<>>)
    BY <1>7 DEF Page!InitAnswer
  <2> QED BY <1>2, <1>3, <1>4, <1>5, <2>1
<1>8. CASE o.at # "failed" /\ o.cands = {}
  <2>1. Page!Ends(o) /\ Page!SetPage(o, [p EXCEPT !.challenge = None, !.step = "email", !.loading = FALSE],
                                     <<Page!Entry(None, None)>>)
    BY <1>8 DEF Page!InitAnswer
  <2> HIDE DEF p
  <2> QED BY <1>2, <1>3, <1>4, <1>5, <2>1
<1>9. CASE o.at # "failed" /\ o.cands # {}
  <2>1. \/ /\ Page!Ends(o)
           /\ \/ Page!SetPage(o, [p EXCEPT !.step = "email", !.loading = FALSE], <<>>)
              \/ Page!SetPage(o, [p EXCEPT !.step = "pick", !.loading = FALSE], <<>>)
        \/ only # {} /\ Page!Become(o, n) /\ Page!SetPage(o, p, <<>>)
    BY <1>9, Zenon DEF Page!InitAnswer
  <2>2. o.at = "ok"
    BY <1>1, <1>9
  <2> HIDE DEF p, n, only
  <2>3. CASE only # {} /\ Page!Become(o, n) /\ Page!SetPage(o, p, <<>>)
    BY <1>6, <2>2, <2>3
  <2>4. CASE Page!Ends(o) /\ Page!SetPage(o, [p EXCEPT !.step = "email", !.loading = FALSE], <<>>)
    BY <1>2, <1>3, <1>4, <1>5, <2>4
  <2>5. CASE Page!Ends(o) /\ Page!SetPage(o, [p EXCEPT !.step = "pick", !.loading = FALSE], <<>>)
    BY <1>2, <1>3, <1>4, <1>5, <2>5
  <2> QED BY <2>1, <2>3, <2>4, <2>5
<1> QED BY <1>7, <1>8, <1>9

\* The spinner of a callback that has ended writes nothing.
LEMMA DoneFits ==
  ASSUME PageTypes, NEW o \in OpType
  PROVE  /\ Page!Done(o) \in PageType
         /\ Page!Surface(Page!Done(o)) = Page!Surface(page)
         /\ Page!Done(o).challenge = page.challenge
BY DEF PageTypes, PageType, Page!Done, Page!Surface

LEMMA BlankFits ==
  ASSUME NEW q \in PageType
  PROVE  LET p == [q EXCEPT !.challenge = None, !.cands = {}, !.picked = None,
                            !.verified = None, !.step = "email"]
         IN  p \in PageType /\ p.challenge = None
BY DEF PageType, Perhaps, Steps

LEMMA StartsKeep ==
  ASSUME PageInv, NEW o \in ops, Page!InitAnswer(o) \/ Page!HubStart(o) \/ Page!StartAnswer(o)
  PROVE  PageInv'
<1>0. PageTypes /\ o \in OpType /\ CallbackFits(o, hub)
  BY DEF PageInv, PageTypes
<1>1. CASE Page!InitAnswer(o)
  BY <1>0, <1>1, InitAnswerTypes, BusyMoves
<1>2. CASE Page!HubStart(o)
  <2>1. PICK answer \in {"ok", "failed", "spent"} : Page!Become(o, [o EXCEPT !.at = answer])
    BY <1>2 DEF Page!HubStart
  <2> DEFINE n == [o EXCEPT !.at = answer]
  <2>2. n \in OpType /\ CallbackFits(n, hub) /\ n.kind = o.kind /\ o.kind \in {"start", "resend"}
    BY <1>0, <1>2 DEF Page!HubStart, OpType, CallbackFits
  <2>3. /\ ops' = (ops \ {o}) \union {n}
        /\ UNCHANGED <<mount, mounts, pin, page, queue, stored, hub, saved, dropped, overlapped>>
    BY <1>2, <2>1 DEF Page!HubStart, Page!Become, Page!outside, Page!history
  <2> HIDE DEF n
  <2>4. PageTypes'
    BY <1>0, <2>2, <2>3, CallbackTypes
  <2> QED BY <2>2, <2>3, <2>4, BusyMoves
<1>3. CASE Page!StartAnswer(o)
  <2> DEFINE p == IF o.kind = "resend" \/ o.at = "failed" THEN Page!Done(o)
                  ELSE [Page!Done(o) EXCEPT !.challenge = o.challenge, !.picked = o.wallet, !.step = "otp"]
  <2>1. /\ o.kind \in {"start", "resend"} /\ ops' = ops \ {o} /\ Page!SetPage(o, p, <<>>)
        /\ UNCHANGED <<mount, mounts, pin, stored, hub, saved, dropped, overlapped>>
    BY <1>3 DEF Page!StartAnswer, Page!Ends, Page!outside, Page!history
  <2>2. p \in PageType /\ (p.challenge = o.challenge \/ p.challenge = page.challenge)
    <3>1. Page!Done(o) \in PageType /\ Page!Done(o).challenge = page.challenge
      BY <1>0, DoneFits
    <3>2. o.challenge \in Perhaps(Challenges) /\ o.wallet \in Perhaps(PageWallets)
      BY <1>0 DEF OpType
    <3> DEFINE q == [Page!Done(o) EXCEPT !.challenge = o.challenge, !.picked = o.wallet,
                                         !.step = "otp"]
    <3>3. q \in PageType /\ q.challenge = o.challenge
      <4>1. PICK d \in PageType : d = Page!Done(o)
        BY <3>1
      <4>2. [d EXCEPT !.challenge = o.challenge, !.picked = o.wallet, !.step = "otp"] \in PageType
            /\ [d EXCEPT !.challenge = o.challenge, !.picked = o.wallet, !.step = "otp"].challenge
               = o.challenge
        BY <3>2 DEF PageType, Perhaps, Steps
      <4> QED BY <4>1, <4>2
    <3>4. p = Page!Done(o) \/ p = q
      OBVIOUS
    <3> HIDE DEF p, q
    <3> QED BY <3>1, <3>3, <3>4
  <2>3. Born(p.challenge, hub) /\ <<>> \in Seq(FitEntries(hub))
    BY <1>0, <2>1, <2>2 DEF PageTypes, CallbackFits
  <2> HIDE DEF p
  <2>4. PageTypes'
    BY <1>0, <2>1, <2>2, <2>3, CallbackTypes
  <2> QED BY <2>1, <2>4, BusyMoves
<1> QED BY <1>1, <1>2, <1>3

LEMMA SpentTypes ==
  ASSUME PageTypes, NEW o \in ops, Page!Spent(o) \/ Page!Abandon(o)
  PROVE  /\ PageTypes' /\ o.kind \in {"start", "resend", "verify"}
         /\ ops' \subseteq (ops \ {o}) \union {[o EXCEPT !.at = "clearing"]}
         /\ [o EXCEPT !.at = "clearing"].kind = o.kind
         /\ [o EXCEPT !.at = "clearing"].challenge = o.challenge
         /\ UNCHANGED <<mount, saved, dropped, overlapped>>
         /\ Page!Spent(o) => page' = page
<1> DEFINE n == [o EXCEPT !.at = "clearing"]
<1>0. o \in OpType /\ CallbackFits(o, hub)
  BY DEF PageTypes
<1>1. o.kind \in {"start", "resend", "verify"} /\ UNCHANGED <<mount, mounts, pin, stored, hub, saved, dropped, overlapped>>
  BY <1>0 DEF Page!Spent, Page!Abandon, CallbackFits, Page!outside, Page!history
<1>2. n \in OpType /\ CallbackFits(n, hub) /\ n.kind = o.kind /\ n.challenge = o.challenge
  BY <1>0, <1>1 DEF OpType, CallbackFits
<1>3. CASE Page!Spent(o)
  <2>1. ops' = (ops \ {o}) \union {n} /\ Page!SetPage(o, page, <<Page!Entry(None, n)>>)
    BY <1>3 DEF Page!Spent, Page!Become
  <2>2. <<Page!Entry(None, n)>> \in Seq(FitEntries(hub))
    BY <1>2 DEF FitEntries, EntryType, ValueFits, Page!Entry, Perhaps
  <2>3. page \in PageType /\ Born(page.challenge, hub) /\ page' = page
    BY <2>1 DEF PageTypes, Page!SetPage, Page!Render
  <2> HIDE DEF n
  <2>4. PageTypes'
    BY <1>1, <1>2, <2>1, <2>2, <2>3, CallbackTypes
  <2> QED BY <1>1, <1>2, <2>1, <2>3, <2>4 DEF n
<1>4. CASE Page!Abandon(o) /\ ~Page!Spent(o)
  <2> DEFINE p == [Page!Done(o) EXCEPT !.challenge = None, !.cands = {}, !.picked = None,
                                       !.verified = None, !.step = "email"]
  <2>1. ops' = ops \ {o} /\ Page!SetPage(o, p, <<>>)
    BY <1>4 DEF Page!Abandon, Page!Ends
  <2>2. p \in PageType /\ Born(p.challenge, hub) /\ <<>> \in Seq(FitEntries(hub))
    <3>1. Page!Done(o) \in PageType
      BY <1>0, DoneFits
    <3>2. p \in PageType /\ p.challenge = None
      BY <3>1, BlankFits
    <3> QED BY <3>2 DEF Born
  <2> HIDE DEF p
  <2>3. PageTypes'
    BY <1>1, <2>1, <2>2, CallbackTypes
  <2> QED BY <1>1, <1>2, <1>4, <2>1, <2>3
<1> QED BY <1>3, <1>4

\* The code is right or wrong, or the challenge is spent.
LEMMA HubVerifyTypes ==
  ASSUME PageTypes, NEW o \in ops, Page!HubVerify(o)
  PROVE  /\ PageTypes' /\ o.kind = "verify"
         /\ UNCHANGED <<mount, page, queue, stored, saved, dropped, overlapped>>
         /\ \E n \in OpType : /\ ops' = (ops \ {o}) \union {n} /\ n.kind = "verify"
                              /\ n.challenge = o.challenge /\ n.mount = o.mount
                              /\ n.at \in {"ok", "failed", "spent"}
<1>0. o \in OpType /\ CallbackFits(o, hub) /\ o.kind = "verify" /\ o.challenge \in Challenges
  BY DEF PageTypes, Page!HubVerify, CallbackFits
<1>1. UNCHANGED <<mount, mounts, pin, page, queue, stored, saved, dropped, overlapped>>
  BY DEF Page!HubVerify, Page!history
<1>2. PICK answer \in {"ok", "failed", "spent"} :
         /\ Page!Become(o, [o EXCEPT !.at = answer])
         /\ \/ UNCHANGED hub /\ answer # "ok"
            \/ hub' = [hub EXCEPT ![o.challenge] = "spent"]
  BY DEF Page!HubVerify
<1> DEFINE n == [o EXCEPT !.at = answer]
<1>3. HubGrows /\ (answer = "ok" => hub'[o.challenge] = "spent")
  BY <1>0, <1>2 DEF HubGrows, HubType, PageTypes
<1>4. /\ n \in OpType /\ n.kind = "verify" /\ n.challenge = o.challenge /\ n.mount = o.mount
      /\ n.at = answer /\ n.wallet = o.wallet
  BY <1>0 DEF OpType
<1>5. CallbackFits(n, hub')
  <2>1. Born(o.challenge, hub')
    BY <1>0, <1>3 DEF CallbackFits, Born, HubGrows
  <2> HIDE DEF n
  <2> QED BY <1>0, <1>3, <1>4, <2>1 DEF CallbackFits
<1>6. ops' = (ops \ {o}) \union {n}
  BY <1>2 DEF Page!Become
<1> HIDE DEF n
<1>7. PageTypes'
  <2>1. saved' \subseteq {c \in Challenges : hub'[c] = "spent"}
    BY <1>1, <1>3 DEF HubGrows, PageTypes
  <2>2. page' \in PageType /\ Born(page'.challenge, hub) /\ queue' \in Seq(FitEntries(hub))
    BY <1>1 DEF PageTypes
  <2> QED BY <1>1, <1>3, <1>4, <1>5, <1>6, <2>1, <2>2, TypesMove
<1> QED BY <1>0, <1>1, <1>4, <1>6, <1>7

\* What a verified code has the page write carries its credentials.
VerifiedEntry(o, n) ==
    Page!Entry([step |-> "password", challenge |-> o.challenge, picked |-> o.wallet, cands |-> o.cands,
                verified |-> Page!Verified(o), pin |-> pin, old |-> FALSE], n)

LEMMA VerifiedCarries ==
  ASSUME PageTypes, NEW o \in OpType, NEW n \in OpType, CallbackFits(o, hub), o.kind = "verify"
  PROVE  /\ VerifiedEntry(o, n) \in FitEntries(hub) \intersect Carriers(o.challenge)
         /\ VerifiedEntry(o, n).of = n
         /\ Page!Verified(o) \in Verifications /\ Page!Verified(o).challenge = o.challenge
<1> DEFINE v == [step |-> "password", challenge |-> o.challenge, picked |-> o.wallet, cands |-> o.cands,
                 verified |-> Page!Verified(o), pin |-> pin, old |-> FALSE]
<1>1. o.challenge \in Challenges /\ o.wallet \in PageWallets /\ Born(o.challenge, hub)
  BY DEF CallbackFits
<1>2. Page!Verified(o) \in Verifications /\ Page!Verified(o).challenge = o.challenge
  BY <1>1 DEF Page!Verified, Verifications
<1>3. v \in Checkpoints /\ v.step = "password" /\ v.challenge = o.challenge
      /\ v.verified = Page!Verified(o)
  BY <1>1, <1>2 DEF Checkpoints, OpType, PageTypes, Perhaps
<1> HIDE DEF v
<1>4. v # None /\ Page!Verified(o) # None
  BY <1>2, <1>3, NoneIsNothing
<1>5. VerifiedEntry(o, n) = [value |-> v, of |-> n]
  BY DEF VerifiedEntry, Page!Entry, v
<1> QED BY <1>1, <1>2, <1>3, <1>4, <1>5 DEF FitEntries, Carriers, Carries, EntryType, ValueFits, Perhaps

LEMMA VerifyAnswerTypes ==
  ASSUME PageTypes, NEW o \in ops, Page!VerifyAnswer(o)
  PROVE  /\ PageTypes' /\ o.kind = "verify"
         /\ UNCHANGED <<mount, stored, hub, saved, dropped, overlapped>>
         /\ \/ ops' = ops \ {o}
            \/ \E n \in OpType :
                  /\ ops' = (ops \ {o}) \union {n}
                  /\ n.kind = "verify" /\ n.challenge = o.challenge /\ n.mount = o.mount
                  /\ page' = page /\ queue' = queue \o <<VerifiedEntry(o, n)>>
<1>0. o \in OpType /\ CallbackFits(o, hub) /\ o.kind = "verify"
  BY DEF PageTypes, Page!VerifyAnswer
<1>1. UNCHANGED <<mount, mounts, pin, stored, hub, saved, dropped, overlapped>>
  BY DEF Page!VerifyAnswer, Page!outside, Page!history
<1>2. page \in PageType /\ Born(page.challenge, hub) /\ <<>> \in Seq(FitEntries(hub))
  BY DEF PageTypes
<1>3. CASE o.at = "failed"
  <2>1. ops' = ops \ {o} /\ Page!SetPage(o, Page!Done(o), <<>>)
    BY <1>3 DEF Page!VerifyAnswer, Page!Ends
  <2>2. PageTypes'
    BY <1>0, <1>1, <1>2, <2>1, DoneFits, CallbackTypes
  <2> QED BY <1>0, <1>1, <2>1, <2>2
<1>4. CASE o.at = "ok"
  <2> DEFINE n == [o EXCEPT !.at = "saving"]
  <2>1. /\ n \in OpType /\ CallbackFits(n, hub) /\ n.kind = "verify" /\ n.challenge = o.challenge
        /\ n.mount = o.mount
    BY <1>0, <1>4 DEF OpType, CallbackFits
  <2>2. ops' = (ops \ {o}) \union {n} /\ Page!SetPage(o, page, <<VerifiedEntry(o, n)>>)
    BY <1>4 DEF Page!VerifyAnswer, Page!Become, VerifiedEntry
  <2> HIDE DEF n
  <2>3. <<VerifiedEntry(o, n)>> \in Seq(FitEntries(hub))
    BY <1>0, <2>1, VerifiedCarries
  <2>4. PageTypes'
    BY <1>0, <1>1, <1>2, <2>1, <2>2, <2>3, CallbackTypes
  <2>5. page' = page /\ queue' = queue \o <<VerifiedEntry(o, n)>>
    <3>1. <<VerifiedEntry(o, n)>> \in Seq(EntryType)
      BY <2>3 DEF FitEntries
    <3> QED BY <2>2, <3>1, SurfaceStays DEF Page!SetPage
  <2> QED BY <1>0, <1>1, <2>1, <2>2, <2>4, <2>5
<1> QED BY <1>3, <1>4 DEF Page!VerifyAnswer

LEMMA VerifySavedTypes ==
  ASSUME PageTypes, NEW o \in ops, Page!VerifySaved(o)
  PROVE  /\ PageTypes' /\ o.kind = "verify" /\ o.at = "saving" /\ ops' = ops \ {o}
         /\ ~Page!Waits(o) /\ saved' = saved \union {o.challenge}
         /\ UNCHANGED <<mount, stored, hub, dropped, overlapped>>
         /\ \E p \in PageType :
               /\ p.challenge = page.challenge /\ p.step = "password"
               /\ p.verified = Page!Verified(o)
               /\ Page!SetPage(o, p, <<>>)
<1> DEFINE p == [Page!Done(o) EXCEPT !.verified = Page!Verified(o), !.step = "password"]
<1>0. o \in OpType /\ CallbackFits(o, hub) /\ o.kind = "verify" /\ hub[o.challenge] = "spent"
      /\ o.challenge \in Challenges
  BY DEF PageTypes, Page!VerifySaved, CallbackFits
<1>1. /\ o.at = "saving" /\ ~Page!Waits(o) /\ ops' = ops \ {o} /\ Page!SetPage(o, p, <<>>)
      /\ saved' = saved \union {o.challenge}
      /\ UNCHANGED <<mount, mounts, pin, stored, hub, dropped, overlapped>>
  BY DEF Page!VerifySaved, Page!Ends, Page!outside
<1>2. /\ p \in PageType /\ p.challenge = page.challenge /\ p.step = "password"
      /\ p.verified = Page!Verified(o)
  <2>1. PICK d \in PageType : d = Page!Done(o) /\ d.challenge = page.challenge
    BY <1>0, DoneFits
  <2>2. PICK v \in Verifications : v = Page!Verified(o)
    BY <1>0, VerifiedCarries
  <2>3. LET q == [d EXCEPT !.verified = v, !.step = "password"]
        IN  q \in PageType /\ q.challenge = d.challenge /\ q.step = "password" /\ q.verified = v
    BY DEF PageType, Perhaps, Steps
  <2> QED BY <2>1, <2>2, <2>3
<1> HIDE DEF p
<1>3. Born(p.challenge, hub) /\ <<>> \in Seq(FitEntries(hub))
  BY <1>2 DEF PageTypes
<1>4. page' \in PageType /\ Born(page'.challenge, hub) /\ queue' \in Seq(FitEntries(hub))
  BY <1>1, <1>2, <1>3, SetPageFits
<1>5. HubGrows /\ saved' \subseteq {c \in Challenges : hub'[c] = "spent"}
  BY <1>0, <1>1, HubStays DEF PageTypes
<1>6. PageTypes'
  BY <1>1, <1>4, <1>5, TypesMove
<1> QED BY <1>0, <1>1, <1>2, <1>6

\* A code that is verified with nothing else under way: until its credentials
\* are written the page takes no click, and then they are the only ones.
LEMMA CodesKeep ==
  ASSUME PageInv, NEW o \in ops,
         Page!Spent(o) \/ Page!Abandon(o) \/ Page!HubVerify(o) \/ Page!VerifyAnswer(o)
  PROVE  PageInv'
<1>0. PageTypes /\ o \in OpType
  BY DEF PageInv, PageTypes
<1>1. /\ PageTypes' /\ o.kind \in {"start", "resend", "verify"}
      /\ UNCHANGED <<mount, saved, dropped, overlapped>>
      /\ \A n \in ops' \ ops : n.kind = o.kind /\ n.challenge = o.challenge
  <2>1. CASE Page!Spent(o) \/ Page!Abandon(o)
    BY <1>0, <2>1, SpentTypes
  <2>2. CASE Page!HubVerify(o)
    BY <1>0, <2>2, HubVerifyTypes
  <2>3. CASE Page!VerifyAnswer(o)
    BY <1>0, <2>3, VerifyAnswerTypes
  <2> QED BY <2>1, <2>2, <2>3
<1>2. CASE ~(o.kind = "verify" /\ Alone(o))
  BY <1>1, <1>2, BusyMoves
<1>3. CASE o.kind = "verify" /\ Alone(o)
  <2>1. AloneFits(o) /\ ops = {o}
    BY <1>3 DEF PageInv, AloneFits
  <2>2. Live' = {}
    BY <1>1, <1>3 DEF PageInv, LiveFits, Finishing, Live
  <2>3. ASSUME NEW n \in ops', Alone(n)' PROVE AloneFits(n)'
    <3>1. CASE Page!Spent(o) \/ Page!Abandon(o)
      <4> DEFINE m == [o EXCEPT !.at = "clearing"]
      <4>1. ops' \subseteq {m} /\ m.mount = o.mount /\ m.challenge = o.challenge /\ m.at = "clearing"
        BY <1>0, <2>1, <3>1, SpentTypes DEF OpType
      <4>2. Page!Abandon(o) => ops' = {}
        BY <2>1 DEF Page!Abandon, Page!Ends
      <4>3. page' = page
        BY <1>0, <2>3, <3>1, <4>2, SpentTypes
      <4> HIDE DEF m
      <4>4. n = m /\ ops' = {m}
        BY <2>3, <4>1
      <4> QED BY <1>1, <2>1, <4>1, <4>3, <4>4 DEF AloneFits
    <3>2. CASE Page!HubVerify(o)
      <4>1. /\ ops' = {n} /\ n.challenge = o.challenge /\ n.mount = o.mount /\ n.at # "saving"
            /\ page' = page
        BY <1>0, <2>1, <2>3, <3>2, HubVerifyTypes
      <4> QED BY <1>1, <2>1, <4>1 DEF AloneFits
    <3>3. CASE Page!VerifyAnswer(o)
      <4>1. /\ ops' = {n} /\ n \in OpType /\ n.challenge = o.challenge /\ n.mount = o.mount
            /\ page' = page /\ queue' = queue \o <<VerifiedEntry(o, n)>>
        BY <1>0, <2>1, <2>3, <3>3, VerifyAnswerTypes
      <4>2. CallbackFits(o, hub)
        BY <1>0 DEF PageTypes
      <4>3. VerifiedEntry(o, n) \in Carriers(n.challenge) /\ VerifiedEntry(o, n).of = n
        BY <1>0, <1>3, <4>1, <4>2, VerifiedCarries
      <4>4. queue \in Seq(EntryType) /\ VerifiedEntry(o, n) \in EntryType
        BY <1>0, <4>3 DEF PageTypes, FitEntries, Carriers
      <4>5. PICK e \in EntryType : e = VerifiedEntry(o, n)
        BY <4>4
      <4>6. Len(queue') = Len(queue) + 1 /\ Len(queue) \in Nat /\ queue'[Len(queue) + 1] = e
        BY <4>1, <4>4, <4>5, AppendProperties, ConcatProperties
      <4>7. \E i \in 1..Len(queue') : /\ queue'[i].of = n
                                      /\ \A j \in i..Len(queue') : queue'[j] \in Carriers(n.challenge)
        BY <4>3, <4>5, <4>6
      <4> QED BY <1>1, <2>1, <4>1, <4>7 DEF AloneFits, Carriers, Carries
    <3> QED BY <3>1, <3>2, <3>3
  <2> QED BY <1>1, <2>2, <2>3 DEF PageInv
<1> QED BY <1>2, <1>3

LEMMA VerifySavedKeeps ==
  ASSUME PageInv, NEW o \in ops, Page!VerifySaved(o)
  PROVE  PageInv'
<1>0. PageTypes /\ o \in OpType /\ CallbackFits(o, hub)
  BY DEF PageInv, PageTypes
<1>1. /\ PageTypes' /\ o.kind = "verify" /\ o.at = "saving" /\ ops' = ops \ {o}
      /\ ~Page!Waits(o) /\ saved' = saved \union {o.challenge}
      /\ UNCHANGED <<mount, stored, hub, dropped, overlapped>>
  BY <1>0, VerifySavedTypes
<1>2. CASE ~Alone(o)
  BY <1>1, <1>2, BusyMoves
<1>3. CASE Alone(o)
  <2>1. AloneFits(o) /\ ops = {o} /\ mount # 0 /\ o.mount = mount /\ page.challenge = o.challenge
    BY <1>3 DEF PageInv, AloneFits
  <2>2. Safe(o.challenge)
    <3>1. \A i \in 1..Len(queue) : queue[i].of # o
      BY <1>0, <1>1 DEF Page!Waits, PageTypes
    <3> QED BY <1>1, <2>1, <3>1 DEF AloneFits
  <2>3. ops' = {} /\ \A c \in Live' : c = o.challenge
    BY <1>1, <2>1 DEF PageInv, LiveFits, Finishing, Live
  <2>4. PICK p \in PageType :
           /\ p.challenge = o.challenge /\ p.step = "password" /\ p.verified = Page!Verified(o)
           /\ Page!Render(p, <<>>)
    BY <1>0, <2>1, VerifySavedTypes DEF Page!SetPage
  <2>5. p.verified # None /\ p.verified.challenge = o.challenge
    BY <1>0, <1>1, <2>4, VerifiedCarries, NoneIsNothing
  <2>6. Safe(o.challenge)' /\ Showing(o.challenge)'
    <3> DEFINE c == o.challenge
    <3>1. Safe(c) /\ p.challenge = c /\ p.verified.challenge = c
      BY <2>2, <2>4, <2>5
    <3> HIDE DEF c
    <3>2. Safe(c)' /\ Showing(c)'
      BY <1>0, <1>1, <2>4, <2>5, <3>1, ShownIsWritten
    <3> QED BY <3>2 DEF c
  <2>7. \A c \in Live' : LiveFits(c)'
    BY <1>1, <2>1, <2>3, <2>6 DEF LiveFits
  <2> QED BY <1>1, <2>3, <2>7 DEF PageInv
<1> QED BY <1>2, <1>3

\* The checkpoint is read: it is what the live credentials are in.
LEMMA RestoreKeeps ==
  ASSUME PageInv, NEW o \in ops, Page!Restore(o)
  PROVE  PageInv'
<1>0. PageTypes /\ o.kind = "restore"
  BY DEF PageInv, Page!Restore
<1>1. /\ ops' = ops \ {o} /\ dropped \subseteq dropped'
      /\ UNCHANGED <<mount, mounts, pin, stored, hub, passkeys, sealed, saved, overlapped>>
  BY DEF Page!Restore, Page!Ends, Page!outside
<1> DEFINE p == [page EXCEPT !.challenge = stored.challenge, !.cands = stored.cands,
                             !.picked = stored.picked, !.verified = stored.verified, !.step = stored.step]
<1>2. \/ stored = None /\ UNCHANGED <<page, queue, dropped>>
      \/ /\ stored # None
         /\ queue' = Append(queue, Page!Entry(None, None))
         /\ dropped' = dropped \union {stored.challenge}
         /\ UNCHANGED page
      \/ stored # None /\ Page!SetPage(o, p, <<>>) /\ UNCHANGED dropped
  BY DEF Page!Restore
<1>3. stored # None =>
        /\ p \in PageType /\ Born(p.challenge, hub)
        /\ p.challenge = stored.challenge /\ p.step = stored.step /\ p.verified = stored.verified
  BY <1>0 DEF PageTypes, PageType, Checkpoints, Perhaps, Steps, ValueFits
<1> HIDE DEF p
<1>4. PageTypes'
  <2>1. page' \in PageType /\ Born(page'.challenge, hub) /\ queue' \in Seq(FitEntries(hub))
    <3>1. CASE UNCHANGED <<page, queue>>
      BY <1>0, <3>1 DEF PageTypes
    <3>2. CASE queue' = Append(queue, Page!Entry(None, None)) /\ UNCHANGED page
      <4>1. Page!Entry(None, None) \in FitEntries(hub)
        BY DEF FitEntries, EntryType, ValueFits, Page!Entry, Perhaps
      <4> QED BY <1>0, <3>2, <4>1, AppendProperties DEF PageTypes
    <3>3. CASE stored # None /\ Page!SetPage(o, p, <<>>)
      <4>1. <<>> \in Seq(FitEntries(hub))
        OBVIOUS
      <4> QED BY <1>0, <1>3, <3>3, <4>1, SetPageFits
    <3> QED BY <1>2, <3>1, <3>2, <3>3
  <2> QED BY <1>0, <1>1, <2>1, HubStays, TypesMove
<1>5. \A q \in ops' : ~Alone(q)'
  BY <1>0, <1>1, NobodyAlone
<1>6. ASSUME NEW c \in Live' PROVE LiveFits(c)'
  <2>1. LiveFits(c) /\ c \notin dropped'
    BY <1>1, <1>6 DEF Live, PageInv
  <2>2. o.mount = mount /\ mount # 0 /\ stored # None
    BY <2>1 DEF LiveFits, Safe, Carries
  <2>3. stored.step = "password" /\ stored.challenge = c /\ stored.verified # None
        /\ stored.verified.challenge = c /\ Safe(c)
    BY <2>1 DEF LiveFits, Safe, Carries
  <2>4. Page!Render(p, <<>>) /\ p \in PageType
    BY <1>2, <1>3, <2>1, <2>2, <2>3 DEF Page!SetPage
  <2>5. Safe(c)' /\ Showing(c)'
    BY <1>0, <1>1, <1>3, <2>2, <2>3, <2>4, ShownIsWritten
  <2> QED BY <1>1, <2>1, <2>2, <2>5 DEF LiveFits, Finishing
<1> QED BY <1>4, <1>5, <1>6 DEF PageInv

\* Of the live credentials, the page that finishes ends in giving them up.
LEMMA FinishingTypes ==
  ASSUME PageTypes, NEW o \in ops,
         Page!Register(o) \/ Page!Confirm(o) \/ Page!SealWallet(o) \/ Page!Finish(o)
  PROVE  /\ PageTypes' /\ o.kind = "finish"
         /\ \A n \in ops' \ ops : n.kind = "finish" /\ n.challenge = o.challenge /\ n.mount = o.mount
         /\ UNCHANGED <<mount, stored, hub, saved, overlapped>>
         /\ \/ dropped' = dropped \union {o.challenge}
            \/ /\ UNCHANGED dropped
               /\ \/ UNCHANGED <<page, queue>>
                  \/ Page!SetPage(o, Page!Done(o), <<>>)
<1>0. o \in OpType /\ CallbackFits(o, hub) /\ o.kind = "finish"
  BY DEF PageTypes, CallbackFits, Page!Register, Page!Confirm, Page!SealWallet, Page!Finish
<1>1. UNCHANGED <<mount, mounts, pin, stored, hub, saved, overlapped>>
  BY DEF Page!Register, Page!Confirm, Page!SealWallet, Page!Finish, Page!outside, Page!history
<1>2. \A s \in {"confirms", "seals", "sealed"} :
         LET n == [o EXCEPT !.at = s]
         IN  /\ n \in OpType /\ n.kind = "finish" /\ n.challenge = o.challenge /\ n.mount = o.mount
             /\ CallbackFits(n, hub)
  BY <1>0 DEF OpType, CallbackFits
<1>3. \/ Page!Ends(o)
      \/ \E s \in {"confirms", "seals", "sealed"} : Page!Become(o, [o EXCEPT !.at = s])
  BY DEF Page!Register, Page!Confirm, Page!SealWallet, Page!Finish
<1>4. \A n \in ops' \ ops : /\ n \in OpType /\ CallbackFits(n, hub)
                            /\ n.kind = "finish" /\ n.challenge = o.challenge /\ n.mount = o.mount
  <2>1. CASE Page!Ends(o)
    BY <2>1 DEF Page!Ends
  <2>2. ASSUME NEW s \in {"confirms", "seals", "sealed"}, Page!Become(o, [o EXCEPT !.at = s])
        PROVE  \A n \in ops' \ ops : /\ n \in OpType /\ CallbackFits(n, hub)
                                    /\ n.kind = "finish" /\ n.challenge = o.challenge
                                    /\ n.mount = o.mount
    <3> DEFINE n == [o EXCEPT !.at = s]
    <3>1. /\ n \in OpType /\ n.kind = "finish" /\ n.challenge = o.challenge /\ n.mount = o.mount
          /\ CallbackFits(n, hub)
      BY <1>2
    <3>2. ops' = (ops \ {o}) \union {n}
      BY <2>2 DEF Page!Become
    <3> HIDE DEF n
    <3> QED BY <3>1, <3>2
  <2> QED BY <1>3, <2>1, <2>2
<1> DEFINE p == [Page!Done(o) EXCEPT !.step = "done"]
<1>5. \/ UNCHANGED <<page, queue, dropped>>
      \/ Page!SetPage(o, Page!Done(o), <<>>) /\ UNCHANGED dropped
      \/ /\ Page!SetPage(o, p, <<Page!Entry(None, None)>>)
         /\ dropped' = dropped \union {o.challenge}
  BY DEF Page!Register, Page!Confirm, Page!SealWallet, Page!Finish, Page!history
<1>6. /\ Page!Done(o) \in PageType /\ Page!Done(o).challenge = page.challenge
      /\ p \in PageType /\ p.challenge = page.challenge
  <2>1. PICK d \in PageType : d = Page!Done(o) /\ d.challenge = page.challenge
    BY <1>0, DoneFits
  <2>2. [d EXCEPT !.step = "done"] \in PageType /\ [d EXCEPT !.step = "done"].challenge = d.challenge
    BY DEF PageType, Steps
  <2> QED BY <2>1, <2>2
<1>7. <<>> \in Seq(FitEntries(hub)) /\ <<Page!Entry(None, None)>> \in Seq(FitEntries(hub))
  BY DEF FitEntries, EntryType, ValueFits, Page!Entry, Perhaps
<1> HIDE DEF p
<1>8. Born(page.challenge, hub)
  BY DEF PageTypes
<1>9. PageTypes'
  <2>1. \/ UNCHANGED <<page, queue>>
        \/ \E q \in PageType, first \in Seq(FitEntries(hub)) :
              Born(q.challenge, hub) /\ Page!SetPage(o, q, first)
    BY <1>5, <1>6, <1>7, <1>8
  <2> QED BY <1>1, <1>4, <2>1, CallbackTypes
<1> QED BY <1>0, <1>1, <1>4, <1>5, <1>9

LEMMA FinishingKeeps ==
  ASSUME PageInv, NEW o \in ops,
         Page!Register(o) \/ Page!Confirm(o) \/ Page!SealWallet(o) \/ Page!Finish(o)
  PROVE  PageInv'
<1>0. PageTypes /\ o \in OpType
  BY DEF PageInv, PageTypes
<1>1. /\ PageTypes' /\ o.kind = "finish"
      /\ \A n \in ops' \ ops : n.kind = "finish" /\ n.challenge = o.challenge /\ n.mount = o.mount
      /\ UNCHANGED <<mount, stored, hub, saved, overlapped>>
      /\ dropped \subseteq dropped'
  BY <1>0, FinishingTypes
<1>2. \A q \in ops' : ~Alone(q)'
  BY <1>1, NobodyAlone
<1>3. ASSUME NEW c \in Live' PROVE LiveFits(c)'
  <2>1. LiveFits(c) /\ c \notin dropped'
    BY <1>1, <1>3 DEF Live, PageInv
  <2>2. o.challenge = c /\ o.mount = mount /\ mount # 0 /\ Showing(c)
    BY <1>1, <2>1 DEF LiveFits, Finishing
  <2>3. \/ UNCHANGED <<page, queue>>
        \/ Page!Render(Page!Done(o), <<>>)
    BY <1>0, <2>1, <2>2, FinishingTypes DEF Page!SetPage
  <2>4. queue' = queue /\ Page!Surface(page') = Page!Surface(page)
    <3>1. <<>> \in Seq(EntryType) /\ queue \in Seq(EntryType)
      BY <1>0 DEF PageTypes, FitEntries
    <3>2. Page!Surface(Page!Done(o)) = Page!Surface(page)
      BY <1>0, DoneFits
    <3>3. CASE Page!Render(Page!Done(o), <<>>)
      <4>1. PICK p : p = Page!Done(o)
        OBVIOUS
      <4>2. page' = p /\ queue' = queue \o <<>>
        BY <1>0, <3>1, <3>2, <3>3, <4>1, SurfaceStays
      <4> QED BY <3>1, <3>2, <4>1, <4>2, ConcatEmptySeq
    <3> QED BY <2>3, <3>3 DEF Page!Surface
  <2>5. Safe(c)'
    BY <1>1, <2>1, <2>4 DEF LiveFits, Safe, Carriers, Carries
  <2>6. Showing(c)'
    BY <2>2, <2>4 DEF Showing, Page!Surface
  <2>7. \A q \in ops' : q.mount = mount' /\ (q.kind = "restore" \/ Finishing(q, c))
    BY <1>1, <2>1, <2>2 DEF LiveFits, Finishing
  <2> QED BY <1>1, <2>2, <2>5, <2>6, <2>7 DEF LiveFits
<1> QED BY <1>1, <1>2, <1>3 DEF PageInv

-----------------------------------------------------------------------------
(* The document, the queue and the clock *)

LEMMA OpenKeeps ==
  ASSUME PageInv, Page!Open
  PROVE  PageInv'
<1> DEFINE n == [Page!Op("restore", None, None, "load") EXCEPT !.mount = mounts + 1]
<1>0. PageTypes
  BY DEF PageInv
<1>1. /\ mount = 0 /\ mounts' = mounts + 1 /\ mount' = mounts + 1 /\ pin' \in Perhaps(PageWallets)
      /\ page' = Page!Blank /\ ops' = ops \union {n}
      /\ UNCHANGED <<queue, stored, hub, saved, dropped, overlapped>>
  BY DEF Page!Open, Page!outside, Page!history, Perhaps
<1>2. /\ n \in OpType /\ CallbackFits(n, hub) /\ n.kind = "restore" /\ n.mount = mounts + 1
      /\ mounts \in Nat /\ mounts + 1 # 0
  BY <1>0 DEF Page!Op, OpType, CallbackFits, Born, Perhaps, PageTypes, PageType
<1>3. Page!Blank \in PageType /\ Born(Page!Blank.challenge, hub)
  BY DEF Page!Blank, PageType, Perhaps, Steps, Born
<1> HIDE DEF n
<1>4. PageTypes'
  BY <1>0, <1>1, <1>2, <1>3 DEF PageTypes
<1>5. \A q \in ops' : ~Alone(q)'
  BY <1>1, <1>2 DEF PageInv, Alone, AloneFits
<1>6. ASSUME NEW c \in Live' PROVE LiveFits(c)'
  <2>1. LiveFits(c) /\ ops = {}
    BY <1>1, <1>6 DEF Live, PageInv, LiveFits
  <2>2. Safe(c)'
    BY <1>1, <2>1 DEF LiveFits, Safe, Carriers, Carries
  <2> QED BY <1>1, <1>2, <2>1, <2>2 DEF LiveFits, Page!Blank
<1> QED BY <1>4, <1>5, <1>6 DEF PageInv

\* The queue writes its first checkpoint.
LEMMA WriteKeeps ==
  ASSUME PageInv, Page!WriteNext
  PROVE  PageInv'
<1>0. PageTypes
  BY DEF PageInv
<1>1. /\ queue # <<>> /\ stored' = Head(queue).value /\ queue' = Tail(queue)
      /\ UNCHANGED <<mount, mounts, pin, page, ops, hub, saved, dropped, overlapped>>
  BY DEF Page!WriteNext, Page!history
<1>2. /\ queue \in Seq(FitEntries(hub)) /\ Head(queue) = queue[1] /\ queue[1] \in FitEntries(hub)
      /\ Tail(queue) \in Seq(FitEntries(hub))
      /\ Len(queue) \in Nat /\ Len(queue) > 0 /\ Len(Tail(queue)) = Len(queue) - 1
      /\ \A i \in 1..Len(Tail(queue)) : Tail(queue)[i] = queue[i + 1]
  BY <1>0, <1>1 DEF PageTypes
<1>3. PageTypes'
  BY <1>0, <1>1, <1>2 DEF PageTypes, FitEntries, EntryType
<1>4. ASSUME NEW c, Safe(c) PROVE Safe(c)'
  <2>1. queue[1] \in Carriers(c) /\ Tail(queue) \in Seq(Carriers(c))
    BY <1>1, <1>2, <1>4 DEF Safe
  <2> QED BY <1>1, <1>2, <2>1 DEF Safe, Carriers, Carries
<1>5. ASSUME NEW o \in ops', Alone(o)' PROVE AloneFits(o)'
  <2>1. AloneFits(o)
    BY <1>1, <1>5 DEF PageInv, Alone
  <2>2. ASSUME NEW i \in 1..Len(queue), queue[i].of = o,
               \A j \in i..Len(queue) : queue[j] \in Carriers(o.challenge)
        PROVE  \/ Safe(o.challenge)'
               \/ \E k \in 1..Len(queue') :
                     /\ queue'[k].of = o
                     /\ \A j \in k..Len(queue') : queue'[j] \in Carriers(o.challenge)
    <3>1. CASE i = 1
      <4>1. \A j \in 1..Len(Tail(queue)) : Tail(queue)[j] \in Carriers(o.challenge)
        BY <1>2, <2>2, <3>1
      <4>2. Tail(queue) \in Seq(Carriers(o.challenge))
        BY <1>2, <4>1, ElementsSeq
      <4>3. queue[1] \in Carriers(o.challenge)
        BY <1>2, <2>2, <3>1
      <4> QED BY <1>1, <1>2, <4>2, <4>3 DEF Safe, Carriers, Carries
    <3>2. CASE i # 1
      <4>1. i - 1 \in 1..Len(queue') /\ queue'[i - 1].of = o
        BY <1>1, <1>2, <2>2, <3>2
      <4>2. \A j \in (i - 1)..Len(queue') : queue'[j] \in Carriers(o.challenge)
        BY <1>1, <1>2, <2>2, <3>2
      <4> QED BY <4>1, <4>2
    <3> QED BY <3>1, <3>2
  <2>3. o.at = "saving" =>
           \/ Safe(o.challenge)'
           \/ \E k \in 1..Len(queue') :
                 /\ queue'[k].of = o
                 /\ \A j \in k..Len(queue') : queue'[j] \in Carriers(o.challenge)
    BY <1>4, <2>1, <2>2 DEF AloneFits
  <2> QED BY <1>1, <2>1, <2>3 DEF AloneFits, Safe, Carriers, Carries
<1>6. ASSUME NEW c \in Live' PROVE LiveFits(c)'
  <2>1. LiveFits(c) /\ Safe(c)'
    BY <1>1, <1>4, <1>6 DEF Live, PageInv, LiveFits
  <2> QED BY <1>1, <2>1 DEF LiveFits, Showing, Finishing
<1> QED BY <1>3, <1>5, <1>6 DEF PageInv

\* Who leaves the page gives up what it held, unless it was done.
LEMMA LeaveKeeps ==
  ASSUME PageInv, Page!Leave
  PROVE  PageInv'
<1>0. PageTypes
  BY DEF PageInv
<1>1. /\ mount # 0 /\ mount' = 0 /\ page' = Page!Blank
      /\ UNCHANGED <<mounts, pin, ops, stored, hub, saved, overlapped>>
      /\ \/ page.step = "done" /\ UNCHANGED <<queue, dropped>>
         \/ queue' = Append(queue, Page!Entry(None, None)) /\ dropped' = Challenges
  BY DEF Page!Leave, Page!outside
<1>2. Page!Blank \in PageType /\ Born(Page!Blank.challenge, hub)
  BY DEF Page!Blank, PageType, Perhaps, Steps, Born
<1>3. queue' \in Seq(FitEntries(hub))
  <2>1. Page!Entry(None, None) \in FitEntries(hub)
    BY DEF FitEntries, EntryType, ValueFits, Page!Entry, Perhaps
  <2> QED BY <1>0, <1>1, <2>1, AppendProperties DEF PageTypes
<1>4. PageTypes'
  BY <1>0, <1>1, <1>2, <1>3 DEF PageTypes
<1>5. \A q \in ops' : ~Alone(q)'
  <2>1. \A q \in ops : q.kind = "verify" => q.challenge \in Challenges
    BY <1>0 DEF PageTypes, CallbackFits
  <2> QED BY <1>1, <2>1 DEF PageInv, Alone, AloneFits
<1>6. Live' = {}
  <2>1. page.step = "done" => Live = {}
    BY <1>1 DEF PageInv, LiveFits, Showing, Page!Blank
  <2> QED BY <1>0, <1>1, <2>1 DEF Live, PageTypes
<1> QED BY <1>4, <1>5, <1>6 DEF PageInv

\* Of a window that closes, what is stored is stored, or its next write is.
LEMMA CloseKeeps ==
  ASSUME PageInv, Page!Close
  PROVE  PageInv'
<1>0. PageTypes
  BY DEF PageInv
<1>1. /\ mount' = 0 /\ page' = Page!Blank /\ ops' = {} /\ queue' = <<>>
      /\ stored' = stored \/ (queue # <<>> /\ stored' = Head(queue).value)
      /\ UNCHANGED <<mounts, pin, hub, saved, dropped, overlapped>>
  BY DEF Page!Close, Page!history
<1>2. Page!Blank \in PageType /\ Born(Page!Blank.challenge, hub)
  BY DEF Page!Blank, PageType, Perhaps, Steps, Born
<1>3. queue # <<>> => Head(queue) = queue[1] /\ queue[1] \in FitEntries(hub) /\ 1 \in 1..Len(queue)
  BY <1>0 DEF PageTypes
<1>4. stored' \in Perhaps(Checkpoints) /\ ValueFits(stored', hub)
  BY <1>0, <1>1, <1>3 DEF PageTypes, FitEntries, EntryType
<1>5. PageTypes'
  BY <1>0, <1>1, <1>2, <1>4 DEF PageTypes
<1>6. ASSUME NEW c \in Live' PROVE LiveFits(c)'
  <2>1. Safe(c)
    BY <1>1, <1>6 DEF Live, PageInv, LiveFits
  <2>2. queue # <<>> => Carries(Head(queue).value, c)
    BY <1>3, <2>1 DEF Safe, Carriers
  <2>3. Safe(c)'
    BY <1>1, <2>1, <2>2 DEF Safe, Carries
  <2> QED BY <1>1, <2>3 DEF LiveFits
<1> QED BY <1>1, <1>5, <1>6 DEF PageInv

\* Ten minutes pass.
LEMMA TimeKeeps ==
  ASSUME PageInv, Page!CheckpointAges \/ \E c \in Challenges : Page!ChallengeExpires(c)
  PROVE  PageInv'
<1>0. PageTypes
  BY DEF PageInv
<1>1. CASE Page!CheckpointAges
  <2>1. /\ stored # None /\ mount = 0 /\ stored' = [stored EXCEPT !.old = TRUE]
        /\ dropped' = dropped \union {stored.challenge}
        /\ UNCHANGED <<mount, mounts, pin, page, ops, queue, hub, saved, overlapped>>
    BY <1>1 DEF Page!CheckpointAges
  <2>2. stored' \in Checkpoints /\ stored'.challenge = stored.challenge
    BY <1>0, <2>1 DEF PageTypes, Perhaps, Checkpoints
  <2>3. PageTypes'
    BY <1>0, <2>1, <2>2 DEF PageTypes, Perhaps, ValueFits
  <2>4. \A q \in ops' : ~Alone(q)'
    BY <2>1 DEF PageInv, Alone, AloneFits
  <2>5. Live' = {}
    BY <2>1 DEF PageInv, Live, LiveFits, Safe, Carries
  <2> QED BY <2>3, <2>4, <2>5 DEF PageInv
<1>2. ASSUME NEW c \in Challenges, Page!ChallengeExpires(c) PROVE PageInv'
  <2>1. /\ hub[c] = "pending" /\ hub' = [hub EXCEPT ![c] = "spent"]
        /\ UNCHANGED <<mount, mounts, pin, page, ops, queue, stored, saved, dropped, overlapped>>
    BY <1>2 DEF Page!ChallengeExpires, Page!history
  <2>2. HubGrows
    BY <1>0, <2>1 DEF HubGrows, HubType, PageTypes
  <2>3. saved' \subseteq {d \in Challenges : hub'[d] = "spent"}
    BY <1>0, <2>1, <2>2 DEF HubGrows, PageTypes
  <2>4. PageTypes'
    BY <1>0, <2>1, <2>2, <2>3, TypesMove DEF PageTypes
  <2>5. ASSUME NEW o \in ops', Alone(o)' PROVE AloneFits(o)'
    <3>1. AloneFits(o)
      BY <2>1, <2>5 DEF PageInv, Alone
    <3> QED BY <2>1, <3>1 DEF AloneFits, Safe, Carriers, Carries
  <2>6. ASSUME NEW d \in Live' PROVE LiveFits(d)'
    <3>1. LiveFits(d)
      BY <2>1, <2>6 DEF PageInv, Live
    <3> QED BY <2>1, <3>1 DEF LiveFits, Safe, Carriers, Carries, Showing, Finishing
  <2> QED BY <2>4, <2>5, <2>6 DEF PageInv
<1> QED BY <1>1, <1>2

LEMMA PageStutters ==
  ASSUME PageInv, UNCHANGED pageVars
  PROVE  PageInv'
<1>1. UNCHANGED <<mount, mounts, pin, page, ops, queue, stored, hub, saved, dropped, overlapped>>
  BY DEF pageVars
<1>2. PageTypes'
  BY <1>1 DEF PageInv, PageTypes
<1>3. ASSUME NEW o \in ops', Alone(o)' PROVE AloneFits(o)'
  <2>1. AloneFits(o)
    BY <1>1, <1>3 DEF PageInv, Alone
  <2> QED BY <1>1, <2>1 DEF AloneFits, Safe, Carriers, Carries
<1>4. ASSUME NEW c \in Live' PROVE LiveFits(c)'
  <2>1. LiveFits(c)
    BY <1>1, <1>4 DEF PageInv, Live
  <2> QED BY <1>1, <2>1 DEF LiveFits, Safe, Carriers, Carries, Showing, Finishing
<1> QED BY <1>2, <1>3, <1>4 DEF PageInv

LEMMA PageStarts ==
  ASSUME Page!Init
  PROVE  PageInv
<1>1. /\ mount = 0 /\ mounts = 0 /\ pin = None /\ page = Page!Blank /\ ops = {} /\ queue = <<>>
      /\ stored = None /\ hub = [c \in Challenges |-> "unborn"] /\ saved = {}
  BY DEF Page!Init
<1>2. Page!Blank \in PageType /\ Page!Blank.challenge = None
  BY DEF Page!Blank, PageType, Perhaps, Steps
<1>3. PageTypes
  BY <1>1, <1>2 DEF PageTypes, Born, ValueFits, HubType, Perhaps
<1> QED BY <1>1, <1>3 DEF PageInv, Live

\* Every step of the page keeps PageInv: one lemma for each button, callback
\* and event.
THEOREM PageInductive ==
  ASSUME PageInv, Page!Next
  PROVE  PageInv'
<1>1. CASE \/ Page!InitOtp \/ Page!ResendOtp \/ Page!VerifyOtp
           \/ \E w \in PageWallets : Page!Pick(w)
  BY <1>1, ClicksKeep
<1>2. ASSUME NEW o \in ops,
             \/ Page!Restore(o) \/ Page!HubInit(o) \/ Page!InitAnswer(o) \/ Page!HubStart(o)
             \/ Page!StartAnswer(o) \/ Page!Spent(o) \/ Page!Abandon(o) \/ Page!HubVerify(o)
             \/ Page!VerifyAnswer(o) \/ Page!VerifySaved(o)
             \/ Page!Register(o) \/ Page!Confirm(o) \/ Page!SealWallet(o) \/ Page!Finish(o)
      PROVE  PageInv'
  <2>1. CASE Page!Restore(o)
    BY <2>1, RestoreKeeps
  <2>2. CASE Page!HubInit(o)
    BY <2>2, HubInitKeeps
  <2>3. CASE Page!InitAnswer(o) \/ Page!HubStart(o) \/ Page!StartAnswer(o)
    BY <2>3, StartsKeep
  <2>4. CASE Page!Spent(o) \/ Page!Abandon(o) \/ Page!HubVerify(o) \/ Page!VerifyAnswer(o)
    BY <2>4, CodesKeep
  <2>5. CASE Page!VerifySaved(o)
    BY <2>5, VerifySavedKeeps
  <2>6. CASE Page!Register(o) \/ Page!Confirm(o) \/ Page!SealWallet(o) \/ Page!Finish(o)
    BY <2>6, FinishingKeeps
  <2> QED BY <1>2, <2>1, <2>2, <2>3, <2>4, <2>5, <2>6
<1>3. CASE Page!Open \/ Page!WriteNext \/ Page!Leave \/ Page!Close
  BY <1>3, OpenKeeps, WriteKeeps, LeaveKeeps, CloseKeeps
<1>4. CASE Page!CheckpointAges \/ \E c \in Challenges : Page!ChallengeExpires(c)
  BY <1>4, TimeKeeps
<1>5. CASE Page!CompleteRecovery
  BY <1>5, CompleteKeeps
<1> QED BY <1>1, <1>2, <1>3, <1>4, <1>5 DEF Page!Next

\* recovery-session.ts: credentials that the user verified, with nothing else
\* of the page under way, stay in the session however often the window closes,
\* until they are used, given up or past their time.
THEOREM VerifiedStay == MCSpec => []VerifiedSurvives
<1>1. MCInit => PageInv
  BY PageStarts DEF MCInit
<1>2. PageInv /\ [MCNext]_<<vars, pageVars, part>> => PageInv'
  BY PageInductive, PageStutters DEF MCNext
<1>3. PageInv => VerifiedSurvives
  BY DEF PageInv, LiveFits, Safe, Carries, Live, VerifiedSurvives, Page!VerifiedSurvives, Page!Held
<1> QED BY <1>1, <1>2, <1>3, PTL DEF MCSpec
=============================================================================
