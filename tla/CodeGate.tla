------------------------------ MODULE CodeGate ------------------------------
(***************************************************************************)
(* The code an e-mail wallet asks for before a page may sign: the gate     *)
(* that Send and Approve put on screen (session/SessionBootstrapper.tsx)   *)
(* until a session is open, and which then submits or approves again.      *)
(*                                                                         *)
(* A gate is a mounted component.  Its effect asks the hub for a challenge *)
(* and has the code mailed; its button has the code verified and opens a   *)
(* session of the wallet that is active by then.  What a gate has under    *)
(* way goes on when the gate is taken off the screen, with the callbacks   *)
(* of the render it began in.  Every wallet here has an address on file.   *)
(***************************************************************************)
EXTENDS Naturals

CONSTANTS
    Wallets,
    Offers,     \* the sets of wallets the hub may offer for the e-mail address
    MaxGates, MaxChallenges, MaxEvents, \* bounds
    None

VARIABLES
    known, active, \* wallets of the install, and the active one
    session,    \* the wallet a signing session is open for
    gate,       \* how many gates there were; the last is on screen
    asked,      \* the wallet it is for; None when none is on screen
    stage,
    pair,       \* challengeId and candidateToken of its state
    inits,      \* runs of its effect
    checks,     \* runs of verify
    mailed,     \* hub: challenges with a code in the mail, not yet verified
    challenges, \* how many there were
    resumed,    \* history: gates that let their page go on
    backedOut,  \* history: gates the user cancelled
    events

view == <<gate, asked, stage, pair>>
vars == <<known, active, session, view, inits, checks, mailed, challenges, resumed, backedOut, events>>

Pairs == [challenge: 1..MaxChallenges, wallet: Wallets]

TypeOK ==
    /\ known \subseteq Wallets /\ active \in known /\ session \in known \union {None}
    /\ gate \in 0..MaxGates
    /\ asked \in known \union {None}
    /\ stage \in {"init", "otp", "verifying", "error"}
    /\ pair \in Pairs \union {None}
    /\ inits \subseteq [gate: 1..MaxGates, no: 1..MaxChallenges, for: Wallets, live: BOOLEAN,
                        wallet: Wallets \union {None}]
    /\ checks \subseteq [gate: 1..MaxGates, for: Wallets, pair: Pairs,
                         at: {"verify", "open", "late"}]
    /\ mailed \subseteq Pairs
    /\ challenges \in 0..MaxChallenges

Init ==
    /\ known = Wallets /\ active \in Wallets /\ session = None
    /\ gate = 0 /\ asked = None /\ stage = "init" /\ pair = None
    /\ inits = {} /\ checks = {}
    /\ mailed = {} /\ challenges = 0
    /\ resumed = {} /\ backedOut = {} /\ events = 0

Event == events < MaxEvents /\ events' = events + 1

-----------------------------------------------------------------------------
(* The clean-up of the effect: its runs are told they are cancelled.       *)
Cancelled(runs) == {[i EXCEPT !.live = FALSE] : i \in runs}

OnScreen(g) == asked # None /\ g = gate

(* setStage: without effect for a gate that is off the screen.  Leaving    *)
(* the first stage cleans its effect up.                                   *)
Stage(g, s) ==
    IF OnScreen(g)
    THEN stage' = s /\ UNCHANGED <<gate, asked, pair>>
    ELSE UNCHANGED view
Left(g, s, runs) == IF OnScreen(g) /\ s # "init" THEN Cancelled(runs) ELSE runs

NewRun(g, for) == [gate |-> g, no |-> challenges + 1, for |-> for, live |-> TRUE, wallet |-> None]

(* ensureSigningSessionForAccount: the page signs with the active wallet,  *)
(* finds no session and mounts a gate for it.                              *)
Mount ==
    /\ asked = None /\ session # active
    /\ gate < MaxGates /\ challenges < MaxChallenges
    /\ gate' = gate + 1 /\ asked' = active
    /\ stage' = "init" /\ pair' = None
    /\ challenges' = challenges + 1
    /\ inits' = inits \union {NewRun(gate', active)}
    /\ UNCHANGED <<known, active, session, checks, mailed, resumed, backedOut, events>>

(* The wallet whose candidate is chosen: its own, or the only one.         *)
Candidate(for, offered) ==
    IF for \in offered THEN for
    ELSE IF \E w \in offered : offered = {w} THEN CHOOSE w \in offered : TRUE
    ELSE None

InitFails(i) ==
    /\ inits' = Left(i.gate, "error", inits \ {i})
    /\ Stage(i.gate, "error")

(* initRecoveryEmail answers, without candidates when the address has had  *)
(* too many codes.  A cancelled run ends here.                             *)
InitAnswers(i) ==
    /\ i.wallet = None
    /\ \E offered \in Offers :
          LET w == Candidate(i.for, offered) IN
          IF ~i.live THEN inits' = inits \ {i} /\ UNCHANGED view
          ELSE IF w = None THEN InitFails(i)
          ELSE inits' = (inits \ {i}) \union {[i EXCEPT !.wallet = w]} /\ UNCHANGED view
    /\ UNCHANGED <<known, active, session, checks, mailed, challenges, resumed, backedOut, events>>

(* Nothing comes back within twenty seconds, or an error does.             *)
InitTimesOut(i) ==
    /\ i.wallet = None
    /\ IF i.live THEN InitFails(i) ELSE inits' = inits \ {i} /\ UNCHANGED view
    /\ UNCHANGED <<known, active, session, checks, mailed, challenges, resumed, backedOut, events>>

(* startRecoveryEmailOtp answers.  A run that was cancelled meanwhile is   *)
(* not told apart: it shows its challenge and the field for the code.      *)
StartAnswers(i) ==
    LET p == [challenge |-> i.no, wallet |-> i.wallet] IN
    /\ i.wallet # None
    /\ mailed' = mailed \union {p}
    /\ IF OnScreen(i.gate)
       THEN pair' = p /\ stage' = "otp" /\ UNCHANGED <<gate, asked>>
       ELSE UNCHANGED view
    /\ inits' = Left(i.gate, "otp", inits \ {i})
    /\ UNCHANGED <<known, active, session, checks, challenges, resumed, backedOut, events>>

(* It fails, or the hub's client gives up on it.                           *)
StartFails(i) ==
    /\ i.wallet # None
    /\ mailed' \in {mailed, mailed \union {[challenge |-> i.no, wallet |-> i.wallet]}}
    /\ IF i.live THEN InitFails(i) ELSE inits' = inits \ {i} /\ UNCHANGED view
    /\ UNCHANGED <<known, active, session, checks, challenges, resumed, backedOut, events>>

(* The buttons of the error stage and of the first stage.                  *)
Retry ==
    /\ asked # None /\ stage = "error"
    /\ challenges < MaxChallenges
    /\ challenges' = challenges + 1
    /\ stage' = "init"
    /\ inits' = inits \union {NewRun(gate, asked)}
    /\ UNCHANGED <<known, active, session, gate, asked, pair, checks, mailed, resumed, backedOut, events>>

AskToForget ==
    /\ asked # None /\ stage = "init"
    /\ stage' = "error"
    /\ inits' = Cancelled(inits)
    /\ UNCHANGED <<known, active, session, gate, asked, pair, checks, mailed, challenges, resumed, backedOut, events>>

(* forgetCurrentAccount reloads the view: nothing under way survives.      *)
Forget ==
    /\ asked # None /\ stage = "error"
    /\ known # {asked}
    /\ known' = known \ {asked}
    /\ active' \in (IF active = asked THEN known' ELSE {active})
    /\ session' = IF session = asked THEN None ELSE session
    /\ asked' = None
    /\ inits' = {} /\ checks' = {}
    /\ UNCHANGED <<gate, stage, pair, mailed, challenges, resumed, backedOut, events>>

(* "Cancel and lock wallet" is shown in every stage; the pages that mount  *)
(* a gate only take it off the screen.                                     *)
Cancel ==
    /\ asked # None
    /\ asked' = None
    /\ inits' = Cancelled(inits)
    /\ backedOut' = backedOut \union {gate}
    /\ UNCHANGED <<known, active, session, gate, stage, pair, checks, mailed, challenges, resumed, events>>

-----------------------------------------------------------------------------
(* verify, up to the hub's answer.                                         *)
Verify ==
    /\ asked # None /\ stage = "otp" /\ pair # None
    /\ stage' = "verifying"
    /\ checks' = checks \union {[gate |-> gate, for |-> asked, pair |-> pair, at |-> "verify"]}
    /\ UNCHANGED <<known, active, session, gate, asked, pair, inits, mailed, challenges, resumed, backedOut, events>>

CheckFails(c, s) ==
    /\ checks' = checks \ {c}
    /\ Stage(c.gate, s)
    /\ inits' = Left(c.gate, s, inits)

(* Mutant: the organisation of the answer is not compared.                 *)
VerifyAnyOrganisation(c) ==
    /\ c.at = "verify"
    /\ \/ /\ c.pair \in mailed
          /\ mailed' = mailed \ {c.pair}
          /\ checks' = (checks \ {c}) \union {[c EXCEPT !.at = "open"]}
          /\ UNCHANGED <<view, inits>>
       \/ mailed' = mailed /\ CheckFails(c, "otp")
    /\ UNCHANGED <<known, active, session, challenges, resumed, backedOut, events>>

(* The hub verifies a code once, for the candidate's wallet.  The answer   *)
(* must be for the wallet of the gate, and may not come in time.           *)
VerifyAnswers(c) ==
    /\ c.at = "verify"
    /\ \/ /\ c.pair \in mailed /\ c.pair.wallet = c.for
          /\ mailed' = mailed \ {c.pair}
          /\ checks' = (checks \ {c}) \union {[c EXCEPT !.at = "open"]}
          /\ UNCHANGED <<view, inits>>
       \/ /\ c.pair.wallet # c.for
          /\ mailed' = mailed \ {c.pair}
          /\ CheckFails(c, "otp")
    /\ UNCHANGED <<known, active, session, challenges, resumed, backedOut, events>>

VerifyFails(c) ==
    /\ c.at = "verify"
    /\ mailed' \in {mailed, mailed \ {c.pair}}
    /\ CheckFails(c, "otp")
    /\ UNCHANGED <<known, active, session, challenges, resumed, backedOut, events>>

(* openEmailSession is for the active wallet.  A session that is open for  *)
(* it needs no code; Turnkey lets the credential of another wallet in no   *)
(* more than a wrong one.                                                  *)
Opens(c) == session = active \/ c.pair.wallet = active

(* onReady: whatever gate is on screen goes, and the page goes on.         *)
SessionOpens(c) ==
    /\ c.at = "open" /\ Opens(c)
    /\ session' = active
    /\ checks' = checks \ {c}
    /\ asked' = None
    /\ inits' = Cancelled(inits)
    /\ resumed' = resumed \union {[gate |-> c.gate, for |-> c.for, verified |-> c.pair.wallet]}
    /\ UNCHANGED <<known, active, gate, stage, pair, mailed, challenges, backedOut, events>>

SessionFails(c) ==
    /\ c.at = "open" /\ ~Opens(c)
    /\ CheckFails(c, "otp")
    /\ UNCHANGED <<known, active, session, mailed, challenges, resumed, backedOut, events>>

(* Mutant: the sign-in waits for Turnkey for ever.                         *)
WaitsForEver(c) == FALSE /\ UNCHANGED vars

(* Thirty seconds are over; the sign-in goes on.                           *)
SessionTimesOut(c) ==
    /\ c.at = "open"
    /\ checks' = (checks \ {c}) \union {[c EXCEPT !.at = "late"]}
    /\ Stage(c.gate, "error")
    /\ inits' = Left(c.gate, "error", inits)
    /\ UNCHANGED <<known, active, session, mailed, challenges, resumed, backedOut, events>>

SessionOpensLate(c) ==
    /\ c.at = "late"
    /\ session' = IF Opens(c) THEN active ELSE session
    /\ checks' = checks \ {c}
    /\ UNCHANGED <<known, active, view, inits, mailed, challenges, resumed, backedOut, events>>

-----------------------------------------------------------------------------
(* The header, or another window, switches the wallet; a session is opened *)
(* there, or closed.                                                       *)
Switch(w) ==
    /\ Event
    /\ w \in known \ {active}
    /\ active' = w
    /\ UNCHANGED <<known, session, view, inits, checks, mailed, challenges, resumed, backedOut>>

Elsewhere ==
    /\ Event
    /\ session' \in {active, None} \ {session}
    /\ UNCHANGED <<known, active, view, inits, checks, mailed, challenges, resumed, backedOut>>

Next ==
    \/ Mount \/ Retry \/ AskToForget \/ Forget \/ Cancel \/ Verify \/ Elsewhere
    \/ \E i \in inits : InitAnswers(i) \/ InitTimesOut(i) \/ StartAnswers(i) \/ StartFails(i)
    \/ \E c \in checks : VerifyAnswers(c) \/ VerifyFails(c) \/ SessionOpens(c) \/ SessionFails(c)
                         \/ SessionTimesOut(c) \/ SessionOpensLate(c)
    \/ \E w \in Wallets : Switch(w)

(* The deadlines that are set run out; nobody has to answer.               *)
Deadlines ==
    /\ WF_vars(\E i \in inits : InitTimesOut(i) \/ StartFails(i))
    /\ WF_vars(\E c \in checks : VerifyFails(c) \/ SessionTimesOut(c))

Spec == Init /\ [][Next]_vars /\ Deadlines

-----------------------------------------------------------------------------
(* A page goes on only after a code that was mailed for the wallet it      *)
(* asked for, whatever wallets the hub offers for the address and however  *)
(* the active wallet is switched while the user types.                     *)
ResumesForVerified == \A r \in resumed : r.verified = r.for

(* SessionBootstrapper.tsx: "the spinner would otherwise show forever";    *)
(* "A stuck Hub/Turnkey upstream must not trap the user on "Verifying..."  *)
(* forever."  Whoever does not answer, the gate stops waiting.             *)
Waiting == asked # None /\ stage \in {"init", "verifying"}
WaitsEnd == Waiting ~> ~Waiting

(* Approve.tsx:1664: "User backed out of OTP.  Keep them on the Approve    *)
(* view so they can pick a different account, edit the request, or Reject  *)
(* explicitly."  A gate that was cancelled lets nothing go on.             *)
CancelIsFinal == \A r \in resumed : r.gate \notin backedOut
=============================================================================
