----------------------------- MODULE RecoverPage -----------------------------
(***************************************************************************)
(* The page that recovers a wallet by e-mail (pages/Recover/Recover.tsx)   *)
(* and the checkpoint it leaves in chrome.storage.session                  *)
(* (state/recovery-session.ts), so that a window that closes half way can  *)
(* go on.  The hub's challenges are modelled by what the page sees of      *)
(* them; RecoveryChallenges has their own state.                           *)
(*                                                                         *)
(* An asynchronous callback is an operation in `ops`: it asks, is          *)
(* answered, and goes on.  It runs to its end when the page is left, but   *)
(* what it then sets on the page is lost.  Writes of the checkpoint go     *)
(* through one queue of the document.                                      *)
(***************************************************************************)
EXTENDS Naturals, FiniteSets, SequencesExt

CONSTANTS
    Wallets,     \* candidates
    PasskeyOnes, \* those whose authMethod is "passkey"
    Challenges,  \* bound: challenges the hub gives out
    MaxMounts,   \* bound: how often the page is opened
    None

VARIABLES
    mount,     \* number of the page that is shown, 0 if none is
    mounts,    \* how many were
    pin,       \* the resource id in its address
    page,      \* its state
    ops,       \* callbacks under way
    queue,     \* writeChain: checkpoints to be written, None for a removal
    stored,    \* arch_wallet_recovery_session
    hub,       \* what has become of each challenge
    passkeys,  \* wallets with a passkey of this device at Turnkey
    sealed,    \* the wallet sealed on this device
    saved,     \* history: challenges whose credentials were written
    dropped,   \* history: those the user, or the time limit, gave up
    overlapped \* history: those verified while another callback was under way

vars == <<mount, mounts, pin, page, ops, queue, stored, hub, passkeys, sealed, saved, dropped, overlapped>>
outside == <<stored, hub, passkeys, sealed>>
history == <<saved, dropped, overlapped>>

Blank == [step |-> "email", challenge |-> None, picked |-> None, cands |-> {},
          verified |-> None, loading |-> FALSE, resending |-> FALSE]

Op(kind, c, w, at) == [kind |-> kind, mount |-> mount, challenge |-> c, wallet |-> w,
                       cands |-> page.cands, at |-> at]

TypeOK ==
    /\ mount \in 0..mounts
    /\ mounts \in 0..MaxMounts
    /\ pin \in Wallets \union {None}
    /\ page.step \in {"email", "otp", "pick", "password", "done"}
    /\ hub \in [Challenges -> {"unborn", "pending", "spent"}]
    /\ passkeys \subseteq PasskeyOnes
    /\ sealed \in Wallets \union {None}
    /\ saved \subseteq Challenges

Init ==
    /\ mount = 0
    /\ mounts = 0
    /\ pin = None
    /\ page = Blank
    /\ ops = {}
    /\ queue = <<>>
    /\ stored = None
    /\ hub = [c \in Challenges |-> "unborn"]
    /\ passkeys = {}
    /\ sealed = None
    /\ saved = {}
    /\ dropped = {}
    /\ overlapped = {}

-----------------------------------------------------------------------------
(* What the page would write of itself: nothing at email and done.         *)
Checkpoint(p) == [step |-> p.step, challenge |-> p.challenge, picked |-> p.picked, cands |-> p.cands,
                  verified |-> p.verified, pin |-> pin, old |-> FALSE]
Resumable(p) ==
    \/ p.step = "password" /\ p.verified # None
    \/ p.step \in {"otp", "pick"} /\ p.challenge # None /\ p.cands # {}

Surface(p) == <<p.step, p.challenge, p.picked, p.cands, p.verified>>
Entry(value, of) == [value |-> value, of |-> of]

(* The page becomes p, and the effect writes it when its surface changed;  *)
(* the callback `first` has entered its own writes before.                 *)
Render(p, first) ==
    /\ page' = p
    /\ queue' = queue \o first \o
                (IF Resumable(p) /\ Surface(p) # Surface(page)
                 THEN <<Entry([Checkpoint(p) EXCEPT !.verified = IF p.step = "password" THEN @ ELSE None], None)>>
                 ELSE <<>>)

(* A callback of a page that was left sets nothing.                        *)
SetPage(o, p, first) ==
    IF o.mount = mount THEN Render(p, first)
    ELSE page' = page /\ queue' = queue \o first

Become(o, n) == ops' = (ops \ {o}) \union {n}
Ends(o) == ops' = ops \ {o}

(* A click starts a callback.  Bound: nobody clicks before the page has    *)
(* read its checkpoint, which takes no network.                            *)
Click(o, p) ==
    /\ mount # 0
    /\ \A x \in ops : x.kind = "restore" => x.mount # mount
    /\ ops' = ops \union {o}
    /\ Render(p, <<>>)
    /\ UNCHANGED <<mount, mounts, pin, outside>>

-----------------------------------------------------------------------------
(* The page opens, and looks for a checkpoint.                             *)
Open ==
    /\ mount = 0
    /\ mounts < MaxMounts
    /\ mounts' = mounts + 1
    /\ mount' = mounts + 1
    /\ pin' \in {None} \union Wallets
    /\ page' = Blank
    /\ ops' = ops \union {[Op("restore", None, None, "load") EXCEPT !.mount = mounts + 1]}
    /\ UNCHANGED <<queue, outside, history>>

(* One of another wallet, or one that is too old, is removed.              *)
Restore(o) ==
    /\ o.kind = "restore"
    /\ Ends(o)
    /\ IF stored = None THEN UNCHANGED <<page, queue, dropped>>
       ELSE IF stored.old \/ (pin # None /\ stored.pin # None /\ pin # stored.pin)
       THEN /\ queue' = Append(queue, Entry(None, None))
            /\ dropped' = dropped \union {stored.challenge}
            /\ UNCHANGED page
       ELSE /\ SetPage(o, [page EXCEPT !.challenge = stored.challenge, !.cands = stored.cands,
                                       !.picked = stored.picked, !.verified = stored.verified,
                                       !.step = stored.step], <<>>)
            /\ UNCHANGED dropped
    /\ UNCHANGED <<mount, mounts, pin, outside, saved, overlapped>>

(* Mutant: writes are not chained, and end in any order.                   *)
WriteAny ==
    /\ \E i \in DOMAIN queue :
          /\ stored' = queue[i].value
          /\ queue' = RemoveAt(queue, i)
    /\ UNCHANGED <<mount, mounts, pin, page, ops, hub, passkeys, sealed, history>>

(* The queue writes one checkpoint after the other.                        *)
WriteNext ==
    /\ queue # <<>>
    /\ stored' = Head(queue).value
    /\ queue' = Tail(queue)
    /\ UNCHANGED <<mount, mounts, pin, page, ops, hub, passkeys, sealed, history>>

-----------------------------------------------------------------------------
(* The buttons of each step, where they are not disabled.  The one that    *)
(* verifies does not look at `resending`.                                  *)
CanSend == page.step = "email" /\ ~page.loading
CanVerify == page.step = "otp" /\ page.cands # {} /\ ~page.loading
CanResend == CanVerify /\ ~page.resending
CanPick == page.step = "pick" /\ ~page.loading
CanFinish == page.step = "password" /\ ~page.loading

(* initOtp: the user asks for a code, and with it gives up what was there. *)
InitOtp ==
    /\ CanSend
    /\ Click(Op("init", None, None, "asks"), [page EXCEPT !.loading = TRUE])
    /\ dropped' = Challenges
    /\ UNCHANGED <<saved, overlapped>>

HubInit(o) ==
    /\ o.kind = "init"
    /\ o.at = "asks"
    /\ \/ /\ Become(o, [o EXCEPT !.at = "failed"])
          /\ UNCHANGED <<hub, dropped>>
       \/ \E c \in Challenges, found \in SUBSET Wallets :
             /\ hub[c] = "unborn"
             /\ hub' = [hub EXCEPT ![c] = "pending"]
             /\ Become(o, [o EXCEPT !.at = "ok", !.challenge = c, !.cands = found])
             /\ dropped' = dropped \ {c}
    /\ UNCHANGED <<mount, mounts, pin, page, queue, stored, passkeys, sealed, saved, overlapped>>

(* A wallet that is pinned, or the only one, is sent its code at once.     *)
InitAnswer(o) ==
    /\ o.kind = "init"
    /\ o.at \in {"ok", "failed"}
    /\ LET p == [page EXCEPT !.challenge = o.challenge, !.cands = o.cands, !.picked = None]
           only == IF o.mount = mount /\ pin # None THEN {pin} \intersect o.cands ELSE o.cands
       IN  IF o.at = "failed"
           THEN Ends(o) /\ SetPage(o, [page EXCEPT !.loading = FALSE], <<>>)
           ELSE IF o.cands = {}
           THEN /\ Ends(o)
                /\ SetPage(o, [p EXCEPT !.challenge = None, !.step = "email", !.loading = FALSE],
                           <<Entry(None, None)>>)
           ELSE IF only = {}
           THEN Ends(o) /\ SetPage(o, [p EXCEPT !.step = "email", !.loading = FALSE], <<>>)
           ELSE IF Cardinality(only) = 1
           THEN /\ Become(o, [o EXCEPT !.kind = "start", !.at = "asks", !.wallet = CHOOSE w \in only : TRUE])
                /\ SetPage(o, p, <<>>)
           ELSE Ends(o) /\ SetPage(o, [p EXCEPT !.step = "pick", !.loading = FALSE], <<>>)
    /\ UNCHANGED <<mount, mounts, pin, outside, history>>

(* startOtpForCandidate from the list of wallets.                          *)
Pick(w) ==
    /\ CanPick
    /\ page.challenge # None
    /\ w \in page.cands
    /\ Click(Op("start", page.challenge, w, "asks"), [page EXCEPT !.loading = TRUE])
    /\ UNCHANGED history

ResendOtp ==
    /\ CanResend
    /\ page.challenge # None
    /\ page.picked # None
    /\ Click(Op("resend", page.challenge, page.picked, "asks"), [page EXCEPT !.resending = TRUE])
    /\ UNCHANGED history

(* A challenge that is spent answers 410.                                  *)
HubStart(o) ==
    /\ o.kind \in {"start", "resend"}
    /\ o.at = "asks"
    /\ \E answer \in {"ok", "failed", "spent"} :
          /\ answer = "ok" => hub[o.challenge] = "pending"
          /\ answer = "spent" => hub[o.challenge] # "pending"
          /\ Become(o, [o EXCEPT !.at = answer])
    /\ UNCHANGED <<mount, mounts, pin, page, queue, outside, history>>

Done(o) == IF o.kind = "resend" THEN [page EXCEPT !.resending = FALSE] ELSE [page EXCEPT !.loading = FALSE]

StartAnswer(o) ==
    /\ o.kind \in {"start", "resend"}
    /\ o.at \in {"ok", "failed"}
    /\ Ends(o)
    /\ SetPage(o, IF o.kind = "resend" \/ o.at = "failed" THEN Done(o)
                  ELSE [Done(o) EXCEPT !.challenge = o.challenge, !.picked = o.wallet, !.step = "otp"], <<>>)
    /\ UNCHANGED <<mount, mounts, pin, outside, history>>

(* abandonSpentChallenge: the checkpoint is removed, then the page begins  *)
(* again.                                                                  *)
Spent(o) ==
    /\ o.at = "spent"
    /\ LET n == [o EXCEPT !.at = "clearing"]
       IN  Become(o, n) /\ SetPage(o, page, <<Entry(None, n)>>)
    /\ UNCHANGED <<mount, mounts, pin, outside, history>>

Waits(o) == \E i \in DOMAIN queue : queue[i].of = o

Abandon(o) ==
    /\ o.at = "clearing"
    /\ ~Waits(o)
    /\ Ends(o)
    /\ SetPage(o, [Done(o) EXCEPT !.challenge = None, !.cands = {}, !.picked = None,
                                  !.verified = None, !.step = "email"], <<>>)
    /\ UNCHANGED <<mount, mounts, pin, outside, history>>

-----------------------------------------------------------------------------
VerifyOtp ==
    /\ CanVerify
    /\ page.challenge # None
    /\ page.picked # None
    /\ Click(Op("verify", page.challenge, page.picked, "asks"), [page EXCEPT !.loading = TRUE])
    /\ overlapped' = IF ops = {} THEN overlapped ELSE overlapped \union {page.challenge}
    /\ UNCHANGED <<saved, dropped>>

(* The hub accepts the code and consumes the challenge; the answer may be  *)
(* lost.                                                                   *)
HubVerify(o) ==
    /\ o.kind = "verify"
    /\ o.at = "asks"
    /\ IF hub[o.challenge] = "pending"
       THEN \/ /\ Become(o, [o EXCEPT !.at = "failed"])
               /\ UNCHANGED hub
            \/ \E answer \in {"ok", "failed"} :
                  /\ Become(o, [o EXCEPT !.at = answer])
                  /\ hub' = [hub EXCEPT ![o.challenge] = "spent"]
       ELSE Become(o, [o EXCEPT !.at = "spent"]) /\ UNCHANGED hub
    /\ UNCHANGED <<mount, mounts, pin, page, queue, stored, passkeys, sealed, history>>

Verified(o) == [challenge |-> o.challenge, wallet |-> o.wallet]

(* The credentials are written before the password step is shown.          *)
VerifyAnswer(o) ==
    /\ o.kind = "verify"
    /\ o.at \in {"ok", "failed"}
    /\ IF o.at = "failed" THEN Ends(o) /\ SetPage(o, Done(o), <<>>)
       ELSE LET n == [o EXCEPT !.at = "saving"]
                cp == [step |-> "password", challenge |-> o.challenge, picked |-> o.wallet, cands |-> o.cands,
                       verified |-> Verified(o), pin |-> pin, old |-> FALSE]
            IN  Become(o, n) /\ SetPage(o, page, <<Entry(cp, n)>>)
    /\ UNCHANGED <<mount, mounts, pin, outside, history>>

VerifySaved(o) ==
    /\ o.at = "saving"
    /\ ~Waits(o)
    /\ Ends(o)
    /\ SetPage(o, [Done(o) EXCEPT !.verified = Verified(o), !.step = "password"], <<>>)
    /\ saved' = saved \union {o.challenge}
    /\ UNCHANGED <<mount, mounts, pin, outside, dropped, overlapped>>

-----------------------------------------------------------------------------
(* completeRecovery: a passkey wallet gets a passkey of this device first. *)
CompleteRecovery ==
    /\ CanFinish
    /\ page.verified # None
    /\ Click(Op("finish", page.verified.challenge, page.verified.wallet,
                IF page.verified.wallet \in PasskeyOnes THEN "registers" ELSE "seals"),
             [page EXCEPT !.loading = TRUE])
    /\ UNCHANGED history

(* createArchPasskey and createAuthenticators may fail, and so may the     *)
(* activity, or the wait for it.                                           *)
Register(o) ==
    /\ o.at = "registers"
    /\ \/ /\ Become(o, [o EXCEPT !.at = "confirms"])
          /\ UNCHANGED <<page, queue>>
       \/ /\ Ends(o)
          /\ SetPage(o, Done(o), <<>>)
    /\ UNCHANGED <<mount, mounts, pin, outside, history>>

Confirm(o) ==
    /\ o.at = "confirms"
    /\ \/ /\ Become(o, [o EXCEPT !.at = "seals"])
          /\ passkeys' = passkeys \union {o.wallet}
          /\ UNCHANGED <<page, queue>>
       \/ /\ Ends(o)
          /\ SetPage(o, Done(o), <<>>)
          /\ UNCHANGED passkeys
    /\ UNCHANGED <<mount, mounts, pin, stored, hub, sealed, history>>

(* completeOnboarding seals the wallet in place of what was there.         *)
SealWallet(o) ==
    /\ o.at = "seals"
    /\ sealed' = o.wallet
    /\ Become(o, [o EXCEPT !.at = "sealed"])
    /\ UNCHANGED <<mount, mounts, pin, page, queue, stored, hub, passkeys, history>>

Finish(o) ==
    /\ o.at = "sealed"
    /\ Ends(o)
    /\ SetPage(o, [Done(o) EXCEPT !.step = "done"], <<Entry(None, None)>>)
    /\ dropped' = dropped \union {o.challenge}
    /\ UNCHANGED <<mount, mounts, pin, outside, saved, overlapped>>

-----------------------------------------------------------------------------
(* The back button, or the end of a recovery: the page is left and what is *)
(* under way goes on.                                                      *)
Leave ==
    /\ mount # 0
    /\ mount' = 0
    /\ page' = Blank
    /\ IF page.step = "done" THEN UNCHANGED <<queue, dropped>>
       ELSE /\ queue' = Append(queue, Entry(None, None))
            /\ dropped' = Challenges
    /\ UNCHANGED <<mounts, pin, ops, outside, saved, overlapped>>

(* The window closes: callbacks and queue are gone, and of the write that  *)
(* was under way nobody knows whether it came through.                     *)
Close ==
    /\ mount # 0 \/ ops # {}
    /\ mount' = 0
    /\ page' = Blank
    /\ ops' = {}
    /\ queue' = <<>>
    /\ stored' \in {stored} \union (IF queue = <<>> THEN {} ELSE {Head(queue).value})
    /\ UNCHANGED <<mounts, pin, hub, passkeys, sealed, history>>

(* Ten minutes pass: for a challenge, or for a checkpoint nobody renewed.  *)
ChallengeExpires(c) ==
    /\ hub[c] = "pending"
    /\ hub' = [hub EXCEPT ![c] = "spent"]
    /\ UNCHANGED <<mount, mounts, pin, page, ops, queue, stored, passkeys, sealed, history>>

CheckpointAges ==
    /\ stored # None
    /\ mount = 0
    /\ stored' = [stored EXCEPT !.old = TRUE]
    /\ dropped' = dropped \union {stored.challenge}
    /\ UNCHANGED <<mount, mounts, pin, page, ops, queue, hub, passkeys, sealed, saved, overlapped>>

Next ==
    \/ Open \/ WriteNext \/ InitOtp \/ ResendOtp \/ VerifyOtp \/ CompleteRecovery
    \/ Leave \/ Close \/ CheckpointAges
    \/ \E w \in Wallets : Pick(w)
    \/ \E c \in Challenges : ChallengeExpires(c)
    \/ \E o \in ops :
          \/ Restore(o) \/ HubInit(o) \/ InitAnswer(o) \/ HubStart(o) \/ StartAnswer(o)
          \/ Spent(o) \/ Abandon(o) \/ HubVerify(o) \/ VerifyAnswer(o) \/ VerifySaved(o)
          \/ Register(o) \/ Confirm(o) \/ SealWallet(o) \/ Finish(o)

Spec == Init /\ [][Next]_vars

-----------------------------------------------------------------------------
Held(c) == stored # None /\ stored.verified # None /\ stored.verified.challenge = c

(* recovery-session.ts: "The encrypted credential bundle and the ephemeral *)
(* key that decrypts it have to be here, or the next open sends the user   *)
(* back to a dead code".  Once written they stay until the user gives them *)
(* up or the time limit does, however often the window closes ...          *)
VerifiedKept == \A c \in saved \ dropped : Held(c)

(* ... if the code was verified with nothing else under way.               *)
VerifiedSurvives == \A c \in saved \ (dropped \union overlapped) : Held(c)
=============================================================================
