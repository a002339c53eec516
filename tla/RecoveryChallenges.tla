------------------------- MODULE RecoveryChallenges -------------------------
(***************************************************************************)
(* E-mail recovery of one address in one app (routes/recovery.ts and       *)
(* db/recovery.ts): POST /recovery/email/init makes a challenge with the   *)
(* wallets of the address as candidates, /start has Turnkey mail a one-time *)
(* password (OTP) for one candidate, /verify trades the code for Turnkey   *)
(* credentials.                                                            *)
(*                                                                         *)
(* A handler takes one step per database transaction or Turnkey call and   *)
(* may be lost at any step.  The audit events of the transactions are left *)
(* out (see AuditChain), and so are the requests that name no row or no    *)
(* candidate and the review login, which touch no row.                     *)
(***************************************************************************)
EXTENDS Naturals, Sequences, FiniteSets

CONSTANTS Challenges,  \* ids of challenges that can be made within one window
          Wallets,     \* candidates of each challenge
          Inits, Starts, Verifies,  \* calls of the three routes
          MaxInits,    \* RATE_LIMIT_MAX_INITS
          MaxAttempts, \* VERIFY_MAX_ATTEMPTS
          MaxSends     \* MAX_OTP_SENDS

ASSUME LimitsAssumption == MaxInits \in Nat /\ MaxAttempts \in Nat /\ MaxSends \in Nat

VARIABLES
  status,    \* status column
  attempts,  \* attempts column
  otp,       \* otpId of each candidate: a place in mails, 0 for null
  count,     \* otpStartCount of each candidate
  late,      \* expires_at lies in the past
  known,     \* challenges whose id some client holds
  mails,     \* Turnkey: the OTPs it mailed, each for a challenge and a wallet
  spent,     \* Turnkey: the OTPs traded for credentials
  guesses,   \* calls of Turnkey's otpAuth for each challenge
  pc,        \* the next step of each call
  at,        \* the challenge and, for /start and /verify, the wallet of each call
  seen,      \* the candidates each start call read first
  held,      \* the OTP each call holds: minted, or to be authenticated
  code,      \* the code a verify call was sent: that of an OTP, 0 for a wrong one
  reply      \* what each call returned

rows == <<status, attempts, otp, count, late>>
turnkey == <<mails, spent, guesses>>
calls == <<pc, at, seen, held, code, reply>>
vars == <<status, attempts, otp, count, late, known, mails, spent, guesses,
          pc, at, seen, held, code, reply>>

Calls == Inits \cup Starts \cup Verifies
Statuses == {"absent", "pending", "consumed", "expired", "failed"}
Candidates == [otp : [Wallets -> Nat], count : [Wallets -> Nat]]
NoCandidates == [otp |-> [w \in Wallets |-> 0], count |-> [w \in Wallets |-> 0]]
Pcs == {"begin", "insert", "tell", "mint", "record", "expire", "count",
        "fail", "reread", "auth", "consume", "end"}
Replies == {"none", "blocked", "challenge", "gone", "wait", "sent", "error",
            "tooMany", "notSent", "unauthorized", "credentials", "lost"}

TypeOK == /\ status \in [Challenges -> Statuses]
          /\ attempts \in [Challenges -> 0..MaxAttempts]
          /\ otp \in [Challenges -> [Wallets -> 0..Len(mails)]]
          /\ count \in [Challenges -> [Wallets -> Nat]]
          /\ late \in [Challenges -> BOOLEAN]
          /\ known \subseteq Challenges
          /\ mails \in Seq(Challenges \X Wallets)
          /\ spent \subseteq 1..Len(mails)
          /\ guesses \in [Challenges -> Nat]
          /\ pc \in [Calls -> Pcs]
          /\ at \in [Calls -> (Challenges \X Wallets) \cup {<<ch>> : ch \in Challenges} \cup {<<>>}]
          /\ seen \in [Starts -> Candidates]
          /\ held \in [Calls -> 0..Len(mails)]
          /\ code \in [Verifies -> 0..Len(mails)]
          /\ reply \in [Calls -> Replies]

Init == /\ status = [ch \in Challenges |-> "absent"]
        /\ attempts = [ch \in Challenges |-> 0]
        /\ otp = [ch \in Challenges |-> NoCandidates.otp]
        /\ count = [ch \in Challenges |-> NoCandidates.count]
        /\ late = [ch \in Challenges |-> FALSE]
        /\ known = {}
        /\ mails = <<>>
        /\ spent = {}
        /\ guesses = [ch \in Challenges |-> 0]
        /\ pc = [c \in Calls |-> "begin"]
        /\ at = [c \in Calls |-> <<>>]
        /\ seen = [c \in Starts |-> NoCandidates]
        /\ held = [c \in Calls |-> 0]
        /\ code = [c \in Verifies |-> 0]
        /\ reply = [c \in Calls |-> "none"]

Goto(c, step) == pc' = [pc EXCEPT ![c] = step] /\ UNCHANGED reply
Return(c, what) == /\ pc' = [pc EXCEPT ![c] = "end"]
                   /\ reply' = [reply EXCEPT ![c] = what]

\* The challenge and the wallet of a call.
Challenge(c) == at[c][1]
Wallet(c) == at[c][2]

\* Ten minutes after the challenge was made.
Lapse(ch) == /\ status[ch] # "absent"
             /\ ~late[ch]
             /\ late' = [late EXCEPT ![ch] = TRUE]
             /\ UNCHANGED <<status, attempts, otp, count, known, turnkey, calls>>

-----------------------------------------------------------------------------
(* POST /recovery/email/init *)

Recent == {ch \in Challenges : status[ch] # "absent"}

\* countRecentChallenges; an address without a wallet gets an empty answer too.
InitCount(c) == /\ pc[c] = "begin"
                /\ \/ Return(c, "blocked")
                   \/ Cardinality(Recent) < MaxInits /\ Goto(c, "insert")
                /\ UNCHANGED <<rows, known, turnkey, at, seen, held, code>>

InitInsert(c, ch) ==
  /\ pc[c] = "insert"
  /\ status[ch] = "absent"
  /\ status' = [status EXCEPT ![ch] = "pending"]
  /\ at' = [at EXCEPT ![c] = <<ch>>]
  /\ Goto(c, "tell")
  /\ UNCHANGED <<attempts, otp, count, late, known, turnkey, seen, held, code>>

\* The tokens of the candidates are written and the client learns them.
InitTell(c) == /\ pc[c] = "tell"
               /\ known' = known \cup {Challenge(c)}
               /\ Return(c, "challenge")
               /\ UNCHANGED <<rows, turnkey, at, seen, held, code>>

-----------------------------------------------------------------------------
(* POST /recovery/email/start *)

\* shouldThrottleResend, for a candidate that has an OTP: the cap, or the
\* cooldown of thirty seconds, which may or may not have passed.
MustThrottle(ch, w) == otp[ch][w] # 0 /\ count[ch][w] >= MaxSends
MayThrottle(ch, w) == otp[ch][w] # 0

\* classifyRecoveryChallengeAvailability of the row a call has read.
Classify(c, ch) == \/ status[ch] # "pending" /\ Return(c, "gone")
                   \/ status[ch] = "pending" /\ late[ch] /\ Goto(c, "expire")
Available(ch) == status[ch] = "pending" /\ ~late[ch]

ReadRow(c, ch, w) == /\ pc[c] = "begin"
                     /\ ch \in known
                     /\ at' = [at EXCEPT ![c] = <<ch, w>>]

StartRead(c, ch, w) ==
  /\ ReadRow(c, ch, w)
  /\ seen' = [seen EXCEPT ![c] = [otp |-> otp[ch], count |-> count[ch]]]
  /\ \/ Classify(c, ch)
     \/ Available(ch) /\ MayThrottle(ch, w) /\ Return(c, "wait")
     \/ Available(ch) /\ ~MustThrottle(ch, w) /\ Goto(c, "mint")
  /\ UNCHANGED <<rows, known, turnkey, held, code>>

\* The row is marked by its id, whatever its status is by now.
Expire(c) == /\ pc[c] = "expire"
             /\ status' = [status EXCEPT ![Challenge(c)] = "expired"]
             /\ Return(c, "gone")
             /\ UNCHANGED <<attempts, otp, count, late, known, turnkey, at, seen, held, code>>

\* initOtpAuth: Turnkey mails an OTP or refuses; its answer may be lost.
Mint(c) ==
  /\ pc[c] = "mint"
  /\ \/ /\ mails' = Append(mails, at[c])
        /\ held' = [held EXCEPT ![c] = Len(mails')]
        /\ Goto(c, "record")
     \/ /\ mails' = Append(mails, at[c])
        /\ Return(c, "error") /\ UNCHANGED held
     \/ Return(c, "error") /\ UNCHANGED <<mails, held>>
  /\ UNCHANGED <<rows, known, spent, guesses, at, seen, code>>

\* Mutated forms: the candidates read before the mail are written back; the
\* new OTP is bound to every candidate.
RecordStartUnlocked(c) ==
  LET ch == Challenge(c)  w == Wallet(c) IN
  /\ pc[c] = "record"
  /\ otp' = [otp EXCEPT ![ch] = [seen[c].otp EXCEPT ![w] = held[c]]]
  /\ count' = [count EXCEPT ![ch] = [seen[c].count EXCEPT ![w] = @ + 1]]
  /\ Return(c, "sent")
  /\ UNCHANGED <<status, attempts, late, known, turnkey, at, seen, held, code>>

RecordStartForAll(c) ==
  LET ch == Challenge(c)  w == Wallet(c) IN
  /\ pc[c] = "record"
  /\ otp' = [otp EXCEPT ![ch] = [v \in Wallets |-> held[c]]]
  /\ count' = [count EXCEPT ![ch][w] = @ + 1]
  /\ Return(c, "sent")
  /\ UNCHANGED <<status, attempts, late, known, turnkey, at, seen, held, code>>

\* recordOtpStart on the row, read again under its lock.
RecordStart(c) ==
  LET ch == Challenge(c)  w == Wallet(c) IN
  /\ pc[c] = "record"
  /\ otp' = [otp EXCEPT ![ch][w] = held[c]]
  /\ count' = [count EXCEPT ![ch][w] = @ + 1]
  /\ Return(c, "sent")
  /\ UNCHANGED <<status, attempts, late, known, turnkey, at, seen, held, code>>

-----------------------------------------------------------------------------
(* POST /recovery/email/verify *)

VerifyRead(c, ch, w) ==
  /\ ReadRow(c, ch, w)
  /\ \E guess \in 0..Len(mails) : code' = [code EXCEPT ![c] = guess]
  /\ \/ Classify(c, ch)
     \/ Available(ch) /\ attempts[ch] >= MaxAttempts /\ Goto(c, "fail")
     \/ Available(ch) /\ attempts[ch] < MaxAttempts /\ otp[ch][w] = 0 /\ Return(c, "notSent")
     \/ Available(ch) /\ attempts[ch] < MaxAttempts /\ otp[ch][w] # 0 /\ Goto(c, "count")
  /\ UNCHANGED <<rows, known, turnkey, seen, held>>

\* Mutated forms: the UPDATE lost one of its conditions.
CountableOfAnyStatus(ch) == attempts[ch] < MaxAttempts
CountableUncapped(ch) == status[ch] = "pending"

\* incrementRecoveryAttemptIfUnderCap: one UPDATE with both conditions.
Countable(ch) == status[ch] = "pending" /\ attempts[ch] < MaxAttempts

CountAttempt(c) ==
  LET ch == Challenge(c) IN
  /\ pc[c] = "count"
  /\ \/ Countable(ch) /\ attempts' = [attempts EXCEPT ![ch] = @ + 1] /\ Goto(c, "reread")
     \/ ~Countable(ch) /\ UNCHANGED attempts /\ Goto(c, "fail")
  /\ UNCHANGED <<status, otp, count, late, known, turnkey, at, seen, held, code>>

\* Too many attempts; again the row is marked by its id.
MarkFailed(c) == /\ pc[c] = "fail"
                 /\ status' = [status EXCEPT ![Challenge(c)] = "failed"]
                 /\ Return(c, "tooMany")
                 /\ UNCHANGED <<attempts, otp, count, late, known, turnkey, at, seen, held, code>>

\* A resend may have bound another OTP since the row was read.
Reread(c) == /\ pc[c] = "reread"
             /\ held' = [held EXCEPT ![c] = otp[Challenge(c)][Wallet(c)]]
             /\ Goto(c, "auth")
             /\ UNCHANGED <<rows, known, turnkey, at, seen, code>>

\* otpAuth: Turnkey takes the code of the OTP it is asked about, once.  Any
\* other code, an error and a lost answer are one to the handler.
Auth(c) ==
  /\ pc[c] = "auth"
  /\ guesses' = [guesses EXCEPT ![Challenge(c)] = @ + 1]
  /\ \/ /\ code[c] = held[c] /\ held[c] \notin spent
        /\ spent' = spent \cup {held[c]}
        /\ Goto(c, "consume") \/ Return(c, "unauthorized")
     \/ UNCHANGED spent /\ Return(c, "unauthorized")
  /\ UNCHANGED <<rows, known, mails, at, seen, held, code>>

\* The user may be gone; otherwise the challenge is consumed, by its id.
Consume(c) ==
  /\ pc[c] = "consume"
  /\ \/ /\ status' = [status EXCEPT ![Challenge(c)] = "consumed"]
        /\ Return(c, "credentials")
     \/ UNCHANGED status /\ Return(c, "unauthorized")
  /\ UNCHANGED <<attempts, otp, count, late, known, turnkey, at, seen, held, code>>

Die(c) == /\ pc[c] \notin {"begin", "end"}
          /\ Return(c, "lost")
          /\ UNCHANGED <<rows, known, turnkey, at, seen, held, code>>

-----------------------------------------------------------------------------
Next == \/ \E ch \in Challenges : Lapse(ch)
        \/ \E c \in Inits : \/ InitCount(c) \/ InitTell(c)
                            \/ \E ch \in Challenges : InitInsert(c, ch)
        \/ \E c \in Starts : \/ Mint(c) \/ RecordStart(c)
                             \/ \E ch \in Challenges, w \in Wallets : StartRead(c, ch, w)
        \/ \E c \in Verifies : \/ CountAttempt(c) \/ MarkFailed(c)
                               \/ Reread(c) \/ Auth(c) \/ Consume(c)
                               \/ \E ch \in Challenges, w \in Wallets : VerifyRead(c, ch, w)
        \/ \E c \in Calls : Expire(c) \/ Die(c)

Spec == Init /\ [][Next]_vars

-----------------------------------------------------------------------------
(* Properties *)

\* Every guess at a code is counted before it is made, and a challenge allows
\* no more than its budget, however many verify calls race or die.
GuessesCounted == \A ch \in Challenges : guesses[ch] <= attempts[ch] /\ attempts[ch] <= MaxAttempts

\* Every start that answered is counted once for its own candidate: starts
\* of one challenge do not overwrite each other.
StartsCounted ==
  \A ch \in Challenges, w \in Wallets :
     count[ch][w] = Cardinality({c \in Starts : reply[c] = "sent" /\ at[c] = <<ch, w>>})

\* Credentials go to a call that has the code mailed for that very challenge
\* and wallet, and a code brings them to one call only.
CredentialsForTheMailed ==
  \A c \in Verifies : reply[c] = "credentials" =>
     /\ code[c] \in spent
     /\ mails[code[c]] = at[c]
     /\ \A d \in Verifies : reply[d] = "credentials" /\ code[d] = code[c] => d = c

\* A challenge that is over allows no more attempts and is never pending
\* again, though calls that read it earlier may still mark it.
OverForGood ==
  [][\A ch \in Challenges : status[ch] \in {"consumed", "expired", "failed"} =>
        status'[ch] \notin {"absent", "pending"} /\ attempts'[ch] = attempts[ch]]_vars

\* Comment on MAX_OTP_SENDS: total OTP sends per challenge candidate, the
\* first and the resends, are capped.
SendsCapped ==
  \A ch \in Challenges, w \in Wallets :
     Cardinality({i \in 1..Len(mails) : mails[i] = <<ch, w>>}) <= MaxSends
=============================================================================
