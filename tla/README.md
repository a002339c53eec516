# Arch Wallet Hub: TLA+ models and proofs

This directory is the verification project of the Arch Wallet Hub monorepo: a
Node/TypeScript API that keeps users, wallets, signing requests and an audit
log in Postgres and talks to Turnkey (key custody) and to an Arch node; a
Chrome extension wallet; a swap engine; an SDK. The modules model the parts
where several actors meet (handlers of the API, documents of the extension,
database transactions, remote services that answer late, twice or never).

Contents: 1 the system, 2 the modules and the code they model, 3 the runs,
4 disagreements found, 5 proofs, 6 fairness, 7 bounds, 8 what is not modelled,
9 the plan.

`PROJECT.json` lists the same facts in machine-readable form: components, runs,
the mutants each property is known to catch, the source lines of every
definition (`map`), findings, hazards and theorems.

To check one run: `tlc -workers 2 -config Recovery.cfg MCRecovery`.
To check the proofs: `tlapm SigningRequestsProofs.tla`, and the same with
`AuditChainProofs`, `WalletCreationProofs`, `SocialLoginsProofs`, `RecoveryProofs`,
`WalletLinksProofs`, `SessionsProofs` and `ExtensionProofs`.

## 1. The system

Paths are relative to the repository root. `hub/` stands for
`services/wallet-hub-api/src/`, `ext/` for `apps/chrome-wallet/`.

### Hub API

Every route is a Fastify handler. It does its database work in
`withDbTransaction` blocks (`hub/db/tx.ts`) and calls remote services between
them; nothing spans two blocks but what is in the rows. So an interleaving of
handlers is an interleaving of whole transactions and whole remote calls, and a
handler that dies leaves behind what it committed.

| Component | State | Operations | Hard behaviour | Correct when |
|---|---|---|---|---|
| Signing requests (`hub/routes/signingRequests.ts`, `hub/db/signingRequests.ts`) | rows of `signing_requests`: status, result, error, expiry | create, submit (verify, claim, broadcast, wait, settle), GET (reconcile) | racing submits, process death between claim and outcome, lost node answers, late verdicts | one broadcast; the row says what the node decided; outcomes are final, reach the row, and agree with log and replies |
| Arch node client (`hub/arch/arch.ts`) | none | submit a transaction, poll for its verdict | answer lost, poll times out | a time-out is never an outcome |
| Audit log (`hub/audit/*`, `insertAuditLog`) | `audit_logs`, one hash chain per app | append inside a transaction, verify | concurrent appends, rollback, damaged tables | committed rows are one chain; the verifier accepts exactly what writing makes |
| Embedded wallet creation (`hub/routes/turnkey.ts`, `hub/idempotency/idempotency.ts`) | `idempotency_keys`, `turnkey_resources`, `users.recovery_email`; sub-organizations at Turnkey | passkey wallet, e-mail wallet, import | same key twice at once, sub-organization made and then not stored, lost commits | one sub-organization per key; replies name stored wallets; a key in use is another call's; a taken key settles |
| E-mail recovery (`hub/routes/recovery.ts`, `hub/db/recovery.ts`) | `email_recovery_challenges`: status, attempts, candidates | init, start (mail a code), verify (trade it) | concurrent guesses, two starts writing one JSON column, stale reads across remote calls | attempts counted before they are made; no credentials without the code mailed for that wallet; over is over |
| Auth sessions (`hub/auth/sessionToken.ts`, `hub/routes/authSessions.ts`) | `auth_challenges`, `auth_sessions` | challenge, mint, external challenge and mint, resolve, revoke | two mints of one challenge | a challenge makes one session, for the key it was made for |
| Wallet linking (`hub/routes/walletLinking.ts`) | `wallet_link_challenges`, `linked_wallets` | challenge, verify and upsert | two verifies of one challenge, canonical and legacy Arch address in turn | an address of the wallet is never lost |
| OAuth login (`hub/routes/authOAuth.ts`, `hub/db/identities.ts`) | `users`, `user_identities`, `oidc_replay`, `turnkey_resources`; sub-organizations at Turnkey | sign in, sign up, adopt a residue | two sign-ups of one identity, or of two with one address, while sub-organizations are made; lost commits | a token is used once; a session is of the person the identity belongs to; no half-made person |
| Gateway plugins (`hub/plugins/*`) | rate-limit windows in memory | per-request checks | eviction | the ceiling holds |
| Indexer proxy (`hub/indexer/*`, `hub/routes/indexer.ts`) | a coalescing cache | read-through | shared loads, expiry | no answer older than its TTL and load time |
| Addresses and signatures (`hub/bitcoin/*`, `hub/arch/address.ts`) | none | BIP-322 verification, address derivation | encodings, curve arithmetic | (pure) |
| Platform administration, Turnkey client, database runner | apps, API keys | single statements | - | - |

Interaction: all routes write audit events through `insertAuditLog`; submit and
GET share the signing row and the node; the session plugins stand before the
handlers of every route (`requireSessionForExistingUser` is part of
WalletCreation). Turnkey, the Arch node and the mail it sends are external:
each module models the answers and failures the code distinguishes.

### Extension

Popup, side panel, approval window and service worker are documents of one
origin: they run at the same time, share IndexedDB and `chrome.storage`, and
hear of each other's writes through `onChanged`.

| Component | State | Operations | Hard behaviour | Correct when |
|---|---|---|---|---|
| Wallet sessions (`ext/src/session/SessionManager.ts`) | stamper, account and expiry per document; shared key pair and snapshot; promises that gate calls | open, ensureClient, close, the change listener | rotation of the shared key by another document between two awaits, lock during a registration, documents that close | a session is for the account whose key it holds; calls get a client of their own account |
| Code gate (`ext/src/session/SessionBootstrapper.tsx`) | challenge, stage and code of a mounted component | ask for a code, verify it, cancel, switch or forget the wallet | answers that outlive the gate, another wallet offered for the address, nobody answers | a page goes on for the wallet whose code was entered; no gate waits for ever |
| Hub access (`ext/src/utils/hub-session*.ts`, `sdk.ts`) | hub sessions per account, the one of each client | mint, attach, prune, lock | the map written from a copy, the account switched under way | a stored session is its account's |
| Background (`ext/entrypoints/*`, `ext/src/messaging/pending-requests.ts`) | pending requests, one storage key | request, approve, reject, window closed, alarm | service-worker restart, read-modify-write, time-outs against approvals | a signature is by an account the site was given; an answer is true; nothing stays pending |
| Send pages (`ext/src/pages/Send*`) | the form, the prepared transaction, the parked form | look a name up, prepare, review, confirm, enter a code, retry | answers that are late for the form, account and network switches, lost broadcasts | what is sent is what was reviewed; what is shown as failed is not on the network |
| Wallet state (`ext/src/crypto/keystore.ts`, `ext/src/state/wallet-store.ts`) | sealed blob, salt, session key and its copies, the plaintext state | onboard, unlock, change password, lock, wipe, every setter | a document closes between two writes, two documents write at once | the wallet opens with the last password and holds every change |
| Recovery page (`ext/src/pages/Recover`, `recovery-session.ts`) | the steps of the page, the stored checkpoint | ask for codes, verify, resend, finish, resume | callbacks that outlive the page, writes of the checkpoint out of order | verified credentials are kept; nothing is sealed that Turnkey does not know |
| Windows and the connector (`ext/entrypoints/background.ts`, `content.ts`, `ext/src/wallets/*`, `wallet-autoclose.ts`, `wallet-window.ts`) | the connector window the worker knows, calls in flight, idle alarm, hold count | open or find the connector, ask, answer, time out, close; hold, release, check | two calls open two windows, a window closes between two awaits, a worker restart, counts written by several documents, a user who never answers | every call ends; the document stays while it waits |
| Onboarding (`ext/src/pages/Onboarding`) | the steps of the page, the callback of each flow | passkey, e-mail and external flows, cancel, add a wallet | callbacks that outlive the page, a lock, a second flow beside the first | an account that was written stays; the hub knows its wallet |
| Spending (`ext/src/pages/Approve`, `spend-tracker.ts`, `transfer-gates.ts`, `*coin-select*.ts`) | one log of spends, the caps of each site, balances a page has looked up | gate, record, prune, select coins | lookups that answer after the click, a log written whole by several pages, caps checked before and counted after | who has seen the spends keeps within the cap; what the gates let through the node takes |
| User interface | presentation | - | - | - |

### Packages and infrastructure

SDK (`packages/wallet-hub-sdk/src/client.ts`): one session per client, one mint
in flight, one retry when the hub refuses a session. Swap engine
(`packages/arch-swap-engine`): fixed-point mathematics of quotes (roundings must be
against the trader), a choice between two makers, submission and polling, an
onboarding sequence that is run again after failures; the swap page holds a form, a
quote and a balance that are each of some account and network, and the clicks under
way. UI kit and demo: React
components. Infrastructure: deployment scripts and a security-alert decision
function.

## 2. Modules

| Module | Models |
|---|---|
| `SigningIntent` | abstract: what the hub promises of a signing request |
| `SigningRequests` | the three handlers, the claim, the node; implements `SigningIntent` |
| `SigningRequestsProofs` | theorems about the two, `Swaps`, `SwapOnboarding` and `SwapMath` |
| `AuditRows` | a row of the audit log, its hash, the verifier, JSON storage |
| `AuditChain` | concurrent transactions that append rows; EXTENDS `AuditRows` |
| `AuditChainProofs` | theorems about `AuditChain` and `AuditDamage` |
| `AuditDamage` | what the verifier makes of damaged tables; EXTENDS `AuditRows` |
| `WalletCreation` | idempotency keys and the three wallet routes |
| `WalletCreationProofs` | theorems about `WalletCreation` |
| `SocialLogins` | `POST /auth/oauth` |
| `SocialLoginsProofs` | theorems about `SocialLogins` and `OnboardPage` |
| `RecoveryChallenges` | the three recovery routes on one address |
| `RecoveryProofs` | theorems about `RecoveryChallenges` and `RecoverPage` |
| `AuthSessions` | challenges and session tokens of the hub |
| `WalletLinks` | external wallets linked to a user; EXTENDS `AuthSessions` |
| `WalletLinksProofs` | theorems about the two |
| `WalletSessions` | the session manager of the extension |
| `CodeGate` | the gate that asks for an e-mailed code |
| `HubTokens` | the hub sessions the extension stores and attaches |
| `SdkSessions` | the session of an SDK client |
| `SessionsProofs` | theorems about `WalletSessions`, `CodeGate`, `HubTokens` and `SdkSessions` |
| `Approvals` | requests of web pages, from the page to the answer |
| `Sends` | the pages Send, SendRune and SendInscription |
| `SpendCaps` | daily caps and balance gates of the Approve page |
| `WalletState` | the plaintext of the wallet and its setters |
| `Keystore` | the sealed wallet in several documents; EXTENDS `WalletState` |
| `ExtensionProofs` | theorems about `Approvals`, `Sends`, `SpendCaps` and `Keystore` |
| `RecoverPage` | the recovery page and its checkpoint |
| `OnboardPage` | the onboarding page, from the last click of its wizard |
| `Connector` | the connector window of external wallets, and the hold on auto-close |
| `SwapMath` | quotes of the swap engine: a walk through the ticks of a pool, deposits |
| `Swaps` | the swap page, from the form to the polling of its transaction |
| `SwapOnboarding` | readying an account for swaps |
| `MC*` | model values, finite sets and symmetry for TLC |

Several models of one part of the system share an instance where their states do
not meet: a variable `part` of `MCAudit`, `MCRecovery`, `MCSessions`, `MCSigningRequests`,
`MCSocialLogins` and `MCWallet` says which of them moves in a behaviour while the
others stand still. The state space is the sum of theirs. In `MCWallet` the constant
`Parts` says which of its four models a run takes: `Approvals` alone in `approvals`,
the other three in `pages`.

### SigningRequests

State: `status`, `result`, `error`, `expired` are the columns (`result` tells
apart what the later code distinguishes in `result_json`: nothing, a transaction
id, a settled or a reconciled outcome, a signature; `error` the phase in
`error_json`); `audit` the events of the row in the log; `node` and `sends` the
Arch node; the rest are the local variables of calls. Actions of a submit call
follow the handler's awaits: `SubmitRead` (lookup and its refusals), `Verify`
(readiness and signature), `ClaimLost` / `ClaimMessage` / `ClaimTransfer` (the
conditional UPDATE; for a message the outcome is in the same transaction),
`Broadcast`, `MarkBroadcastFailed` (the catch clause), `RecordTxid`, `Poll`,
`Settle`. `GetRead`, `GetPoll`, `GetMark` are a GET that reconciles. `Die` and
`GetDie` lose a call between any two steps. `markSigningRequestSucceeded` and
`...Failed` write by id alone, as in the code: that outcomes are final is a
consequence of the protocol and not of the statement.

`SigningIntent` knows phases, what was sent, what is acknowledged and what the
chain decided, and no calls. The mapping `Intent` reads the phase off the
status; `ImplementsIntent` is refinement with the intent's own fairness
(a verdict on an acknowledged transaction is concluded).

### AuditRows, AuditChain, AuditDamage

A hash is the sequence of everything hashed into it: equal hashes mean equal
histories, which is what an HMAC without collisions gives. A payload is one of
four kinds, enough to tell apart what canonical JSON and the JSONB column keep;
a `Date` is the kind for which they differ. `AuditChain` has one action per
statement of `insertAuditLog` (advisory lock, tip, INSERT) plus begin, commit
and rollback. `AuditDamage` writes events one after the other and damages the
table in between: rows lost, changed or renumbered, hashes lost, an old backup
restored. Damage is not code; the writer and the verifier it is applied to are.

### WalletCreation

Calls are HTTP requests; a sub-organization is named by the call that made it,
and an idempotency row names the call that inserted it (its body is that row's
request hash, its wallet the stored response). Steps: `Gate` (the session
pre-handlers), `ReadKey` and `InsertKey` (two statements of one transaction
under READ COMMITTED: a row may appear between them and the unique index then
refuses), `AuditRequest`, `CreateSubOrg` (may succeed with its answer lost),
`Finish`, `RecordFailure` (the catch clause), `FindAccount` and `Import`.
`DbFails` rolls a transaction back, `Finish`, `InsertKey`, `AuditRequest` and
`Import` may lose the answer to their COMMIT, `Crash` ends a handler.

### SocialLogins

A person and a sub-organization are named by the call that made them; `Residues`
are persons an older sign-up left without a wallet. Two persons never hold one
address verified (the unique index), so `Owners` has at most one member. Steps:
`Identify` and `FindOwner` (the first transaction, cut after the identity look-up,
as other calls commit between its statements; the row of `oidc_replay` it has
inserted makes a call with the same token wait: `RowFree`), `AuditRequest`,
`CreateSubOrg`, `AuditRefusal`, the transaction that makes the person (`Finish`,
`FinishRejected` when the index refuses the address, `FinishRaced` when the
identity is another's), `AuditRace`, `Login`, `AuditRefusedLogin`, `MintSession`.
`Committed` adds to a transaction the case that its answer is lost. Turnkey logs
a subject in at a sub-organization made for that subject, or fails.

### RecoveryChallenges

Each challenge has a status, an attempt count and, per candidate wallet, the OTP
bound to it and a send count: the `candidates` JSON column. Turnkey is a
sequence of mailed OTPs and the set of those already traded. A verify call is
sent an arbitrary code, that of any OTP mailed so far or a wrong one. The steps
are the transactions and calls of the handlers, with the row locks the code
takes (`recordOtpStart` re-reads under `FOR UPDATE`) and the ones it does not
take (status marked by id).

### WalletSessions

`mem`, `opening` and `ensuring` are the fields of a realm's SessionManager
(`pendingOpen`, `pendingEnsure`), `disk` the key pair in IndexedDB, `snap` the
snapshot in `chrome.storage.session`, `news` the change events a realm has not
heard yet, `owner` the account Turnkey registered each key for. A method is cut
at its awaits. `open` with another account in memory awaits `close()` before it
sets its gate (`Switch`, `SwitchKey`), as the code does. Storage operations whose
errors the code swallows may fail (`MayFail`); `CloseRealm` ends a document
with its calls.

A call that finds a promise of its realm under way joins it without looking at
the account (`Join`, `JoinCall`) and may return another account's client, as in
the code; no property denies that.

### AuthSessions, WalletLinks

A handler is cut at its transactions, at its call to Turnkey and, where a
transaction reads a row before it locks or writes it, inside the transaction
(`locked`, `linkLocked` hold the call that has the row). A signature is a Boolean
of the call; `Genuine` are the resources whose key Turnkey knows. `WalletLinks`
keeps an address by the way it was derived: `canonical` or `legacy`. The upsert
is evaluated against the last committed row, as PostgreSQL does, though the
transaction has read an older one.

### CodeGate, HubTokens, SdkSessions

A gate is a mounted component; its effect (`inits`) and its verifications
(`checks`) go on when it is taken off the screen, with the callbacks of the
render they began in. A check that ran out of its deadline may still succeed
(`late`). `HubTokens` cuts `getClient` and `ensureHubSession` at their awaits; the
map is read whole and written whole. In `SdkSessions` a step ends where a promise
must settle; what settles it and everything that waited are one step.

### Approvals

`page`, `mapped` and `store` are the three places that know of a request: the
promise of the page's channel, the content script's map and the stored map of the
service worker, whose handlers (`tasks`) are cut at every await of the storage.
`window` and `view` are the Approve page up to the account it signs with; what it
shows of a transfer or PSBT is not part of it.

### Sends

One page with its state as a record of what the component keeps, one preparation
and one submission with what their closures captured, the checkpoint of the form
(`parked`, and what it is asked for), and the network (`chain`). `Transaction` is what
a click signs: a prepared bitcoin transaction, or a transfer of the hub to the
address that was reviewed. The closure of a transfer holds the address and the
account, not the network: `handleSubmit` awaits the signing session first (`session`)
and then takes a client, which reads the network of that moment (`GetClient`); for it
the hub builds the transfer, and a retry keeps the client. To broadcast, both kinds ask
for the network once more, so what was made for one network is not taken by the node or
indexer of another (`Acceptable`; of the node an assumption: a transaction carries a
block hash of its network). A submission remembers the network its review, or the
gate of its code, was on (`on`) and whether it was switched before the client was taken
(`switched`). The gate for a code is `NeedCode`, `EnterCode`, `CancelCode`: here a
cancelled gate is gone, and `CodeGate` models that it is not; a verification is awaited
in `session`. Balances, fiat amounts and the choice of coins are left out: a transaction
is whom it pays, how much, on which network.

What holds of a transfer is that it goes where the name in the form led on the network
of its review, and is made there unless the header was switched while the session was
awaited. That it goes where the name leads on the network it is made for does not hold
(`PaidWhereReviewed`, section 4). `FailedIsUnsent` is about bitcoin: a transfer of the
hub whose answer is lost is shown as failed although the network has it, and nothing
reconciles the two.

### SpendCaps

Each page is a stage, what its lookups have answered (`snap`, `cap`), what its last
click closed over (`click`), and its `recordSpend` (`recorder`), which goes on while
the window shows a check mark. `log` is the one list of all sites. A PSBT counts for
the bitcoin cap, a transfer for the ARCH cap, a token transfer for none. `chain` is
what the node holds; `Takes` is its rule on fees and least balances, as
`arch-fee.ts` and `transfer-gates.ts` state it. `spends` notes of each signature
whether its page had seen every earlier spend of the site (`informed`): two pages
open at once pass one cap together, a lookup that fails is no cap, and records
written from a copy drop others, so `CapHolds` speaks of informed pages and of
entries nobody wrote over and no failed read dropped. Watch-only and linked accounts, invalid amounts and the
confirmation of large outflows are left out; the fee is known.

### WalletState, Keystore

`WalletState` has one operator per setter; `Keystore` runs them in realms that are
cut at every await: read the blob, load and import the key, decrypt, write, store
the key, remove the plaintext of an old build. A key is the pair of a password and
a salt; a blob carries its salt beside a ciphertext that opens under one key.
`raced` records that a blob was written over one it was not made from, or a key
stored for a blob that had been replaced: nothing is claimed of a wallet after
that, since the code has no lock between documents.

### RecoverPage

The callbacks of the page are `ops` that ask, are answered and go on, also when
the page has been left; `queue` is the write chain of the checkpoint. `hub` keeps
of a challenge what the page can learn of it; `RecoveryChallenges` is the hub's
own side.

### OnboardPage

A `flow` is the callback that the last click of the wizard starts; it keeps what it
captured (`method`, `adds`, the `mount` it began on) and goes through the awaits of
its method (`After`), also when the page is cancelled, left or opened again. `Seal`
is `completeOnboarding`, which writes a new state over whatever there is;
`ReadState` and `WriteState` are `addAccount`, which reads the state and writes it
back. A flow that ran beside another (`overlapped`) may be written over: nothing is
claimed of it.

### Connector

A call goes from the document through the service worker and the content script to
the page of the provider, and back: `Begin`, the hold (`ReadHold`, `WriteHold`:
read, then write, in a chain per document and interleaved between documents),
`Ensure`, `Get`, `Create`, `Load`, `Send`, `Check`, `Decide` or `PageTimeout`,
`Return`. `tab`, `inFlight` and `alarm` are what the worker keeps, of which only the
alarm outlives `Restart`. `Focus` arms the check of a floating window that has lost
the focus; `Ask`, `Dismiss` and `Stay` are that check. A tick is a minute, the unit
in which the time-outs of the calls (2 to 4) and of the hold (3) differ; timers of
seconds end within one.

### SwapMath

`Walk` is one turn of the loop of `computeSwap`: the next initialized tick of the
three arrays that were fetched, `computeSwapStep` towards it, and the crossing.
Prices are integers over `Q`, as in the code, with a small `Q`; the function that
computes the price of a tick in floating point is a table. A behaviour is a swap and
one back with what it brought, or a deposit and its withdrawal at the same price.
`TurnedA` and `TurnedB` are the exact amounts a move of the price turns over, summed
over the positions rather than over ticks. A walk past the arrays it has fetched
(`blind`) sees a pool without ticks: nothing is claimed of it.

### Swaps, SwapOnboarding

`asking` holds the calls of `useSwapQuote` that have not ended, with what they asked
for; `Current` is the comparison with `requestIdRef`. `balance` says whose balance
the page shows and `load` whose is being read. A click (`tries`) keeps the quote and
what the page showed, and goes through the question whether the surface survives a
loss of focus (linked wallets), the session, the signature, submission and polling.
The engine's network is a module variable which the page sets in an effect; it is
`network` here. In `SwapOnboarding` an account is an account on one network; `exists`
and `atas` are what the chain holds, and a read says that or less. `flow` is
`initialize` with the step it is at; account and token accounts go through the same
steps, `kind` tells them apart. The button "Retry quote" is disabled in the code,
whence there is no action for it.

## 3. Runs

| Run | Question and answer |
|---|---|
| `signing` (`MCSigningRequests`) | Two submit calls race on a transfer and a message request while a client polls and calls die: one broadcast (`AtMostOneBroadcast`), rows that repeat the node (`ReportedAsDecided`), log and replies that agree with the row (`AuditTellsOutcome`, `RepliesHold`), final outcomes (`OutcomeIsFinal`), verdicts that reach the row though the submit call died (`VerdictReachesRow`), refinement of the intent (`ImplementsIntent`). Two clicks on a swap page while quotes, sessions and balances come late and account, network, form or document change: what is signed is what was shown, and a swap shown as done is on the chain (`SwapsAsShown`). Two accounts, one on mainnet, are probed and readied with lagging reads, lost answers and a switch: who is shown as ready is at the chain with all token accounts (`OnboardedIsThere`). Swaps there and back, deposits and withdrawals in pools of one or two positions: a walk brings no more, and takes no less, than the pool has for it (`PoolKeepsUp`). |
| `audit` (`MCAudit`) | Three transactions of up to two events each: the committed log is one chain whatever commits or rolls back (`CommittedRowsChain`). Four events, two steps of damage: the verifier accepts a table exactly when replaying its events writes it (`VerifiesReplays`). Hence a truncated log, or a backup, verifies: the chain detects change, not loss of its end. Two documents call an external wallet within four minutes, with two clicks, restarts or messages: no call leaves its document waiting (`CallsEnd`). |
| `audit_date` | Violated: `HonestLogVerifies` (section 4). |
| `wallets` (`MCWalletCreation`) | Two calls that may share a key, one fault: one sub-organization per key (`OneOrgPerKey`), replies name stored wallets of the same key, user and body, and `in progress` is said of a key another call with this body holds (`TruthfulReplies`), nobody who already owned a credential gets another without a session (`NoLateTakeover`), pending keys settle (`PendingSettles`). |
| `wallet_links` (`MCWalletLinks`) | Four calls of two users, one of whom has a resource, and one external wallet, one fault: a challenge makes one session (`OneSession`), for a user who holds what signed for it (`SessionsAreProven`), and however links race or change derivation the first Arch address of a wallet is kept (`FirstAddressKept`). |
| `social_logins` (`MCSocialLogins`) | Three calls with tokens of two identities that may share an address, a residue, one fault: a token makes one sub-organization and one session (`TokenOnce`), sessions are of the person the identity belongs to (`SessionsProveIdentity`). Three flows of an onboarding page that is opened three times: an account that was written stays on the device, and the hub knows its wallet, unless its flow ran beside another (`StoredStays`). |
| `recovery` (`MCRecovery`) | Hub: two starts and three verifies of one challenge with two wallets, two attempts: guesses never exceed the counted attempts nor those the budget (`GuessesCounted`), credentials go to the holder of the code mailed for that wallet and once (`CredentialsForTheMailed`), a finished challenge stays finished (`OverForGood`). Page: opened twice, for a passkey and an e-mail wallet, with failing calls and closing windows: written credentials stay until they are given up (`VerifiedSurvives`). |
| `wallet_sessions` (`MCSessions`) | Three calls of any kind in two documents for two accounts: sessions and snapshots name the account Turnkey registered the key for (`SessionsTruthful`). Two code gates of two wallets: a page goes on only for a code of its own wallet (`ResumesForVerified`), no gate waits for ever (`WaitsEnd`). Two uses of the hub with a switch and a lock: stored sessions are their account's (`TokensFit`). Three calls of an SDK client: one signature is asked for at a time (`OnePrompt`). |
| `cancel_final` | Violated: `CancelIsFinal` (section 4). |
| `approvals` (`MCWallet`) | A connect and a sign request of one site, two accounts, one of switch, disconnect, lock and restart: signatures are by an account the user gave the site (`SignedByConsent`), a success is one (`SuccessIsTrue`), the stored map empties (`StoreDrains`). |
| `pages` (`MCWallet`) | Two drafts, accounts and networks: what runes, inscriptions and, unless a code was asked for, the hub's transfers pay is what was reviewed; a transfer goes where the name led on the network of its review or code gate, and is made there unless the header is switched while the session is awaited (`PaysAsReviewed`; for Send's bitcoin transactions see section 4). A bitcoin transaction reported as failed is not on the network unless the lookup failed as well (`FailedIsUnsent`). Two realms, two passwords, two operations on the keystore: unless they wrote over one another the wallet opens with the last password and holds every change (`OpensUnlessRaced`). Two approve pages and a cap of one spend: who has seen the earlier spends of a site keeps them within its cap, and the log keeps a day's spends (`CapHolds`); what the balance gates let through, of balances that have not changed, the node takes (`GatesForesee`). |
| `pages_review` | Violated: `SentAsReviewed` (section 4). |

Each property of a passing run has a mutant in `PROJECT.json`: a changed form of
a modelled definition, as a plausible mistake in the code would change it, under
which TLC finds the property violated. The mutated forms stand beside the
definitions they change and are marked as such.

Calls happen once each and then rest, so all runs but the abstract ones stop:
`CHECK_DEADLOCK FALSE`. That nothing is stuck earlier is
`PendingSettles`, `VerdictReachesRow`, `WaitsEnd`, `StoreDrains` and `CallsEnd`.

## 4. Disagreements between code and text

With a run that shows them:

1. An audit payload that holds a `Date` is hashed as `{}` and stored as an ISO
   string, so the verifier refuses an honest log. Two events of the recovery
   routes hold `challenge.expires_at` (`audit_date`).
2. Cancelling the code gate takes it off the screen only. A verification under way
   opens the session and lets the page go on: the request is signed, or the
   transfer submitted, after the user backed out (`cancel_final`).
3. The review of Send shows the form, while the bitcoin transaction was built of
   what the form held at the click; the inputs stay editable until it is ready. The
   other two pages show the transaction (`pages_review`).

Stated as properties of the modules, and violated by them, without a run of their own:

4. `docs/integration/social-login.md` says that a sign-up whose identity a
   concurrent one took answers 409 `identity_raced`, and the code that it leaves
   its sub-organization on the audit chain. With a verified e-mail the unique
   index on the address refuses `createPerson` before the race is noticed: the
   call ends as a 500 and the sub-organization is unrecorded (`RacesAreTold`).
5. `sessionAuth.ts` says that a user who owns a credential attaches another only
   with a session. Two first creations that pass the check before either stores
   its wallet both attach (`AttachNeedsSession`).
6. The comment on `MAX_OTP_SENDS` speaks of total sends. The cap is asked of a
   row read before the mail and counted after it; concurrent first sends and
   sends whose record is lost pass (`SendsCapped`).
7. `SessionManager.close()` is said to revoke the session whichever document
   opened it. A document between registration and the write of its snapshot, or
   whose snapshot was overwritten by another's open, keeps a live session
   (`LockRevokes`).
8. Migration 016 says of `linked_wallets.public_key_hex` that it produced the
   Arch address. The upsert keeps an old key beside a new address
   (`KeyProducedAddress`).
9. `recovery-session.ts` keeps verified credentials so that the next open finds
   them. A resend that was under way when the code was verified answers later and
   takes the page, and its checkpoint, back to the code step (`VerifiedKept`).
10. `pending-requests.ts` says that requests survive a restart of the service
    worker; its start removes them all (`SurvivesRestart`).
11. `keystore.ts` says that locking deletes both copies of the key and that
    unlocking derives it from the password. Another document that reads the key
    between the two deletions keeps it (`LockIsEverywhere`), and a write that read
    the blob before, and the key after, a change of password separates the salt
    from the ciphertext (`PasswordRederives`).
12. A hub session is said to be cached until it expires or the wallet locks. A
    mint under way at the lock writes its session afterwards (`LockDropsTokens`).
13. The SDK is said to mint once for calls refused together. A refusal that
    comes late drops the session another call has just minted (`MintsOnce`).
14. `spend-tracker.ts` takes a cap that is not there for one the user never set. A
    site that connects again is stored with the default permissions, and the caps
    the user had set are gone (`CapStays`).

15. `background.ts` says that the connector is closed on idle. The worker that is
    suspended before the alarm of 90 s has forgotten the window, and a window that
    failed to load, or was opened by the other of two overlapping calls, is not
    known either: they stay (`ClosedOnIdle`).
16. `wallet-autoclose.ts` says that the wallet window is kept up for the duration of
    a task. The hold ends after 180 s, a PSBT may take 240 s; holds of two documents
    are written from copies; a check that has read the flags closes a window that is
    held since (`HeldWhileAsked`).
17. The onboarding page says that the creation was cancelled. The flow goes on, and
    its account is written to the device after the user went back (`CancelledStays`).
18. `swapQuoteByInputToken` is said to quote an exact input. The fee taken off the
    input first is rounded down; a step that reaches its tick has the fee on its own
    input rounded up. The quote may take one unit more than was given
    (`TakesAtMostGiven`: given 3 at a fee of 3 %, paid 4).
19. `engine-config.ts` says that a switch of networks needs nothing but another call of
    `configureEngine`. A swap that was clicked before it is submitted to, or polled
    at, the network of after it (`SwitchNeedsNoMore`).
20. The swap page is said to check the balance before the user is asked to sign. After
    a switch the balance of the account before stays until the new one is read
    (`AsksWithinBalance`).
21. `useArchOnboarding` keeps a token to drop results of an account the user has left.
    `initialize` probes with the callback of the render it began in, so its probe is
    the last one and of the account of before (`StatusIsActives`).
22. The review of a transfer names the network (`Send.tsx:1447-1454`) beside the
   recipient and asks to double-check the details. `handleSubmit` awaits the signing
   session before `getClient` reads the network (`Send.tsx:720-721`, `sdk.ts:39-43`), and
   the switcher of the header stays on screen: a switch during the passkey prompt makes
   and sends, on the new network, a transfer to the address the name has on the old one
   (`PaidWhereReviewed`).

## 5. Proofs

Eight modules hold theorems; they hold for every value of the constants that meets
the named assumptions. Each proves of its component that an invariant stronger than
the properties is inductive (`Inductive`, or a lemma for `Init` and one per action),
lifts it to `Spec => []IInv` (`Invariance`), and reads the properties off it. TLC has
checked each of these invariants on small instances. Several modules prove the
same of further components, as instances under names of their own: `Tokens!`, `Sdk!`
and `Gate!` in `SessionsProofs`; `Pay!`, `Caps!` and `Vault!` in `ExtensionProofs`;
`Page!` in `SocialLoginsProofs` and `RecoveryProofs`; `Swap!`, `Ready!` and `Engine!` in
`SigningRequestsProofs`; `Damage!` in `AuditChainProofs`. A module that proves a run's property EXTENDS the run's
module, so that theorem and run name the same definition. An instance's constants are
substituted by the names there, so its assumptions are stated there too, as an ASSUME,
or as a hypothesis of the theorem.
The values that `MCWallet` gives its constants for TLC are in no proof.

`SigningRequestsProofs`, from `MessagesAssumption` (messages are requests) and
`CallsAssumption` (a call is a submit or a reader): `Invariance` proves
`Spec => []IInv`. The properties are not inductive by themselves: that nobody
broadcasts twice needs that between claim and last write a request has one owner
(`OneOwner`), and what row and node look like while it has one (`OwnersFit`);
that outcomes are final although rows are written by id needs that whoever is
about to write holds the node's own verdict (`OwnersFit`, `ReadersFit`), and that
a broadcast failure excludes a transaction id (`TransfersFit`). One lemma per
action shows that it keeps `IInv`. From it follow `TypeCorrect`, `BroadcastOnce`,
`TruthfulRows`, `TruthfulLog`, `TruthfulReplies`, the action property
`FinalOutcome`, and `ImplementsIntentSafety`: initial states map to initial states
and each step to a step of the intent or a stutter. The module extends `MCSigningRequests`
and proves three more components there, two of them without an assumption. The swap page:
`SwapsFollowTheClick`, by `SwapInv`; whenever the hook waits for nothing its quote is of
the account, the network and the form of the page, since every change of these asks
again and only the last call is heard (`HookFits`), so that a click takes a quote of
what it shows (`ClickFits`). The readying of accounts: `OnboardedAreThere`, by
`ReadyInv`; nothing is removed from the chain (`ChainGrows`), and the flow comes to the
token accounts only after it read the account (`FlowReadies`).

The mathematics of swaps: `PoolsKeepUp`, by `EngineInv` (`EngineInductive`), from the
`EngineOK` of `MCSigningRequests`: finitely many ticks, whose prices rise and lie between
`MinPrice` and `MaxPrice` (so do the floating-point prices of all ticks from
`MIN_TICK_INDEX` to `MAX_TICK_INDEX`); a fee that is a part of what is swapped (`feeRate`
has 16 bits, `FEE_RATE_MUL_VALUE` is a million); positions of natural liquidity whose
lower end is below the upper. `Walked` compares what was paid and brought with the exact
turnover of the positions. That of B is a sum of differences of prices, that of A of
reciprocals; to stay with integers a reciprocal is `Common \div x`, where `Common` is a
number that every price divides (`CommonExists`, `Reciprocals`). Three facts carry
`Walked` through a turn of the walk. Within the range of the active liquidity the
turnover grows by that liquidity times the difference (`MoveIsTurned`), since no end of
a position lies between the tick and the price (`InPlace`), neither before nor after a
crossing (`CrossingNets`, `WalkStaysInPlace`). A step rounds both its amounts against the
trader (`StepDown`, `StepUp`), also where the input ends between two ticks and the next
price is itself rounded (`NextBelow`, `NextAbove`). And the next tick with an end of a
position is the target, as long as the walk sees it (`NextIsFirst`, `TargetAhead`). At
the end `WalkedKeepsUp` goes back from the common denominator to the roundings of the
property, position by position. For a deposit, the liquidity made of an amount is worth
no more than the amount (`LiquidityFromA`, `LiquidityFromB`), and what is given back is
rounded down where what was taken is rounded up (`GivesBackNoMore`). The sums come first:
they may be taken in any order, and a relation that holds of every summand holds of
the sums (`SumCompares`).

`AuditChainProofs`, from the assumptions on row ids, payloads and the lock's free
value: `Invariance` proves `Spec => []IInv`, and from it `TypeCorrect` and
`CommittedChain`. The argument: whoever is between taking the lock and the end of
its transaction holds it (`LockFits`), so nobody else has uncommitted rows, the
tip it has read is still the tip (`TipFits`), and the committed rows followed by
its own are a chain (`VisibleChained`); `ChainGrows` says that an insert on a
chain's tip is a chain. The module extends `MCAudit` and proves the table's damage
there, from `WritesAssumption` and `DamageAssumption` (the bounds are numbers) and
those on rows: `ReplaysVerify`. A hash that was not lost was made over the payload of the
event its row stands for, whatever was damaged since (`DamageInv`, `Written`); so a
row that the verifier passes has the payload the event had, and the table and the
replay of its events agree row by row (`VerifiedIsReplay`, `ReplayIsVerified`). The
replay is a fold; it is unrolled into its turns (`ReplayByTurns`), and if some turn were
wrong there would be a first such turn (`LeastExists`).

`WalletCreationProofs`, from `NoneIsNothing` and `ConstantsOK`: `Invariance` proves
`Spec => []IInv`, and from it `TypeCorrect`, `OneOrgEver`, `RepliesTrue`,
`WalletsExist` and `TakeoverNeedsSession`. A key makes one sub-organization since
whoever has made one, or stands between its key and Turnkey, is the call its row
was inserted by (`KeysOwned`), and rows are never taken over. A replay is true
since a succeeded row stands under the key of its inserter and that call's wallet
is stored (`RowsFit`). That `in progress` is said of another call's key is a second
invariant beside `IInv`: who has not yet inserted a row has none (`TakersFit`), and a
row stays with the call that inserted it (`WaitersFit`, `WaitersKeep`). `HandlerMoves` covers the steps that leave keys, wallets
and Turnkey alone.

`SocialLoginsProofs`, from the assumptions on `None`, residues and tokens: `TokensOnce`
and `SessionsTrue`. Whoever has had something of a token (a place behind its insertion,
a sub-organization, a session) is alone with it (`ClaimsFit`): the insertion into
`oidc_replay` commits with the step that lets the handler go on. A session is of the
identity's person since a handler at its session holds the person the identity has
(`CallFits`) and no step gives an identity to somebody else. An older account is
adopted by one subject only, which needs that whoever has neither identity nor
residue is not on file (`PeopleFit`). The onboarding page has an invariant of its own,
`PageInv`, kept by `PageInductive`: `StoredAccountsStay`. Two flows under way have
overlapped; a flow that makes a new state runs when no account of a lone flow is there
to write over; one that adds an account holds, at its write, every such account in its
copy; and the hub has made the wallet of whoever saves (`FlowFits`).

`RecoveryProofs`, from `LimitsAssumption`: `EveryGuessCounted`, `CredentialsRight` and the
action property `OverStaysOver`. Attempts run ahead of guesses by the calls between
the counting and the question to Turnkey (`Budget`, with the cardinality of that set
of calls); credentials go to the mailed since an OTP of a candidate was mailed for it
(`OtpsFit`), a call at Turnkey holds the one it read (`PlacesFit`), and a code is
traded once (`WinnersFit`). `VerifiedStay` is about the recovery page, from the
`NoneIsNothing` of `MCRecovery` (`None` is no challenge, wallet or checkpoint). Its
invariant `PageInv` follows a code through the callback that verifies it. As long as
that is `Alone`, the spinner keeps every button away, and at its write the queue ends
in entries that carry the credentials, the callback's own among them (`AloneFits`).
Once they are written they are `Live`: the checkpoint carries them, and so does
every write that waits (`Safe`), the page shows them or has yet to read its
checkpoint, and no other callback than a read or the finish is under way (`LiveFits`).
So whatever the closing window leaves of the queue, they are in it. The proof has no
bound on callbacks under way; the run has two.

`WalletLinksProofs`, from the assumptions of `AuthSessions`, `LinkBoundOK` and
`NullIsNoIdentity`: `OneSessionHolds`, `SessionsAreProvenHolds` and
`FirstAddressKeptHolds`. A call at its mint holds the lock of an unspent challenge
(`CallFits`), so that two cannot mint of one; a link was shown by a used challenge of
its user and wallet (`LinksFit`), and the upsert keeps or shifts the first address
whatever row the call had read. `Grown` states what no step undoes, and carries both
through every action.

`SessionsProofs`, from `NoneIsNothing`, `BoundsOK`, `GatesOK` and `OffersOK`:
`SessionsAreTruthful` (a key is registered by the call that made it, for that call's
account, before it enters memory or snapshot: `CallFits`, `KeysFit`);
`TokensAreTheirAccounts` of `HubTokens` (a stale copy that is written back still pairs
every token with the account it was minted for); `OnePromptAtATime` of `SdkSessions`;
`GateResumesForVerified` of `CodeGate` (a verification goes on with the wallet of the
render it began in, and a code of a challenge verifies the wallet it was mailed for).

`ExtensionProofs`:
- Approvals, from `KindOK`, `SiteOK`, `NoneIsNothing`, `MaxEventsOK`: `ConsentToSign`
  and `SuccessesTrue`. What is let through cannot be taken back (`LetThrough`: the
  connection was consented to, or the signature made), and every handler on its way
  to a success knows of it (`TasksFit`).
- The pages that send (`Pay!`), from `DraftsOK` (a draft is something): `PaidAsReviewed`
  and `FailedBitcoinIsUnsent`. A preparation and a submission carry what their closures
  captured; `PayInv` says that the
  transaction held fits the review it was made from (`FormFits`, `Pays`), that a
  submission whose client is not taken is on the network of its review or remembers the
  switch (`Awaits`), that transactions are numbered in the order they are made
  (`Numbered`), and that what is not yet submitted is not on the network (`NotSent`,
  `Submitted`). The bitcoin of Send is excepted from the first theorem, the hub's
  transfers are from the second; of a transfer that waited for a code only the address
  and the network are covered.
- The gates (`Caps!`), from `AsksOK` (requests of natural amounts, funds of any size) and
  `FeesOK` (fee and deposit are natural numbers): `GatesAreExact`: what a click passed it passed with the snapshot it
  closed over (`Passed`), and a snapshot that agrees with the chain foresees it.
- The caps (`Caps!`), from `AsksOK` and `LimitsOK` (limits, the day and the most
  entries are natural numbers): `CapsAreKept`, by `CapsInv` beside `GatesInv`. A gate that
  let a page through was computed of a sum over the log; the spends of the day among
  those it has seen come to no more than that sum, and to less as time passes
  (`WithinCap`), so a page that has seen all of them signs within its cap. From its
  signature to its entry a spend has one recorder and is in nobody's copy of the log
  (`RecorderFits`). What `Prune` leaves out is old, or has `MaxEntries` entries as new
  beside it (`PruneKeeps`), so a spend is in the log unless it was lost on the way
  (`Counted`). Before that come lemmas on the folds: that a sum may be taken in any
  order, grows with its set and is kept by renaming (`SumOfAny`, `SumOfPart`,
  `SumOfImage`), and that the stable sort puts every entry in a place of its own
  (`PlacesFilled`, `NewestFirstSorts`).
- The sealed wallet (`Vault!`): `VaultOpens`, from `NoneIsNeither` (`None` is no password
  and no function) and `EditsOK` (edits are the operations of `WalletState`).
  `OldSalts` are the salts that no seal to come will take; every key and blob that any
  realm holds has old salts, so a new seal makes a key nobody knows. `WriterFits` says
  that while the blob is the one an operation was made from, the salt and the key it
  will write with are that blob's although the code reads both in separate awaits,
  which needs that a key known to a realm is the stored one or gone (`Agrees`,
  `Knows`); `Made` that what it writes is the edit of that blob. Under `raced` nothing is
  claimed.

Type correctness and the inductive invariants are proved and in no run.

Only model-checked:
- liveness (`PendingSettles`, `StoreDrains`, and the others with fairness) and the
  fairness half of the refinement: temporal reasoning about ENABLED is beyond the prover.
  Every invariant and every action property of the passing runs is a theorem.

Induction over data works as far as it can be put as the least counterexample of a
well-founded order (`NatLessThanWellFounded`, `WFMin`): the library's induction theorems
take an operator as a parameter, which the provers cannot instantiate.

## 6. Fairness

- `SigningRequests!FairSpec`: some client polls GET for a submitted request again
  and again, the node answers those polls now and then, and the transaction that
  marks the row commits now and then (strong fairness, as each may fail and be
  retried). Users, submit calls, expiry and the node's decision are not fair.
- `WalletCreation!Spec`: weak fairness of a handler's next step: an awaited
  promise resolves or rejects. Clients, faults and crashes are not fair.
- `CodeGate!Deadlines`: the effect of a gate and a verification end, if nobody
  answers by the deadlines of the code (`withTimeout`, and the request time-out of
  the SDK client). Users and remote services are not fair.
- `Approvals!Fairness`: the event loop gets on with the handlers of each request,
  and the alarm goes off every minute.
- `Connector!Fairness`: what runs goes on, the writes of the hold and the check of a
  window among it; time passes again and again (strong fairness: what takes seconds
  stops the clock). The user and the provider need not answer.
- An `MCSpec` that runs several components assumes the fairness of the component a
  run has a liveness property of, and of no other. In `MCWallet` that is
  `ApprovalsSpec`, with the fairness of `Approvals`.
- The other modules are checked for safety only.

## 7. Bounds

`MaxEvents` (events per transaction), `MaxWrites` and `MaxDamage` (audit damage),
`MaxFaults` (failed transactions, lost commits and crashes in one behaviour),
`MaxKeys` (key pairs made), and the sets of calls. Two calls suffice for each
race in the hub, since the code's protections are pairwise (a conditional UPDATE,
a unique index, a lock); recovery has three verifies so that a budget of two is
exceeded, two starts so that a resend replaces an OTP another call holds, and two
wallets so that a code can be of the wrong one. Social logins have three
calls so that a third may sign in to what two racing ones left, two tokens per
identity and verification so that replay and race differ, and one address, the
interesting case being that it is shared. Sessions need a third call so
that a lock can meet two openings. Audit chains have three transactions so that a
rollback can lie between two commits. In the wallets run one fault per behaviour
is allowed; a creation that fails, dies and is retried by a second call is within
it.

Links: `MaxChallenges`, `MaxLinkChallenges` and `MaxFaults` are 2, 2 and 1; with four
calls a wallet is linked twice in either derivation while a session is minted.
Code gates: two gates, two challenges and two of switch, forget and such
(`MaxGates`, `MaxChallenges`, `MaxEvents`), so that a verification of the first gate
meets the second. Hub tokens: `MaxHubSessions` is 2; SDK: `MaxLost` counts calls that
end or drop their session, three calls so that one is refused late. Sends:
`MaxConfirms` and `MaxEvents` (switches, reopenings and faults) are 1 and 2; the
constraint `Bounded` stops a behaviour when its last submission is over and the page
does not stand at its last step, since nothing can be sent or reported any more.
Spending caps: two pages, `Day` and `MaxEntries` 1 and `MaxTime` 2, so that an entry
grows old and the log is cut; two PSBT pages overlap, one page alone meets
every kind of request, every answer and one change of cap, network or site.
Keystore: `MaxOps` is 2, the pairwise case; the constraint `Bounded` stops
behaviours that the property says nothing about. Recovery page: `MaxMounts` is 2 and the
constraint `TwoAtATime` lets two callbacks be under way; nobody clicks before the
checkpoint has been read, as the page shows nothing to click on until then.
Onboarding: `MaxMounts` is 3, so that a flow of the first page ends on the second or
after the third was opened. Connector: `MaxTime` is the longest time-out, so that
every call can run out; `MaxEvents` is 2, clicks, restarts and close messages
together; one document floats and one does not.
Swaps: `MaxRequests` is 3, so that two quotes are under way together, `MaxEvents` 2
(edits, switches and faults), two clicks, since the end of one enables the button for
the other. Swap onboarding: `MaxProbes` is 3 and `MaxEvents` 2. Swap mathematics: six
ticks, `Q` 16, fees of 0 and 3 in 100, inputs between 1 and 30, and arrays of one tick,
so that a walk crosses several ticks, swaps without liquidity and leaves its arrays.
`MaxKept` is the code's limit of kept recipients and contacts made smaller.

`MaxAttempts` and `MaxSends` are the code's 5 and 3 made smaller; only the
comparison matters.

## 8. Not modelled

- Signature, address and transaction encodings, HMAC and OTP cryptography:
  assumed perfect; the code calls libraries for most of them.
- Formatting of replies, logs and errors; OpenAPI, metrics, CORS and headers.
- Database administration, migrations, deployment, presentation.
- Onboarding: the screens before the last click, the hand-over of a flow to a window
  of its own, plaintext states of old versions; of the windows, `wallet-window.ts`.
- Swaps: the faucet, exact outputs, slippage thresholds, the instructions and account
  encodings of the pool's program, and the program itself.
- In modelled components: the construction of unsigned transactions and display
  hashes; the review login of recovery; the four read-only wallet routes; the
  checks of id tokens, the Arch ID token and the read-only routes of OAuth login.
- Components marked `not_modelled` in `PROJECT.json`: those named below, and
  those that are pure or stateless.

## 9. What is left

Coin selection against a reference definition; the data-loading
pages (Dashboard, History); the indexer proxy's cache and the rate limits; the
security-alert decision.

Theorems worth proving next: that the swap mathematics never divides by zero; the
safety of `Connector`, whose run has a liveness property only.
