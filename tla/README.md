# True Handshake: models, checks and proofs

True Handshake listens to two people negotiating, has a *witness* (a language
model) propose a structured reading of what they agreed, asks both to confirm
it, takes the money into escrow, releases it after delivery, and leaves a public,
hash-chained receipt. This directory holds TLA+ modules of the parts of that
program that decide something, TLC configurations that check them on small
instances, and proofs, checked by TLAPS, for every instance.

Paths below are relative to `src/`. `state.rs`, `chain.rs`, `terms.rs` are in
`crates/th-domain/src`, `service.rs`, `ports.rs` in `crates/th-app/src`, `pg.rs`,
`settlement.rs` in `crates/th-infra/src`, `lib.rs` of the worker in
`crates/th-jobs/src`, `routes.rs`, `views.rs` in `crates/th-api/src`.

## 1. Inventory

| Component | State it keeps | Operations | Talks to |
|---|---|---|---|
| Deal state machine (`state.rs`) | none: a pure function of deal, command, actor, instant | the arms of `transition()` | called by the service |
| Application service (`service.rs`) | the locals of requests in flight | `apply`, `seal`, `fire_task`, one method per request, `receipt` | repositories, escrow, task queue, witness, signer |
| Deal repository (`pg.rs`) | rows of `deals`, `events`, `attestations` | `create`, `load`, `chain_head`, `commit`, `rename_parties`, `attestations` | PostgreSQL |
| Session repository, audio store (`pg.rs`) | rows of `witness_sessions`, `audio_objects` | `create`, `load`, `append`, `attach_audio`, `set_speakers`, `close`; `put` | PostgreSQL |
| Task queue (`pg.rs`) and worker (`th-jobs`) | rows of `scheduled_tasks`, the claimed batch | `apply`, `claim_due`, `complete`, `fail`; `tick` | PostgreSQL, `fire_task` |
| Mock escrow (`settlement.rs`) | rows of `ledger_holds`, `ledger_entries` | `hold`, `release`, `refund` | PostgreSQL |
| Attestation chain (`chain.rs`, `web/src/lib/verify.ts`) | none | `seal`, `verify_chain`; `verifyReceipt`, `verifyTermsHash` | service, receipt page |
| Public receipt (`service.rs`, `Receipt.tsx`) | the page somebody looks at | two queries, then verification | repositories |
| Capture page (`Witness.tsx`, `recorder.ts`, `speech.ts`) | lines, recorder, recognizer, the draft in `localStorage` | listen, pause, type, delete, read the conversation, reload | HTTP routes |
| Devices and tokens (`tokens.ts`, `Deal.tsx`) | tokens and active role in `localStorage`, the page's hooks | load, confirm, correct, switch side, hand over | HTTP routes |
| Witness (`claude.rs`, `offline_witness.rs`, `witness.rs`, `terms.rs`) | none | `extract`, `identify`; `is_proposable`, `validate` | HTTP, regular expressions |
| Canonical JSON, money, ids, signer | none | formatting, hashing, signing | everywhere |
| Routes, views, binary (`th-api`) | none | parse, call the service, render | service |

**What is hard.** Every request of the service is a sequence of awaits, and
nothing is locked between them: the deal is loaded, money is taken, the chain
head is read, the transition is committed, the timers are written and the money
is moved by separate statements. Other requests and the timer worker run in
between; any statement may fail, a dropped connection drops its handler and a
process may die. The worker leases tasks instead of locking deals. What keeps
this together is a version predicate and a unique key in one transaction,
idempotence of the settlements, and the state machine's refusal of commands that
come too late; whether that is enough is what the models ask.

The client has the same difficulty on a smaller scale: the recorder, the
recognizer, the four awaits of a reading, the polls and the taps of two people
are callbacks of one page, a page can be reloaded at any of them, and a phone is
passed from hand to hand while an answer for the other party is on its way to it.
And what the two talk about is read by a scanner or a model, whose answer is
anything. `PROJECT.json` lists each such hazard at its line, under `hazards`, with
the properties that cover it or the reason why none does.

**What makes each part correct.**

* *State machine*: money is held once and settled at most once, to the side the
  closing state names; terms are hashed exactly when both parties confirmed one
  revision of them, with nothing corrected in between; frozen terms and closed
  deals stand; money is released after the buyer's hold and on a receipt the
  seller did not confirm, on the mediator's ruling, or past a dispute that was
  withdrawn; a receipt confirmed by a timer says so.
* *Deadlines*: in each state exactly the right timer is armed, for the full window,
  and no deal that awaits somebody hangs.
* *Service*: racing requests serialise into transitions; money is never recorded
  before it is taken nor moved before it is recorded; the chain does not fork; the
  system acts only on a deadline that has passed.
* *Escrow*: the price lies with one holder, goes into escrow once, and leaves it
  once, to whom the record names.
* *Capture*: what was closed, attested or frozen does not change afterwards; a
  session is closed only behind an accepted proposal; the sound it refers to exists.
* *Witness*: the price proposed is the last one heard when the deal was closed; no
  malformed answer becomes terms; a voice is named by its own words.
* *Clients*: what binds is what both had on the screen; a receipt verifies as
  served and names what was frozen; a copy that verifies, under the platform's
  signature if not by its hashes alone, has the payloads that were issued, in their
  order. It may be cut short, and what is not hashed (who acted, how, when, which
  key) may have been edited: no check looks at it.
* *Capture page*: what was heard is kept until the deal is proposed and read once
  for each attempt, and the recording contains what was said.
* *Devices*: nobody confirms in the other's name, and confirmations made on one
  device are never labelled independent.

## 2. Modules

```
              Deal                          transition(), arm by arm
   ____________|_______________________________________
   |              |               |                   |
DealLifecycle  HandshakeService  CaptureSession    Devices   CapturePage
   |      |        |  implements                      |______|
DealDeadlines  Clients   DealLifecycle, Custody       WebClient

Witness                                     the two readers, pure
   |
Reading                                     a session read and proposed
```

An edge is EXTENDS. `HandshakeService` has `INSTANCE DealLifecycle` and
`INSTANCE Custody` as what it implements. `DealLemmas` extends `Deal`; each
`*Proofs` module extends the module it is named after and `DealLemmas` (or, for
`DealDeadlines` and `Clients`, `DealLifecycleProofs`; `ReadingProofs` needs nothing
of the deal). `MC*` modules add model values, symmetry and
initial states for TLC.

### Deal: `state.rs`

No variables. Each arm of `transition()` is an operator of the same name that
returns the *set* of transitions it allows: a singleton, or the empty set where
the code returns an error. A transition carries the new deal, the timer requests
in order, the settlement intent and the attestation's action, as the struct
`Transition` does. `Transition` is the union of the arms: they are mutually
exclusive, so the order of the `match` does not matter, and a terminal deal
matches none. Terms are opaque (`Terms`); a reading that fails
`terms.validate()` is `NoTerms` (what `validate` asks is in `Witness`).
`CanonicalHash` is injective and says nothing else about what it hashes. Texts,
amounts and photographs are left out. Windows are constants in `Nat \ {0}`; the
code's are hours and days.

`RequestsUpTo` pairs each command with the actors whose requests carry it: the
proposal runs as System, the resolution of a dispute as Mediator, everything
else as the party whose token came along (`role_for`, `routes.rs`).

### DealLifecycle: the abstract specification

One deal, its chain, the settlements asked for, a clock. `Accept` is one accepted
command: deal, chain and settlements move in one step. `Next` takes any command
of any actor, decided as of any instant between the last attestation and now, and
lets the command of any timer fire at any time. This is what the rest of the
program promises and is shown to implement.

### DealDeadlines: the timers of a deal nobody disturbs

The statements a deadline goes through, one step each: the commit leaves the timer
requests of the transition to do (`TimedAccept`, `todo`), `ApplyTimer` writes one of
them, `ClaimDue` takes what is due, `FireTask` sends its command to the deal as it is
then, `CompleteTask` marks the row. A request or a sweep starts when nothing else
is under way, and nothing fails: what is asked here is whether the arms of
`transition()` request the right timers and whether deals then move on. Claimed
rows stay pending until they are completed, and the last request of a kind wins, as
in `pg.rs`. Overlaps, leases and faults are the subject of `HandshakeService`; the
branch of `FireTask` in which the deal no longer takes the command is reached only
there.

### HandshakeService: one deal as it runs

Processes (`Procs`) run requests and sweeps, one await per step:

| Action | Code |
|---|---|
| `Receive`, `FireTask`, `Decide` | load the record, read the clock, `transition()` |
| `LookupHold`, `InsertHold` | the two statements of `MockEscrow::hold`; the second one writes the ledger entries too, and finds the row when another request was first |
| `Seal` | `chain_head`, outside the transaction |
| `Commit` | one transaction: version predicate, unique `(deal_id, seq)` |
| `ApplyTimer` | one statement of `TaskQueue::apply` per timer request |
| `Settle` | `release` or `refund` on the handle loaded at the start: the state of the hold and the two ledger entries in one transaction |
| `ClaimDue`, `CompleteTask`, `FailTask` | the worker over `scheduled_tasks`, with leases |
| `StorageError`, `Die` | a statement fails; a handler is dropped, a process dies, a sweep ends |

`ledger` is `ledger_entries` added up per account, as `balance_check` does, in
units of the price. Deals share no rows, so one deal suffices. Loading the record
is merged with deciding: nothing is awaited between reading the clock and
deciding, and a deal that moved between load and decision is refused by the
version predicate exactly as one that moved later. The batch limit and the order
of a batch are any order.

### Custody: what the escrow promises

Two variables: who holds the money, and whom the record names. `HandshakeService`
implements it with `holder` read off the ledger and `verdict` off the closed
deal, not off the state of the hold, so that a retried or raced settlement that
wrote its entries twice would break it.

### CaptureSession: from the conversation to the reading

The rows of the session, the recordings, the labels of the deal and what the
proposal's attestation commits to. Requests run one statement per step: append
(read, then write back unless closed), upload (store the bytes, then point the
session at them), identification and confirmation of speakers, the proposal
(load, model call, command on the deal, rename, close), corrections with the
rename behind them. A command on the deal is one step: that `apply()` behaves
like one is what `HandshakeService` shows. The witness answers with any reading.

### Witness and Reading: how a conversation becomes terms

`Witness` has no variables: the offline scanner (`OfflineExtract`, a fold of
`Turn` over the transcript), its identification of voices, the gates an answer of
the Claude API passes (`Call`, `IntoDomain` with `MoneyNew`) and those of the
domain (`IsProposable`, `Validate`). Words are abstracted to what the readers look
for in them (`Phrases`): the numbers of a phrase, whether it closes the deal, the
name its speaker gives. Every loop of the code is a fold with its body as an
operator (`Turn`, `Priced`, `Bind`). A number may be negative: that is what a
figure too long for 64 bits can wrap to, and the scanner drops it. The currency of
an answer is its length and its capitals (`Spellings`): the code takes any three
bytes, and `Money::new` any three letters (`Codes` in the run has one no standard
knows). `Reading` talks, identifies and proposes with either witness; its
requests are atomic, because `CaptureSession` is about their interleavings. Which
numbers are prices is the scanner's own rule (`Plausible`), in its properties too:
they say which of the prices heard is proposed, not that every price is heard.

### Clients: screens, receipts, verification

Composes `DealLifecycle` with what people see. `Show` is a poll, `ConfirmShown`
the button, which names the revision of the screen it is on; `DealMoves` is every
other step of the lifecycle. The receipt is two queries (`LoadRecord`,
`LoadAttestations`) with anything in between. A hash is the sequence of what was
hashed into it, so that two hashes are equal only when their inputs are.
A `Link` has action, actor, instant and key beside its payload, and hashes the
payload alone, as `seal` does; what each arm of `transition()` puts into it is
`PayloadOf`. A signature is by a key over a hash. `VerifyChain` is `chain.rs`,
`VerifyReceipt` is `verify.ts` with its verdict on each signature: a link without
one, or a browser without Ed25519, is not judged, and a service without a published
key is refused. `Copies` are the alterations the tests of `chain.rs` name and those
of fields outside the hashes; `Forgeries` have their hashes put together again, for
this deal or another, with the signatures taken along or made with another key.

### CapturePage: the page two people talk to

Lines, draft, recognizer, recorder and the request under way are the state of
`Witness.tsx` and its two hooks; `session` is what the service keeps of it. The
recognizer delivers late (`Recognize` whenever it has something pending), the
recorder hands its tape over once (`PressRead`), and `readConversation()` is one
step per await. `Fail` covers a request lost on its way out or its answer lost on
the way back; `Reload` brings back the lines from the draft and nothing else, and
may leave a request behind that the service gets to whenever it likes
(`LateRequest`; one at a time). Phrases are numbers in the order they were said,
negative if typed; a line edited by hand stays the phrase it was. `kept`, `mishaps`
are histories.

### Devices and WebClient: phones and tokens

A page is a record of its hooks and the answers on their way to it; `Load` and
`Act` put an answer on its way, `Loaded` takes any of them, in whatever order,
files its token and turns the page to its role. `Confirm` sends the revision on
the screen, with the token of `TokenOf` and the flag `SameDevice`. `WebClient`
puts the two together: the proposal that closes the session is the first command
on the deal, the first phone goes on to the deal's page, and another phone takes
part if the link was shared. In this composition a command is one step
(`HandshakeService`), and terms are records of price and names (`Reading` says
where they come from).

## 3. Runs

### Runs that pass

| Run | Question | Bounds | States |
|---|---|---|---|
| `lifecycle` | Does every path of commands, disputes and timers keep money, terms and chain in step? | two readings, people act below version 8, clock 0..1 | 341 thousand |
| `deadlines` | While requests and sweeps follow one another, do the arms leave exactly the right deadline armed, and does no deal hang? | one reading, version 6, people act up to instant 1, clock 0..5, release hold 2, other windows 1 | 171 thousand |
| `service_agreement` | From a new deal up to custody: do racing requests and sweeps with faults serialise into the lifecycle? | two processes, version 4, one fault | 1.4 million |
| `service_money` | From frozen terms to payout: does the system wait for a deadline, is money never recorded untaken nor moved unrecorded, and does the ledger pay once and right? | two processes, one fault, clock past the windows | 1.3 million |
| `capture` | With uploads, proposals and corrections in flight, does what is closed, attested or frozen stand? | two requests at a time, two readings with different names, two phrases, one recording, version 4, one fault | 2.0 million |
| `clients` | With stale screens and receipts read in two queries: is what binds what both saw, and what does a receipt prove that verifies? | two readings, version 4, attestations at one instant | 237 thousand |
| `reading` | Whatever is said and answered, are the terms proposed well-formed, and is the scanner's price the last one before the close? | three phrases of seven contents, two voices or none; model answers with up to two defects, in a currency that is known, unknown or not three bytes | 278 thousand |
| `web_client` | Through pauses, failed readings, reloads and phones passed around: is what was heard kept, and read once per attempt, and does everybody confirm in their own name? | three phrases, one mishap, two phones, one load under way at once, version 4, two prices, two names | 933 thousand |

Every property of these runs has a mutant in `PROJECT.json`: a plausible bug in
one mapped definition that the run finds. The mutated forms are the operators
introduced by "Mutation of ..." in the modules.

*Why the bounds are enough.* `MaxVersion` counts accepted commands. The shortest
full life of a deal (proposal, two confirmations, funding, handoff, receipt,
release) takes seven; a dispute, its withdrawal and the release fit below eight as
well, and timers are not bounded by it, they run on. Two readings are what it
takes to confirm one and freeze another. Two processes and one fault are what
each overlap in the list of hazards needs: every one of them is a pair of calls,
or a call and a crash. `service_money` starts in a state reached by an undisturbed
agreement (`InitAgreed`), because the paths before it are those of
`service_agreement`. `clients` and `web_client` stop at the freeze or the end of an
unfunded deal: no later step touches terms, screens, tokens or the shape of the
chain. Version 4 of `web_client` leaves room for one correction between the
confirmations. Three phrases are a price, a close and one that must not count, or
one before, during and after a press of the button. In `web_client` one load is
under way on a page besides the answer of a tap (`Act` adds its own). Deadlock is
not checked because deals end and bounds stop people.

The type invariants of `CaptureSession` and `HandshakeService` are in no run; they
are part of the invariants proved (section 4).

### Runs that find a violation

Each checks one sentence of the documentation or of a comment that the code does
not keep; `findings` in `PROJECT.json` quotes them.

| Run | Sentence | What happens |
|---|---|---|
| `stale_timer` | a late timer "does the right thing or nothing" (README.md) | `Expire` does not say which window ran out: a funding deadline claimed just before the buyer funds refunds the funded deal at once |
| `stranded_hold` | of an unfunded deal "no money moved"; a failed commit is retried (`state.rs`, `service.rs`) | a cancellation overtakes the commit of a funding request: the money stays in escrow and no deal records it |
| `hanging_hold` | "Deals cannot hang" (README.md); timers commit with the transition (`ports.rs:76-78`) | a late cancel, or the completion of an earlier firing, hits the release hold a withdrawn dispute has re-armed |
| `unagreed_terms` | the receipt carries terms "only once both parties are bound by them" (`service.rs`) | a deal called off before both confirmed is neither Draft nor PendingAgreement, and its receipt publishes the terms |

`hanging_hold` runs without faults: the same gap between commit and timers also
loses a deadline when a process dies in it.

### Refinements

| Property | Says | Run | Proved |
|---|---|---|---|
| `ImplementsLifecycle` | `HandshakeService` implements `DealLifecycle`: deal, chain and settlements asked for | `service_agreement` | yes |
| `LifecycleSteps` | the same step by step, from the agreed deal on | `service_money` | yes |
| `KeepsCustody` | `HandshakeService` implements `Custody`, with the ledger as the holder | `service_money` | yes |

### Fairness

`deadlines` assumes weak fairness of the clock and of the statements of requests
and sweeps that have begun or are due: the worker polls for ever, the runtime
polls what it was given and time passes. People owe nothing, so the liveness properties
say that a deal moves on *without* them; only an open dispute may wait for ever,
as in the code, which has no timer for it. `hanging_hold` assumes weak fairness of
every step of `apply()` and of the worker, and of the clock: the runtime polls
what it was given. It has no faults, so what hangs there hangs in ordinary
operation. The other runs check safety only and need none.

## 4. Proofs

All theorems hold for every value of the constants that meets the named
assumptions of the modules: `NoTerms` is not a reading, windows and leases are
positive, bounds are naturals, requests are those of `RequestsUpTo`, what is said
and what the API answers have the shape of `Phrases` and `Replies`. The bounds
are arbitrary, so they bound nothing.

**Facts about one transition** (`DealLemmas`). `TransitionTyped`: types, and the
version grows by one. `TransitionEffect` sorts the arms by what they do to terms
and hash (*negotiates*, *freezes*, leaves them alone) and to money (which edges
between states carry which settlement). `TransitionSettles` adds what has been
asked for before; `TransitionAttests` says which row the chain gets. The arms of
`transition()` are opened here, in `DealDeadlinesProofs` (for the timers) and in
`ClientsProofs` (for revisions), and nowhere else: a change to one arm is a
change to one case of each of these lemmas.

**The lifecycle** (`DealLifecycleProofs`). `IInv` is the type invariant,
`ChainIsVersion`, `HeldThenSettledOnce`, `BoundTermsAreConfirmed` and `Unbound`: a
deal in Draft or PendingAgreement carries no hash, and only a Resolved deal has an
outcome. The first half is needed because a correction replaces the terms: without
knowing that no hash exists yet, it would break the binding. The second half is
needed because the side of the payout is read off the outcome: a deal refunded by
a timer must not carry the outcome of a dispute. The history properties need to
know what must already be on the chain: `Evidence` says, state by state, that the
funding, the grounds for a release, or the confirmations that stand are among its
rows; an accepted command only extends the chain, so what is on it stays on it.
`ReleasesHaveGrounds` says what a withdrawn dispute does to this: it is the one
way to a release with no receipt on the chain.

**The deadlines** (`DealDeadlinesProofs`). `TransitionTimers` reads the timer
requests off each arm, `TimersFit` that they turn the table of one state into the
table of the next, one statement after the other, whatever the order. The invariant
`TimersRight` says of every instant in between that a statement still to run asks
for what the state wants (`TimersInHand`) and that what a sweep has claimed is the
one timer the state awaits (`ClaimIsAwaited`), which is never moot (`AwaitedApplies`).

**The service** (`HandshakeServiceProofs`). What makes the
code correct is local to each request: at its label of `apply()` it has a decision
that is either *overtaken*, its version no longer that of the row, or *granted*,
allowed on the deal as it stands (`Decided`); a sealed link of a granted decision
is on the head of the chain (`Sealed`); a decision that pays has its money
(`Backed`). `IInv` says this of every process, that the rows agree with each other
(`Rows`), and that at most one process is paying (`OnePayout`). A commit makes
every other decision overtaken (`WritingOvertakes`), which is where the version
predicate does its work; the rest is that steps which touch no row keep all of it.
`Spec => ImplementsLifecycle` follows because a commit that passes the predicate is
granted, and `Spec => KeepsCustody` because the ledger is a function of the state
of the hold (`LedgerOf`). `DeadlinesPassFirst` rests on `Punctual`: every pending row
of the queue, every claimed one and every timer request still to be written is due a
full window after some attestation on the chain that starts its kind, and rows only
join the chain (`StaysTimely`). It says of no timer that it is the one of the present
state, because that is not so. Faults, crashes, expired leases and sweeps that fire a
task twice are among the steps.

**The capture** (`CaptureSessionProofs`). Again one local fact per request
(`Reached`): the bytes an upload is about to point at are stored, a request about
to close the session does so behind an accepted proposal, and these are things no
other request takes back (`Keeps`). `ReadingLeavesDraft` makes the first accepted
proposal the only one.

**Clients** (`ClientsProofs`). `ScreensLag` says that no screen is ahead of the
deal, and one of the current revision shows the current terms; with
`RevisionEffect` a confirmation that counts is of what was on the screen. The
receipt needs that rows are only ever appended between its two queries
(`PageHolds`), that appending a sealed and signed link to a chain that verifies gives
one that verifies (`SealingVerifies`), at every length, and that a deal with a hash
has the freeze of these terms among its rows (`FreezeOnRecord`).

**The web client** (`WebClientProofs`). Two invariants, one for each half.
`CaptureInv` says of the capture page that its draft is its screen, that each phrase
is on it once (`Numbered`) and has been read no more often than the mishaps allow, a
request under way or outliving its page counted as read (`Counted`), and, in
`Undisturbed`, that while nothing has gone wrong whatever has been written down, or
is still to come from the recognizer, is on the tape of the recording: the
recorder runs from the first press to the reading, through every pause of the
recognizer, and a phrase that comes in after the press is not among the lines sent. `DevicesInv` says of each phone that a page showing the deal has the
role and the token of the party it shows it to, that nothing on a screen or on its
way to one is ahead of the deal (`Shows`), and that the buyer's token never leaves
the first phone (`Holds`); and of the deal that the confirmations accepted are those
that stand (`Standing`). From the last two it follows that confirmations a page
without the other's token completes come from two phones
(`IndependentMeansTwo`).

**Folds** (first sections of `ClientsProofs` and `ReadingProofs`). What a loop
computes for an input of any length takes an induction, and the induction theorems
of the library have an operator as parameter, which none of the provers can
instantiate. `InductionOnSet` states the same principle of a *set* of numbers and is
proved from strict inclusion being well founded on finite sets. With it `FoldExists`
shows that the recursive function inside `FoldLeft` exists, and `FoldRuns` that it
has a list of values, from the base to the result, each the step of the one before;
each fold of the models then has a lemma of its own (`ScanRuns`, `SpeakersRun`,
`PricedRuns`, `ExtractRuns`, `IdentifyRuns`; `ResealedTyped` for the chain)
and what it computes is one more induction. The two modules extend specifications
that know nothing of each other, so the lemmas up to `FoldExists` stand in both.

**Altered receipts** (`ClientsProofs`). A hash is what was hashed, and each link
hashes the one before it. `LinkFollows` says that two chains that verify and agree on
a hash agree on the payload it seals and on the hash before. For a copy made by
editing, leaving out, swapping, cutting or renumbering (`Copies`) this gives, from the
first link on, agreement in sequence number, payload and hash with what was issued
(`CopyLeads`); the fields outside the hashes are not in the statement (`Anchored`). A
copy whose hashes were put together again (`Forgeries`) needs the signature: without
the platform's key there are only those of the receipt, each over the hash it was
issued with (`AllSigned`), so a good one on the last link makes its hash an issued
one, and from there backwards the payloads are the issued ones (`ForgeryLeads`).
`IssuedHolds` says beside it that what is served is a beginning of what has been
sealed. The same step for any chain is `HeadStandsForHistory`, which no run checks because it speaks of *every* chain with
payloads from any set: one that verifies and ends in an issued hash is, payload for
payload, the issued history up to there.

**What is read** (`ReadingProofs`). `ScanIsHeard`: the scanner's loop over the numbers
of a phrase finds what `Heard` defines. `Holds` is the invariant of the loop over the
phrases: the prices on the ladder are those heard so far, and a rung with a price on
top carries the last of them (`TurnHolds`); `ClosedAt` remembers which phrase
closed. `IdentifyHolds` is the loop over the voices: speakers are distinct
(`SpeakersDiffer`), so no voice is bound twice, and each binding points at a phrase
of its own. For the model's answers `ReadIn` says that all the money of a reading is
in one currency, one that `Money::new` lets through (`MoneyMade`), which is what
survives `IntoDomain`. The invariant of the session (`ReadingInv`) then only has to
know that nothing is said after a proposal, and that what was said stays.

**Only model-checked.** Liveness (`AwaitingEnds`, `CustodyEnds`; `HoldingEnds` is
violated), which is beyond the prover. Every other property of a passing run is
stated by a theorem.

`PROJECT.json` lists the theorems; those about the operators a proof rests on are
lemmas beside them.

## 5. Not modelled, and why

* **Wording and prompts.** The phrases the scanner's expressions match, the prompts
  and the JSON schema of the Claude client, the vision calls (advisory only, with
  a score nothing decides on) and their offline answers.
* **Formatting and parsing of single values.** Canonical JSON, identifiers, routes,
  sizes (`main.rs:24` raises the body limit for photographs to 12 MB), amounts
  beyond 2^53 in the browser, `Money` read back by serde without `Money::new`
  (`money.rs:12`). The models need that equal hashes mean equal contents.
* **Signer and keys.** A signature is by a key over a hash, and there is one key for
  the life of a deal. A process started without a seed makes its own
  (`signer.rs:29-45`), after which older receipts fail: `routes.rs:506` publishes the
  current key alone, and `verify.ts:111` judges every link under one key although
  `docs/ARCHITECTURE.md:285-286` has keys rotate and the old ones stay published.
  The canonical JSON of the service and that of the browser are one
  `CanonicalHash`: whether the two programs agree byte for byte is not asked here.
  The browser takes the deal's id from the receipt it is to judge.
* **Routes and views** beyond who may send what and what a confirmation depends
  on: status codes, wording, labels. `views.rs` promises a 409 to a stale tab for
  every command; only the confirmation carries a revision.
* **Reads.** `list_for_token`, `events`, `state_of`, `balance_check` change nothing.
* **Later screens of the deal.** Their buttons send one request each, which the
  service takes in any order; countdowns and layout decide nothing.

Behaviours the models have, or that were met while reading, that no document
forbids plainly enough for a run to be spent on them:

* *State machine*: a dispute opened before any handoff and withdrawn resumes in
  Holding and pays the seller when the hold runs out, with no receipt and perhaps no
  handoff (`state.rs:742-744`; the comment at `state.rs:64` says "Receipt confirmed").
  `ReleaseHasGrounds` names this case as the exception it is. Draft and Disputed have
  no timer.
* *Service*: money whose release failed behind the commit stays in escrow, which
  `service.rs` calls reconcilable; an error of `complete()` ends a sweep, and the
  rest of its batch waits for the lease; a release hold claimed before a dispute and
  fired after its withdrawal releases at once, as `stale_timer` has it for a refund.
* *Capture*: a closed session may refer to another recording than the attested one
  (it arrived during the model call); of two appends in flight one is lost; labels
  may differ from the names in frozen terms when the freeze overtakes the rename; a
  crash between proposal and close leaves a session open for ever.
* *Receipts*: who acted, how, when and the name of the key are under no hash
  (`chain.rs:186-200`) and may be edited in a copy that verifies; a copy may end
  early; a link without a signature, or a browser without Ed25519, counts as in order
  (`verify.ts:131`, `150`), and the page then still says that "the platform's
  signature checks out" (`Receipt.tsx:105-106`).
* *Witness*: "every price either of you names gets written down" (`Witness.tsx:146`),
  but "12,000" without a dollar sign is no price to the scanner, and a year of four
  digits is one although the comment at `offline_witness.rs:48` skips years; any
  three letters are a currency (`money.rs:22`, where `money.rs:13` says ISO 4217); a
  second closing phrase right after a first one makes the reading
  unproposable (`offline_witness.rs:135` takes the price-less rung on top);
  `scan_amounts` multiplies by 100 unchecked; nothing checks `TH_CURRENCY` at the
  start; `is_complete` does not compare labels, which `VoicesNameThemselves` shows
  the offline witness does not need.
* *Capture page*: a reading retried after a failed proposal appends the draft a
  second time, and with an odd number of unattributed lines the copy is attributed
  to the wrong sides; when the answer of an accepted proposal is lost the page is
  refused for ever; a phrase finalised while the proposal is under way is lost with
  the page; recorded chunks are in memory only. Two quick taps on "Start listening"
  start two recorders on one list of chunks (`recorder.ts:79-100` awaits the
  microphone, `Witness.tsx:75-81` hides the button after that), which the model's one
  step leaves out; and more than one request may outlive its page.
* *Devices*: a correction from a stale screen overwrites the other party's; the
  screen that passes the phone on says "Your confirmation is recorded" after a
  refused one too; a seller who confirmed on another phone, followed by the buyer
  on the phone the deal was started on, is labelled one device; a stored token
  wins over the one in the link.

## 6. What is left

* Several deals in one sweep of the worker, if sweeps that end early should matter
  to how late a timer may be.
* `service_money` with a third process, or two faults: the state space grows by
  two orders of magnitude, and the proofs already cover any number of both.
* The refusal `views.rs` promises to stale tabs, once commands carry a version.

## 7. Running

```
tlc -workers 2 -config DealLifecycle.cfg    MCDealLifecycle.tla
tlc -workers 2 -config DealDeadlines.cfg    MCDealDeadlines.tla
tlc -workers 2 -config ServiceAgreement.cfg MCHandshakeService.tla    # and ServiceMoney, StaleTimer, ...
tlc -workers 2 -config Capture.cfg          MCCaptureSession.tla
tlc -workers 2 -config Clients.cfg          MCClients.tla             # and UnagreedTerms
tlc -workers 2 -config Reading.cfg          MCReading.tla
tlc -workers 2 -config WebClient.cfg        MCWebClient.tla

for m in DealLemmas DealLifecycleProofs DealDeadlinesProofs HandshakeServiceProofs \
         CaptureSessionProofs ClientsProofs WebClientProofs ReadingProofs; do tlapm $m.tla; done
```

`PROJECT.json` names the module and configuration of every run, the properties it
checks, the mutants, and for each definition the lines of code it models.
