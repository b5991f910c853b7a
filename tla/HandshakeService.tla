--------------------------- MODULE HandshakeService ---------------------------
(***************************************************************************)
(* One deal as the running service handles it: HTTP requests and sweeps of *)
(* timer workers that each walk the common path of th-app/src/service.rs   *)
(*                                                                         *)
(*   load and decide -> hold -> seal -> commit -> timers -> settle         *)
(*                                                                         *)
(* one await at a time, against the rows PostgreSQL keeps (th-infra), with *)
(* the worker of th-jobs claiming, firing and completing scheduled tasks.  *)
(* Deals share no rows, so one deal suffices.  A step of a process is one  *)
(* statement or transaction; everything may happen between two of them.    *)
(***************************************************************************)
EXTENDS Deal, FiniteSets

CONSTANTS
    Procs,         \* tasks of the runtime: each is a request, then a sweep, ...
    Offered,       \* the [cmd, actor] pairs the clients may send
    Lease,         \* how long a claim locks a task
    MaxVersion,    \* bound: no new request on a deal of this version
    MaxTime,       \* bound: the clock stops here
    MaxFaults      \* bound: storage errors, dropped requests, killed workers

ASSUME OfferedAssumption == Offered \subseteq RequestsUpTo(MaxVersion)

ASSUME ServiceBounds ==
    /\ Lease \in Nat \ {0}
    /\ {MaxVersion, MaxTime, MaxFaults} \subseteq Nat

VARIABLES
    deal,      \* the row of `deals`, settlement_handle apart
    handle,    \* whether its settlement_handle is set
    chain,     \* the rows of `attestations`
    tasks,     \* the rows of `scheduled_tasks`, one per kind (dedup_key)
    escrow,    \* state of the row of `ledger_holds`, "none" before the hold
    ledger,    \* the rows of `ledger_entries`, added up per account
    now,       \* wall clock
    pc,        \* what each process does next
    job,       \* the locals of its call of apply()
    batch,     \* tasks a sweep has claimed and not yet dealt with
    intents,   \* history: settlements asked for by committed transitions
    faults     \* history: failures so far

rows  == <<deal, handle, chain, intents>>
funds == <<escrow, ledger>>
procs == <<pc, job, batch>>
vars  == <<rows, tasks, funds, now, procs, faults>>

Accounts == {"buyer", "escrow", "seller"}

NoTask == [state |-> "none", due |-> None, lockedUntil |-> None]

\* The locals of a call of apply() that has just decided; those of a process
\* with no call under way, and of a sweep that has an answer for the queue.
Call(task, actor, at, result, held) ==
    [task |-> task, actor |-> actor, at |-> at, result |-> result, held |-> held,
     taken |-> FALSE, seq |-> None, todo |-> << >>]

Answering(task) == Call(task, "none", None, << >>, FALSE)
NoJob           == Answering("none")

Row(action, actor, at) == [action |-> action, actor |-> actor, at |-> at]

-----------------------------------------------------------------------------
(* Ends of a call.  A sweep answers the queue, a request its client.       *)

Firing(p) == job[p].task # "none"

Finish(p, label) ==
    /\ pc' = [pc EXCEPT ![p] = IF Firing(p) THEN label ELSE "idle"]
    /\ job' = [job EXCEPT ![p] = Answering(job[p].task)]

Succeed(p) == Finish(p, "complete")
Err(p)     == Finish(p, "fail")

GoTo(p, label) == pc' = [pc EXCEPT ![p] = label]

-----------------------------------------------------------------------------
(* apply(): service.rs.                                                    *)

\* Mutation of Decide: custody is recorded before it is taken.
DecideWithoutHold(p, task, t, actor) ==
    /\ job' = [job EXCEPT ![p] = Call(task, actor, now, t, handle)]
    /\ GoTo(p, "seal")

\* Load the record, read the clock and decide.  Nothing is awaited between the
\* last two, and a move of the deal after the load is caught at the commit.
Decide(p, task, t, actor) ==
    /\ job' = [job EXCEPT ![p] = Call(task, actor, now, t, handle)]
    /\ GoTo(p, IF t.settlement = "Hold" THEN "lookup" ELSE "seal")

\* A client sends a command; a refusal changes nothing.
Receive(u) ==
    /\ pc[u] = "idle" /\ batch[u] = {}
    /\ deal.version < MaxVersion
    /\ \E r \in Offered : \E t \in Transition(deal, r.cmd, r.actor, now) :
          Decide(u, "none", t, r.actor)
    /\ UNCHANGED <<rows, tasks, funds, now, batch, faults>>

\* MockEscrow::hold, first statement: is there a hold already?
LookupHold(p) ==
    /\ pc[p] = "lookup"
    /\ IF escrow # "none"
       THEN /\ job' = [job EXCEPT ![p].taken = TRUE]
            /\ GoTo(p, "seal")
       ELSE /\ GoTo(p, "insert")
            /\ UNCHANGED job
    /\ UNCHANGED <<rows, tasks, funds, now, batch, faults>>

\* Double entry: a movement of the price writes a row for either account.
Posted(from, to) == [ledger EXCEPT ![from] = @ - 1, ![to] = @ + 1]

\* MockEscrow::hold, the transaction: deal_id is unique, so a hold that came in
\* between makes this one an error.
InsertHold(p) ==
    /\ pc[p] = "insert"
    /\ IF escrow = "none"
       THEN /\ escrow' = "held"
            /\ ledger' = Posted("buyer", "escrow")
            /\ job' = [job EXCEPT ![p].taken = TRUE]
            /\ GoTo(p, "seal")
       ELSE Err(p) /\ UNCHANGED funds
    /\ UNCHANGED <<rows, tasks, now, batch, faults>>

\* seal(): the head is read on its own, outside the transaction of the commit.
Seal(p) ==
    /\ pc[p] = "seal"
    /\ job' = [job EXCEPT ![p].seq = Len(chain)]
    /\ GoTo(p, "commit")
    /\ UNCHANGED <<rows, tasks, funds, now, batch, faults>>

\* What follows the last timer statement.
AfterTimers(p, t) ==
    IF t.settlement \in {"Release", "Refund"}
    THEN GoTo(p, "settle") /\ UNCHANGED job
    ELSE Succeed(p)

CommitIf(p, accepted, newHandle) ==
    LET t == job[p].result IN
    /\ pc[p] = "commit"
    /\ IF accepted
       THEN /\ deal' = t.deal
            /\ handle' = newHandle
            /\ chain' = Append(chain, Row(t.action, job[p].actor, job[p].at))
            /\ intents' = IF t.settlement = "None" THEN intents
                          ELSE Append(intents, t.settlement)
            /\ IF t.timers # << >>
               THEN /\ job' = [job EXCEPT ![p].todo = t.timers]
                    /\ GoTo(p, "timers")
               ELSE AfterTimers(p, t)
       ELSE Err(p) /\ UNCHANGED rows
    /\ UNCHANGED <<tasks, funds, now, batch, faults>>

VersionHolds(p) == deal.version = job[p].result.deal.version - 1
SeqIsFree(p)    == job[p].seq = Len(chain)

\* Mutations of Commit: no version predicate; the handle is not written.
CommitUnversioned(p)   == CommitIf(p, SeqIsFree(p), handle \/ job[p].taken)
CommitDropsHandle(p)   == CommitIf(p, VersionHolds(p) /\ SeqIsFree(p), handle)

\* One transaction: the version predicate, then the attestation, whose
\* (deal_id, seq) is unique; either failing rolls everything back.
Commit(p) == CommitIf(p, VersionHolds(p) /\ SeqIsFree(p), handle \/ job[p].taken)

\* The row a timer request leaves behind.
Requested(task, request) ==
    IF request.due # None
    THEN [state |-> "pending", due |-> request.due, lockedUntil |-> None]
    ELSE IF task.state = "pending" THEN [task EXCEPT !.state = "cancelled"] ELSE task

\* TaskQueue::apply, one statement of its loop.
ApplyTimer(p) ==
    LET request == Head(job[p].todo)
        rest    == Tail(job[p].todo)
    IN  /\ pc[p] = "timers"
        /\ tasks' = [tasks EXCEPT ![request.kind] = Requested(@, request)]
        /\ IF rest # << >>
           THEN job' = [job EXCEPT ![p].todo = rest] /\ UNCHANGED pc
           ELSE AfterTimers(p, job[p].result)
        /\ UNCHANGED <<rows, funds, now, batch, faults>>

Settled(intent) == IF intent = "Release" THEN "released" ELSE "refunded"

\* Mutation of Payee: whatever leaves escrow is credited to the seller.
PayeeIsSeller(intent) == "seller"

Payee(intent) == IF intent = "Release" THEN "seller" ELSE "buyer"

\* release() or refund() on the handle the record carried when it was loaded:
\* one transaction that locks the hold; a no-op when it is already there, an
\* error unless the funds are still held.
Settle(p) ==
    LET intent == job[p].result.settlement IN
    /\ pc[p] = "settle"
    /\ IF job[p].held /\ escrow \in {"held", Settled(intent)}
       THEN /\ escrow' = Settled(intent)
            /\ ledger' = IF escrow = "held" THEN Posted("escrow", Payee(intent)) ELSE ledger
            /\ Succeed(p)
       ELSE Err(p) /\ UNCHANGED funds
    /\ UNCHANGED <<rows, tasks, now, batch, faults>>

-----------------------------------------------------------------------------
(* Scheduler::tick: th-jobs/src/lib.rs over PgTaskQueue.                   *)

\* Mutation of Claimable: the due date is not looked at.
ClaimableUndue(kind) ==
    /\ tasks[kind].state = "pending"
    /\ tasks[kind].lockedUntil = None \/ tasks[kind].lockedUntil < now

Claimable(kind) ==
    /\ tasks[kind].state = "pending"
    /\ tasks[kind].due <= now
    /\ tasks[kind].lockedUntil = None \/ tasks[kind].lockedUntil < now

ClaimDue(w) ==
    LET due == {k \in TimerKinds : Claimable(k)} IN
    /\ pc[w] = "idle" /\ batch[w] = {} /\ due # {}
    /\ tasks' = [k \in TimerKinds |->
                    IF k \in due THEN [tasks[k] EXCEPT !.lockedUntil = now + Lease]
                    ELSE tasks[k]]
    /\ batch' = [batch EXCEPT ![w] = due]
    /\ UNCHANGED <<rows, funds, now, pc, job, faults>>

\* fire_task: the command of the task's kind, as System, on the deal as it is
\* now.  An illegal transition drops the timer, which counts as done.
FireTask(w) ==
    /\ pc[w] = "idle"
    /\ \E k \in batch[w] :
          LET allowed == Transition(deal, TimerCommand(k), "system", now) IN
          /\ batch' = [batch EXCEPT ![w] = @ \ {k}]
          /\ IF allowed = {}
             THEN /\ GoTo(w, "complete")
                  /\ job' = [job EXCEPT ![w] = Answering(k)]
             ELSE \E t \in allowed : Decide(w, k, t, "system")
    /\ UNCHANGED <<rows, tasks, funds, now, faults>>

\* Both updates name the row by its id and look at nothing else of it.
CompletedTask(task) == [task EXCEPT !.state = "done", !.lockedUntil = None]
FailedTask(task)    == [task EXCEPT !.state = "pending", !.lockedUntil = None]

Answer(w, label, Updated(_)) ==
    /\ pc[w] = label
    /\ tasks' = [tasks EXCEPT ![job[w].task] = Updated(@)]
    /\ GoTo(w, "idle")
    /\ job' = [job EXCEPT ![w] = NoJob]
    /\ UNCHANGED <<rows, funds, now, batch, faults>>

CompleteTask(w) == Answer(w, "complete", CompletedTask)
FailTask(w)     == Answer(w, "fail", FailedTask)

-----------------------------------------------------------------------------
(* Failures, time.                                                         *)

Working(p) == pc[p] \notin {"idle", "complete", "fail"}

\* A statement of apply() fails: the error reaches the client or the worker.
StorageError(p) ==
    /\ faults < MaxFaults
    /\ Working(p)
    /\ faults' = faults + 1
    /\ Err(p)
    /\ UNCHANGED <<rows, tasks, funds, now, batch>>

\* The process dies, the client hangs up and its handler is dropped, or the
\* sweep ends because complete() or fail() failed: the rest is forgotten.
Die(p) ==
    /\ faults < MaxFaults
    /\ pc[p] # "idle" \/ batch[p] # {}
    /\ faults' = faults + 1
    /\ GoTo(p, "idle")
    /\ job' = [job EXCEPT ![p] = NoJob]
    /\ batch' = [batch EXCEPT ![p] = {}]
    /\ UNCHANGED <<rows, tasks, funds, now>>

Tick ==
    /\ now < MaxTime
    /\ now' = now + 1
    /\ UNCHANGED <<rows, tasks, funds, procs, faults>>

-----------------------------------------------------------------------------
Init ==
    /\ deal = NewDeal
    /\ handle = FALSE
    /\ chain = << >>
    /\ tasks = [k \in TimerKinds |-> NoTask]
    /\ escrow = "none"
    /\ ledger = [a \in Accounts |-> 0]
    /\ now = 0
    /\ pc = [p \in Procs |-> "idle"]
    /\ job = [p \in Procs |-> NoJob]
    /\ batch = [p \in Procs |-> {}]
    /\ intents = << >>
    /\ faults = 0

ApplyStep(p) ==
    \/ LookupHold(p)
    \/ InsertHold(p)
    \/ Seal(p)
    \/ Commit(p)
    \/ ApplyTimer(p)
    \/ Settle(p)

WorkerStep(w) ==
    \/ ClaimDue(w)
    \/ FireTask(w)
    \/ CompleteTask(w)
    \/ FailTask(w)

Next ==
    \/ \E p \in Procs :
          \/ Receive(p)
          \/ ApplyStep(p)
          \/ WorkerStep(p)
          \/ StorageError(p)
          \/ Die(p)
    \/ Tick

Spec == Init /\ [][Next]_vars

\* The runtime polls every task it was given, the worker sweeps for ever and
\* time passes; clients owe nothing and failures need not happen.
FairSpec ==
    /\ Spec
    /\ \A p \in Procs : WF_vars(ApplyStep(p)) /\ WF_vars(WorkerStep(p))
    /\ WF_vars(Tick)

-----------------------------------------------------------------------------
(* Correctness.                                                            *)

JobType ==
    [ task   : TimerKinds \cup {"none"},
      actor  : Actors \cup {"none"},
      at     : MaybeNat,
      result : TransitionType \cup {<< >>},
      held   : BOOLEAN,
      taken  : BOOLEAN,
      seq    : MaybeNat,
      todo   : Seq(TimerRequest) ]

Labels == {"idle", "lookup", "insert", "seal", "commit", "timers", "settle",
           "complete", "fail"}

TypeOK ==
    /\ deal \in DealType /\ handle \in BOOLEAN
    /\ chain \in Seq([action : AttestationActions, actor : Actors, at : Nat])
    /\ intents \in Seq(SettlementIntents)
    /\ tasks \in [TimerKinds -> [state : {"none", "pending", "done", "cancelled"},
                                 due : MaybeNat, lockedUntil : MaybeNat]]
    /\ escrow \in {"none", "held", "released", "refunded"}
    /\ ledger \in [Accounts -> Int]
    /\ now \in Nat /\ faults \in Nat
    /\ pc \in [Procs -> Labels] /\ job \in [Procs -> JobType]
    /\ batch \in [Procs -> SUBSET TimerKinds]

\* Whatever the interleaving, the rows of `deals` and `attestations` only ever
\* change the way the lifecycle allows: racing requests serialise.
\* (The antecedent only spares TLC the evaluation of Next on stuttering steps.)
Lifecycle ==
    INSTANCE DealLifecycle
        WITH deal <- deal, chain <- chain, intents <- intents, now <- now

LifecycleSteps ==
    [][Lifecycle!vars' # Lifecycle!vars => Lifecycle!Next]_(Lifecycle!vars)

\* The same from a new deal on: the service implements the lifecycle.
ImplementsLifecycle == Lifecycle!Init /\ LifecycleSteps

\* The version predicate alone keeps the chain from forking: when it accepts,
\* the head that seal() read outside the transaction is still the head, so the
\* unique (deal_id, seq) never has to refuse anybody.
SealsOnTheHead ==
    \A p \in Procs :
        (pc[p] = "commit" /\ deal.version = job[p].result.deal.version - 1)
            => job[p].seq = Len(chain)

\* "Never record funds we failed to take": a deal in a custody state is backed
\* by a live hold whose handle is on its row.
CustodyIsBacked == FundsHeld(deal) => escrow = "held" /\ handle

\* "Never move money we failed to record": what has left escrow is what the
\* last committed settlement of the deal says, and only that.
PayoutsAreRecorded ==
    escrow \in {"released", "refunded"} =>
        /\ IsTerminal(deal)
        /\ Len(intents) = 2
        /\ escrow = Settled(intents[2])

\* A settlement that gets its turn is never refused, finds the money still
\* held, and is the only one under way.
SettlementFindsTheMoney ==
    \A p \in Procs : pc[p] = "settle" =>
        /\ job[p].held /\ escrow = "held"
        /\ \A q \in Procs : pc[q] = "settle" => q = p

\* Where the ledger says the price is.  Rows that do not add up to one price in
\* one place would put it nowhere.
HolderOnLedger ==
    CASE \A a \in Accounts : ledger[a] = 0                       -> "buyer"
      [] ledger = [a \in Accounts |->
            CASE a = "buyer" -> -1 [] a = "escrow" -> 1 [] OTHER -> 0] -> "escrow"
      [] ledger = [a \in Accounts |->
            CASE a = "buyer" -> -1 [] a = "seller" -> 1 [] OTHER -> 0] -> "seller"
      [] OTHER                                                    -> "nowhere"

\* Whom the committed state of the deal gives the money to.
VerdictOnRecord ==
    CASE deal.state = "Completed" \/ deal.outcome = "ReleaseToSeller" -> "seller"
      [] deal.state = "Refunded" \/ deal.outcome = "RefundToBuyer"    -> "buyer"
      [] OTHER                                                       -> "none"

Escrow == INSTANCE Custody WITH holder <- HolderOnLedger, verdict <- VerdictOnRecord

\* Whatever requests race, retry or die, the ledger moves the price the way the
\* escrow promises: taken once, and paid out once, to whom the record names.
KeepsCustody == Escrow!Spec

\* The timer that `action` follows from ran its full window: some attestation
\* before row `j` started it that long before `at`.
RanOut(j, action, at) ==
    \E i \in 1 .. (j - 1), k \in TimerKinds :
        /\ chain[i].action \in StartedBy[k] /\ action \in LeadsTo[k]
        /\ at >= chain[i].at + Window[k]

\* Whatever is set again, cancelled late, claimed twice or retried, the system
\* acts on a deal only on a deadline that started with an attestation on its
\* chain and has passed in full since.  (Which deadline is another matter: see
\* RefundWaitsForHandoffWindow.)
SystemActsOnAPassedDeadline ==
    \A j \in DOMAIN chain :
        (chain[j].actor = "system" /\ chain[j].action # "WitnessProposed")
            => RanOut(j, chain[j].action, chain[j].at)

-----------------------------------------------------------------------------
(* What the documentation says and the code does not keep.                 *)

Quiet == \A p \in Procs : pc[p] = "idle" /\ batch[p] = {}

\* service.rs: late firing is safe, the timer applies if still legal or is
\* moot.  So a funded deal is refunded only after the handoff window.
RefundWaitsForHandoffWindow ==
    \A i, j \in DOMAIN chain :
        (chain[i].action = "FundsHeld" /\ chain[j].action = "FundsRefunded")
            => chain[j].at >= chain[i].at + HandoffWindow

\* state.rs: when a deal lapses before funding no money moved, so nothing is to
\* be returned; service.rs: a hold whose commit fails is found by the retry.
\* So with nothing in flight, money in escrow belongs to a deal that says so.
HeldMoneyIsOnRecord == (Quiet /\ escrow = "held") => FundsHeld(deal)

\* README: deals cannot hang.  A release hold that runs out before the clock
\* of the model stops is followed by the release, or by a dispute.
HoldingEnds ==
    (deal.state = "Holding" /\ deal.releaseDueAt < MaxTime) ~> deal.state # "Holding"
=============================================================================
