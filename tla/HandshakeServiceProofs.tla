----------------------- MODULE HandshakeServiceProofs -----------------------
(***************************************************************************)
(* What holds of HandshakeService for any number of processes, requests,   *)
(* windows, leases and faults.                                             *)
(***************************************************************************)
EXTENDS HandshakeService, DealLemmas

InFlight == {"lookup", "insert", "seal", "commit"}

Ended == {"idle", "complete", "fail"}

\* The locals process q has filled in by the time it gets to a label.
Shaped(q) ==
    /\ pc[q] \in InFlight \cup {"timers", "settle"} => job[q].result \in TransitionType
    /\ pc[q] \in InFlight => job[q].actor \in Actors /\ job[q].at \in Nat
    /\ pc[q] = "timers" => job[q].todo # << >>
    /\ pc[q] = "settle" => job[q].result.settlement \in {"Release", "Refund"}
    /\ pc[q] \in {"complete", "fail"} => job[q].task \in TimerKinds

LastRecorded == IF chain = << >> THEN 0 ELSE chain[Len(chain)].at

\* The decision j is one the lifecycle allows as things are.
Granted(j) ==
    /\ LastRecorded <= j.at /\ j.at <= now
    /\ j.held = handle
    /\ \/ /\ deal.version < MaxVersion
          /\ \E r \in Offered :
                r.actor = j.actor /\ j.result \in Transition(deal, r.cmd, j.actor, j.at)
       \/ /\ j.actor = "system"
          /\ \E k \in TimerKinds :
                j.result \in Transition(deal, TimerCommand(k), "system", j.at)

\* A decision in flight is overtaken, or it was made on the deal as it stands.
Decided(q) ==
    pc[q] \in InFlight =>
        /\ job[q].result.deal.version <= deal.version + 1
        /\ job[q].result.deal.version = deal.version + 1 => Granted(job[q])

\* One that is not overtaken has sealed on the head.
Sealed(q) ==
    (pc[q] = "commit" /\ deal.version = job[q].result.deal.version - 1)
        => job[q].seq = Len(chain)

Paying(q) == pc[q] \in {"timers", "settle"} /\ job[q].result.settlement \in {"Release", "Refund"}

PaidStates == {"Completed", "Refunded", "Resolved"}

\* Money a process says it has taken is there, and so is money it is to move.
Backed(q) ==
    /\ pc[q] \in InFlight /\ job[q].taken => escrow # "none"
    /\ pc[q] \in {"seal", "commit"} /\ job[q].result.settlement = "Hold" => job[q].taken
    /\ Paying(q) =>
          /\ job[q].held /\ escrow = "held"
          /\ deal.state \in PaidStates
          /\ intents = <<"Hold", job[q].result.settlement>>

Local(q) == Shaped(q) /\ Decided(q) /\ Sealed(q) /\ Backed(q)

\* What the ledger adds up to in each state of the hold.
LedgerOf(hold) ==
    [a \in Accounts |->
        CASE a = "buyer"  -> IF hold \in {"held", "released"} THEN -1 ELSE 0
          [] a = "escrow" -> IF hold = "held" THEN 1 ELSE 0
          [] OTHER        -> IF hold = "released" THEN 1 ELSE 0]

Rows ==
    /\ LastRecorded \in Nat /\ LastRecorded <= now
    /\ MoneyInOrder(deal, intents)
    /\ CustodyIsBacked
    /\ PayoutsAreRecorded
    /\ deal.state \in PaidStates => escrow # "none"
    /\ ledger = LedgerOf(escrow)

OnePayout == \A q, r \in Procs : Paying(q) /\ Paying(r) => q = r

IInv == TypeOK /\ Rows /\ OnePayout /\ \A q \in Procs : Local(q)

-----------------------------------------------------------------------------
(* The locals of a call, field by field.                                   *)

LEMMA TypedAnswering ==
    ASSUME NEW task \in TimerKinds \cup {"none"}
    PROVE  Answering(task) \in JobType /\ Answering(task).task = task
<1> DEFINE j == Answering(task)
<1>1. << >> \in Seq(TimerRequest) /\ None \in MaybeNat /\ FALSE \in BOOLEAN
  BY DEF MaybeNat
<1>2. j = [task |-> task, actor |-> "none", at |-> None, result |-> << >>, held |-> FALSE,
           taken |-> FALSE, seq |-> None, todo |-> << >>]
  BY DEF Answering, Call
<1> HIDE DEF j
<1>3. j \in JobType /\ j.task = task
  BY <1>1, <1>2 DEF JobType
<1> QED
  BY <1>3 DEF j

LEMMA TypedTaken ==
    ASSUME NEW j \in JobType, NEW k, k = [j EXCEPT !.taken = TRUE]
    PROVE  /\ k \in JobType /\ k.taken
           /\ k.actor = j.actor /\ k.at = j.at /\ k.result = j.result /\ k.held = j.held
           /\ k.seq = j.seq
BY DEF JobType

LEMMA TypedSealed ==
    ASSUME NEW j \in JobType, NEW n \in Nat, NEW k, k = [j EXCEPT !.seq = n]
    PROVE  /\ k \in JobType /\ k.seq = n
           /\ k.actor = j.actor /\ k.at = j.at /\ k.result = j.result /\ k.held = j.held
           /\ k.taken = j.taken
BY DEF JobType, MaybeNat

LEMMA TypedTodo ==
    ASSUME NEW j \in JobType, NEW todo \in Seq(TimerRequest), NEW k, k = [j EXCEPT !.todo = todo]
    PROVE  /\ k \in JobType /\ k.todo = todo
           /\ k.result = j.result /\ k.held = j.held /\ k.task = j.task
BY DEF JobType

\* One process moves to a label with these locals; the others stay.
Becomes(p, label, j) ==
    /\ pc' \in [Procs -> Labels] /\ job' \in [Procs -> JobType]
    /\ pc'[p] = label /\ job'[p] = j
    /\ \A q \in Procs : q # p => pc'[q] = pc[q] /\ job'[q] = job[q]

LEMMA Becoming ==
    ASSUME TypeOK, NEW p \in Procs, NEW label \in Labels, NEW j \in JobType,
           pc' = [pc EXCEPT ![p] = label], job' = [job EXCEPT ![p] = j]
    PROVE  Becomes(p, label, j)
BY DEF TypeOK, Becomes

LEMMA BecomingOnlyThere ==
    ASSUME TypeOK, NEW p \in Procs, NEW label \in Labels,
           pc' = [pc EXCEPT ![p] = label], job' = job
    PROVE  Becomes(p, label, job[p])
BY DEF TypeOK, Becomes

\* A call that is over: nothing is held against its process any more.
Ends(p) ==
    \E label \in {"idle", "complete", "fail"}, j \in JobType :
        /\ Becomes(p, label, j)
        /\ label # "idle" => j.task \in TimerKinds

LEMMA FinishEnds ==
    ASSUME TypeOK, NEW p \in Procs, NEW label \in {"complete", "fail"}, Finish(p, label)
    PROVE  Ends(p)
<1> DEFINE at == IF Firing(p) THEN label ELSE "idle"
           j == Answering(job[p].task)
<1>1. job[p].task \in TimerKinds \cup {"none"}
  <2>1. job[p] \in JobType
    BY DEF TypeOK
  <2> QED
    BY <2>1 DEF JobType
<1>2. j \in JobType /\ j.task = job[p].task
  BY <1>1, TypedAnswering
<1>3. at \in {"idle", "complete", "fail"} /\ at \in Labels /\ (at # "idle" => Firing(p))
  BY DEF Labels
<1>4. pc' = [pc EXCEPT ![p] = at] /\ job' = [job EXCEPT ![p] = j]
  BY DEF Finish
<1> HIDE DEF at, j
<1>5. Becomes(p, at, j)
  BY <1>2, <1>3, <1>4, Becoming
<1> QED
  BY <1>1, <1>2, <1>3, <1>5 DEF Ends, Firing

LEMMA SucceedOrErrEnds ==
    ASSUME TypeOK, NEW p \in Procs, Succeed(p) \/ Err(p)
    PROVE  Ends(p)
BY FinishEnds DEF Succeed, Err

-----------------------------------------------------------------------------
(* What each action does, in these terms.                                  *)

LEMMA RequestsAreWellFormed ==
    ASSUME NEW r \in Offered
    PROVE  WellFormed(r.cmd) /\ r.actor \in Actors
<1>1. PICK c \in CommandsUpTo(MaxVersion) : \E a \in Sender(c) : r = [cmd |-> c, actor |-> a]
  BY OfferedAssumption DEF RequestsUpTo
<1>2. PICK a \in Sender(c) : r = [cmd |-> c, actor |-> a]
  BY <1>1
<1>3. r.cmd = c /\ r.actor = a
  BY <1>2
<1>4. a \in Actors
  <2>1. Sender(c) \in {{"system"}, {"mediator"}, {}, Parties}
    BY DEF Sender
  <2> QED
    BY <2>1 DEF Actors
<1>5. WellFormed(c)
  <2>1. CASE c \in {[name |-> "ResolveDispute", outcome |-> o] : o \in DisputeOutcomes}
    BY <2>1 DEF WellFormed
  <2>2. CASE c.name # "ResolveDispute"
    BY <2>2 DEF WellFormed
  <2>3. CASE c \in {Command(n) : n \in Simple}
    <3>1. c.name \in Simple
      BY <2>3 DEF Command
    <3> QED
      BY <2>2, <3>1 DEF Simple
  <2> QED
    BY <2>1, <2>2, <2>3 DEF CommandsUpTo
<1> QED
  BY <1>3, <1>4, <1>5

TypedQueue ==
    /\ tasks \in [TimerKinds -> [state : {"none", "pending", "done", "cancelled"},
                                 due : MaybeNat, lockedUntil : MaybeNat]]
    /\ batch \in [Procs -> SUBSET TimerKinds]
    /\ now \in Nat /\ faults \in Nat

\* The rows are as they were, and the money is where it was.
Stands == UNCHANGED <<deal, handle, chain, intents, escrow, ledger>>

LEMMA StillTyped ==
    ASSUME TypeOK, Stands, TypedQueue',
           pc' \in [Procs -> Labels], job' \in [Procs -> JobType]
    PROVE  TypeOK'
BY DEF TypeOK, Stands, TypedQueue

\* With the rows as they were, what held of a process that did nothing, or whose
\* call is over, still holds.
Rests(q) ==
    \/ pc'[q] = pc[q] /\ job'[q] = job[q]
    \/ pc'[q] \in Ended /\ (pc'[q] # "idle" => job'[q].task \in TimerKinds)

LEMMA RestingStays ==
    ASSUME Stands, now \in Nat, now' \in Nat, now <= now', LastRecorded \in Nat,
           NEW q \in Procs, Local(q), Rests(q), TypeOK
    PROVE  Local(q)' /\ (Paying(q)' => Paying(q))
<1>1. CASE pc'[q] = pc[q] /\ job'[q] = job[q]
  <2>1. Shaped(q)' /\ Sealed(q)' /\ Backed(q)' /\ (Paying(q)' => Paying(q))
    BY <1>1 DEF Local, Shaped, Sealed, Backed, Paying, Stands
  <2>2. Decided(q)'
    <3>1. pc[q] \in InFlight => job[q].at \in Nat
      BY DEF Local, Shaped
    <3>2. ASSUME Granted(job[q]), job[q].at \in Nat
          PROVE  Granted(job[q])'
      BY <1>1, <3>2 DEF Granted, LastRecorded, Stands
    <3> QED
      BY <1>1, <3>1, <3>2 DEF Local, Decided, Stands
  <2> QED
    BY <2>1, <2>2 DEF Local
<1>2. CASE pc'[q] \in Ended /\ (pc'[q] # "idle" => job'[q].task \in TimerKinds)
  BY <1>2 DEF Local, Shaped, Decided, Sealed, Backed, Paying, InFlight, Ended
<1> QED
  BY <1>1, <1>2 DEF Rests

LEMMA RowsStand ==
    ASSUME IInv, Stands, now <= now', TypeOK'
    PROVE  Rows'
<1>1. now \in Nat /\ now' \in Nat
  BY DEF IInv, TypeOK
<1> QED
  BY <1>1 DEF IInv, Rows, LastRecorded, Stands, MoneyInOrder, CustodyIsBacked,
              PayoutsAreRecorded

\* A step in which no process moves but to give up.
LEMMA RestKeeps ==
    ASSUME IInv, TypeOK', Stands, now <= now', \A q \in Procs : Rests(q)
    PROVE  IInv'
<1>1. now \in Nat /\ now' \in Nat
  BY DEF IInv, TypeOK
<1>2. \A q \in Procs : Local(q)' /\ (Paying(q)' => Paying(q))
  BY <1>1, RestingStays DEF IInv, Rows
<1>3. OnePayout'
  BY <1>2 DEF IInv, OnePayout
<1> QED
  BY <1>2, <1>3, RowsStand DEF IInv

\* A step of one process that leaves the rows and the money alone.
LEMMA ProcessStep ==
    ASSUME IInv, TypeOK', Stands, now <= now',
           NEW p \in Procs, \A q \in Procs : q # p => Rests(q),
           Local(p)', Paying(p)' => Paying(p)
    PROVE  IInv'
<1>1. now \in Nat /\ now' \in Nat
  BY DEF IInv, TypeOK
<1>2. Rows'
  BY RowsStand
<1>3. \A q \in Procs : Local(q)' /\ (Paying(q)' => Paying(q))
  <2> SUFFICES ASSUME NEW q \in Procs
               PROVE  Local(q)' /\ (Paying(q)' => Paying(q))
    OBVIOUS
  <2>1. CASE q = p
    BY <2>1
  <2>2. CASE q # p
    BY <1>1, <2>2, RestingStays DEF IInv, Rows
  <2> QED
    BY <2>1, <2>2
<1>4. OnePayout'
  BY <1>3 DEF IInv, OnePayout
<1> QED
  BY <1>2, <1>3, <1>4 DEF IInv

LEMMA EndedKeeps ==
    ASSUME IInv, TypeOK', Stands, now <= now', NEW p \in Procs, Ends(p)
    PROVE  IInv'
<1>1. PICK label \in Ended, j \in JobType :
         Becomes(p, label, j) /\ (label # "idle" => j.task \in TimerKinds)
  BY DEF Ends, Ended
<1>2. \A q \in Procs : Rests(q)
  BY <1>1 DEF Becomes, Rests
<1> QED
  BY <1>2, RestKeeps

\* A process takes a decision on the deal as it stands.
Decides(p) ==
    \E label \in {"lookup", "seal"}, j \in JobType :
        /\ Becomes(p, label, j)
        /\ j.result \in TransitionType /\ j.result.deal.version = deal.version + 1
        /\ j.actor \in Actors /\ j.at \in Nat
        /\ j.at = now /\ j.held = handle /\ ~j.taken
        /\ label = "seal" => j.result.settlement # "Hold"
        /\ \/ /\ deal.version < MaxVersion
              /\ \E r \in Offered :
                    r.actor = j.actor /\ j.result \in Transition(deal, r.cmd, j.actor, j.at)
           \/ /\ j.actor = "system"
              /\ \E k \in TimerKinds :
                    j.result \in Transition(deal, TimerCommand(k), "system", j.at)

LEMMA DecisionIsMade ==
    ASSUME TypeOK, NEW p \in Procs, NEW task \in TimerKinds \cup {"none"},
           NEW cmd, WellFormed(cmd), NEW actor \in Actors,
           NEW t \in Transition(deal, cmd, actor, now), Decide(p, task, t, actor),
           \/ /\ deal.version < MaxVersion
              /\ \E r \in Offered : r.actor = actor /\ r.cmd = cmd
           \/ actor = "system" /\ \E k \in TimerKinds : cmd = TimerCommand(k)
    PROVE  Decides(p)
<1> DEFINE label == IF t.settlement = "Hold" THEN "lookup" ELSE "seal"
<1>1. deal \in DealType /\ now \in Nat /\ handle \in BOOLEAN
  BY DEF TypeOK
<1>2. t \in TransitionType /\ t.deal.version = deal.version + 1
  BY <1>1, TransitionIsTransition, TransitionTyped
<1> DEFINE j == Call(task, actor, now, t, handle)
<1>3. /\ j \in JobType
      /\ j.actor = actor /\ j.at = now /\ j.result = t /\ j.held = handle
      /\ j.taken = FALSE
  <2>1. /\ << >> \in Seq(TimerRequest) /\ None \in MaybeNat /\ now \in MaybeNat
        /\ FALSE \in BOOLEAN
    BY <1>1 DEF MaybeNat
  <2>2. j = [task |-> task, actor |-> actor, at |-> now, result |-> t, held |-> handle,
             taken |-> FALSE, seq |-> None, todo |-> << >>]
    BY DEF Call
  <2> HIDE DEF j, label
  <2> QED
    BY <1>1, <1>2, <2>1, <2>2 DEF JobType
<1>4. pc' = [pc EXCEPT ![p] = label] /\ job' = [job EXCEPT ![p] = j]
  BY DEF Decide, GoTo
<1>5. label \in {"lookup", "seal"} /\ label \in Labels
  BY DEF Labels
<1>6. label = "seal" => t.settlement # "Hold"
  OBVIOUS
<1> HIDE DEF label, j
<1>7. Becomes(p, label, j)
  BY <1>3, <1>4, <1>5, Becoming
<1> QED
  BY <1>1, <1>2, <1>3, <1>5, <1>6, <1>7 DEF Decides

LEMMA DecidedKeeps ==
    ASSUME IInv, TypeOK', Stands, UNCHANGED now, NEW p \in Procs, Decides(p)
    PROVE  IInv'
<1>1. PICK label \in {"lookup", "seal"}, j \in JobType :
         /\ Becomes(p, label, j)
         /\ j.result \in TransitionType /\ j.result.deal.version = deal.version + 1
         /\ j.actor \in Actors /\ j.at \in Nat
         /\ j.at = now /\ j.held = handle /\ ~j.taken
         /\ label = "seal" => j.result.settlement # "Hold"
         /\ \/ /\ deal.version < MaxVersion
               /\ \E r \in Offered :
                     r.actor = j.actor /\ j.result \in Transition(deal, r.cmd, j.actor, j.at)
            \/ /\ j.actor = "system"
               /\ \E k \in TimerKinds :
                     j.result \in Transition(deal, TimerCommand(k), "system", j.at)
  BY DEF Decides
<1>2. pc'[p] = label /\ job'[p] = j /\ \A q \in Procs : q # p => Rests(q)
  BY <1>1 DEF Becomes, Rests
<1>3. deal.version \in Nat /\ now \in Nat /\ LastRecorded <= now
  BY DEF IInv, Rows, TypeOK, DealType
<1>4. Granted(j)'
  BY <1>1, <1>3 DEF Granted, LastRecorded, Stands
<1>5. Decided(p)'
  BY <1>1, <1>2, <1>3, <1>4 DEF Decided, Stands
<1>6. Shaped(p)' /\ Sealed(p)' /\ Backed(p)' /\ ~Paying(p)'
  BY <1>1, <1>2 DEF Shaped, Sealed, Backed, Paying, InFlight
<1> QED
  BY <1>2, <1>3, <1>5, <1>6, ProcessStep DEF Local

LEMMA ReceiveEffect ==
    ASSUME TypeOK, NEW p \in Procs, Receive(p)
    PROVE  TypeOK' /\ Stands /\ UNCHANGED now /\ Decides(p)
<1>1. PICK r \in Offered : \E t \in Transition(deal, r.cmd, r.actor, now) :
         Decide(p, "none", t, r.actor)
  BY DEF Receive
<1>2. Decides(p)
  BY <1>1, RequestsAreWellFormed, DecisionIsMade DEF Receive
<1>3. Stands /\ UNCHANGED <<tasks, batch, now, faults>>
  BY DEF Receive, Stands, rows, funds
<1>4. TypedQueue'
  BY <1>3 DEF TypedQueue, TypeOK
<1>5. pc' \in [Procs -> Labels] /\ job' \in [Procs -> JobType]
  BY <1>2 DEF Decides, Becomes
<1> QED
  BY <1>2, <1>3, <1>4, <1>5, StillTyped

LEMMA FireTaskEffect ==
    ASSUME TypeOK, NEW p \in Procs, FireTask(p)
    PROVE  TypeOK' /\ Stands /\ UNCHANGED now /\ (Decides(p) \/ Ends(p))
<1>1. PICK k \in batch[p] :
         /\ batch' = [batch EXCEPT ![p] = @ \ {k}]
         /\ \/ /\ GoTo(p, "complete")
               /\ job' = [job EXCEPT ![p] = Answering(k)]
            \/ \E t \in Transition(deal, TimerCommand(k), "system", now) :
                  Decide(p, k, t, "system")
  BY DEF FireTask
<1>2. k \in TimerKinds
  BY DEF TypeOK
<1>3. Decides(p) \/ Ends(p)
  <2>1. ASSUME GoTo(p, "complete"), job' = [job EXCEPT ![p] = Answering(k)]
        PROVE  Ends(p)
    <3>1. PICK j \in JobType : j = Answering(k) /\ j.task = k
      BY <1>2, TypedAnswering
    <3>2. Becomes(p, "complete", j)
      BY <2>1, <3>1, Becoming DEF GoTo, Labels
    <3> QED
      BY <1>2, <3>1, <3>2 DEF Ends
  <2>2. ASSUME NEW t \in Transition(deal, TimerCommand(k), "system", now),
               Decide(p, k, t, "system")
        PROVE  Decides(p)
    <3>1. WellFormed(TimerCommand(k)) /\ "system" \in Actors
      BY DEF WellFormed, TimerCommand, Command, Actors
    <3> QED
      BY <1>2, <2>2, <3>1, DecisionIsMade
  <2> QED
    BY <1>1, <2>1, <2>2
<1>4. Stands /\ UNCHANGED <<tasks, now, faults>>
  BY DEF FireTask, Stands, rows, funds
<1>5. TypedQueue'
  BY <1>1, <1>4 DEF TypedQueue, TypeOK
<1>6. pc' \in [Procs -> Labels] /\ job' \in [Procs -> JobType]
  BY <1>3 DEF Decides, Ends, Becomes
<1> QED
  BY <1>3, <1>4, <1>5, <1>6, StillTyped

LEMMA ClaimDueKeeps ==
    ASSUME IInv, NEW p \in Procs, ClaimDue(p)
    PROVE  IInv'
<1>1. /\ Stands /\ UNCHANGED <<pc, job, now, faults>>
      /\ \A q \in Procs : Rests(q)
  BY DEF ClaimDue, Stands, rows, funds, Rests
<1>2. TypedQueue'
  <2> DEFINE due == {k \in TimerKinds : Claimable(k)}
             Task == [state : {"none", "pending", "done", "cancelled"},
                      due : MaybeNat, lockedUntil : MaybeNat]
  <2>1. batch' = [batch EXCEPT ![p] = due] /\ due \subseteq TimerKinds
    BY DEF ClaimDue
  <2>2. tasks \in [TimerKinds -> Task] /\ now + Lease \in MaybeNat
    BY ServiceBounds DEF IInv, TypeOK, MaybeNat
  <2>3. \A k \in TimerKinds : [tasks[k] EXCEPT !.lockedUntil = now + Lease] \in Task
    BY <2>2
  <2>4. tasks' = [k \in TimerKinds |->
                     IF k \in due THEN [tasks[k] EXCEPT !.lockedUntil = now + Lease]
                     ELSE tasks[k]]
    BY DEF ClaimDue
  <2>5. batch \in [Procs -> SUBSET TimerKinds] /\ now \in Nat /\ faults \in Nat
    BY DEF IInv, TypeOK
  <2> HIDE DEF due, Task
  <2>6. tasks' \in [TimerKinds -> Task] /\ batch' \in [Procs -> SUBSET TimerKinds]
    BY <2>1, <2>2, <2>3, <2>4, <2>5
  <2> USE DEF Task
  <2> QED
    BY <1>1, <2>5, <2>6 DEF TypedQueue
<1>3. pc' \in [Procs -> Labels] /\ job' \in [Procs -> JobType]
  BY <1>1 DEF IInv, TypeOK
<1>4. now <= now'
  BY <1>1 DEF IInv, TypeOK
<1> QED
  BY <1>1, <1>2, <1>3, <1>4, StillTyped, RestKeeps DEF IInv

LEMMA TickKeeps ==
    ASSUME IInv, Tick
    PROVE  IInv'
<1>1. /\ Stands /\ UNCHANGED <<tasks, batch, pc, job, faults>> /\ now' = now + 1
      /\ \A q \in Procs : Rests(q)
  BY DEF Tick, Stands, rows, funds, procs, Rests
<1>2. now' \in Nat /\ now <= now'
  BY <1>1 DEF IInv, TypeOK
<1>3. TypedQueue' /\ pc' \in [Procs -> Labels] /\ job' \in [Procs -> JobType]
  BY <1>1, <1>2 DEF TypedQueue, IInv, TypeOK
<1> QED
  BY <1>1, <1>2, <1>3, StillTyped, RestKeeps DEF IInv

\* A call that ends with the rows and the money as they were.
LEMMA EndingKeeps ==
    ASSUME IInv, NEW p \in Procs, Ends(p), Stands, UNCHANGED now, TypedQueue'
    PROVE  IInv'
<1>1. pc' \in [Procs -> Labels] /\ job' \in [Procs -> JobType]
  BY DEF Ends, Becomes
<1>2. now <= now'
  BY DEF IInv, TypeOK
<1> QED
  BY <1>1, <1>2, StillTyped, EndedKeeps DEF IInv

LEMMA AnswerKeeps ==
    ASSUME IInv, NEW p \in Procs, CompleteTask(p) \/ FailTask(p)
    PROVE  IInv'
<1> DEFINE Task == [state : {"none", "pending", "done", "cancelled"},
                    due : MaybeNat, lockedUntil : MaybeNat]
           k == job[p].task
<1>1. k \in TimerKinds
  BY DEF CompleteTask, FailTask, Answer, IInv, Local, Shaped
<1>2. tasks \in [TimerKinds -> Task]
  BY DEF IInv, TypeOK
<1>3. /\ pc' = [pc EXCEPT ![p] = "idle"] /\ job' = [job EXCEPT ![p] = NoJob]
      /\ Stands /\ UNCHANGED <<now, batch, faults>>
  BY DEF CompleteTask, FailTask, Answer, GoTo, Stands, rows, funds
<1>4. /\ CompletedTask(tasks[k]) \in Task
      /\ FailedTask(tasks[k]) \in Task
  <2>1. tasks[k] \in Task /\ None \in MaybeNat
    BY <1>1, <1>2 DEF MaybeNat
  <2> QED
    BY <2>1 DEF CompletedTask, FailedTask
<1>5. \/ tasks' = [tasks EXCEPT ![k] = CompletedTask(tasks[k])]
      \/ tasks' = [tasks EXCEPT ![k] = FailedTask(tasks[k])]
  BY <1>1, <1>2 DEF CompleteTask, FailTask, Answer
<1>6. TypedQueue'
  <2> HIDE DEF Task, k
  <2>1. tasks' \in [TimerKinds -> Task]
    BY <1>1, <1>2, <1>4, <1>5
  <2> USE DEF Task
  <2> QED
    BY <2>1, <1>3 DEF TypedQueue, IInv, TypeOK
<1>7. Ends(p)
  <2>1. PICK j \in JobType : j = NoJob
    BY TypedAnswering DEF NoJob
  <2>2. Becomes(p, "idle", j)
    BY <1>3, <2>1, Becoming DEF IInv, Labels
  <2> QED
    BY <2>2 DEF Ends
<1> QED
  BY <1>3, <1>6, <1>7, EndingKeeps

LEMMA FailureKeeps ==
    ASSUME IInv, NEW p \in Procs, StorageError(p) \/ Die(p)
    PROVE  IInv'
<1>1. CASE StorageError(p)
  <2>1. Stands /\ UNCHANGED <<tasks, batch, now>> /\ faults' = faults + 1
    BY <1>1 DEF StorageError, Stands, rows, funds
  <2>2. TypedQueue'
    BY <2>1 DEF TypedQueue, IInv, TypeOK
  <2>3. Ends(p)
    BY <1>1, SucceedOrErrEnds DEF StorageError, IInv
  <2> QED
    BY <2>1, <2>2, <2>3, EndingKeeps
<1>2. CASE Die(p)
  <2>1. /\ Stands /\ UNCHANGED <<tasks, now>> /\ faults' = faults + 1
        /\ batch' = [batch EXCEPT ![p] = {}]
        /\ pc' = [pc EXCEPT ![p] = "idle"] /\ job' = [job EXCEPT ![p] = NoJob]
    BY <1>2 DEF Die, GoTo, Stands, rows, funds
  <2>2. TypedQueue'
    BY <2>1 DEF TypedQueue, IInv, TypeOK
  <2>3. PICK j \in JobType : j = NoJob
    BY TypedAnswering DEF NoJob
  <2>4. Becomes(p, "idle", j)
    BY <2>1, <2>3, Becoming DEF IInv, Labels
  <2>5. Ends(p)
    BY <2>4 DEF Ends
  <2> QED
    BY <2>1, <2>2, <2>5, EndingKeeps
<1> QED
  BY <1>1, <1>2

-----------------------------------------------------------------------------
(* apply(), up to the commit.                                              *)

\* A call in flight goes on to another label with the decision it took.
LEMMA InFlightKeeps ==
    ASSUME IInv, Stands, UNCHANGED <<tasks, now, batch, faults>>,
           NEW p \in Procs, pc[p] \in InFlight,
           NEW label \in InFlight, NEW j \in JobType, Becomes(p, label, j),
           j.actor = job[p].actor, j.at = job[p].at, j.result = job[p].result,
           j.held = job[p].held,
           j.taken => escrow # "none",
           (label \in {"seal", "commit"} /\ j.result.settlement = "Hold") => j.taken,
           label = "commit" => j.seq = Len(chain)
    PROVE  IInv'
<1>1. TypedQueue' /\ now <= now'
  BY DEF TypedQueue, IInv, TypeOK
<1>2. pc' \in [Procs -> Labels] /\ job' \in [Procs -> JobType]
  BY DEF Becomes
<1>3. TypeOK'
  BY <1>1, <1>2, StillTyped DEF IInv
<1>4. pc'[p] = label /\ job'[p] = j /\ \A q \in Procs : q # p => Rests(q)
  BY DEF Becomes, Rests
<1>5. Granted(job[p]) => Granted(j)'
  BY DEF Granted, LastRecorded, Stands
<1>6. Decided(p)'
  BY <1>4, <1>5 DEF IInv, Local, Decided, Stands
<1>7. Shaped(p)' /\ Sealed(p)' /\ Backed(p)' /\ ~Paying(p)'
  BY <1>4 DEF IInv, Local, Shaped, Sealed, Backed, Paying, InFlight, Stands
<1> QED
  BY <1>1, <1>3, <1>4, <1>6, <1>7, ProcessStep DEF Local

LEMMA LookupHoldKeeps ==
    ASSUME IInv, NEW p \in Procs, LookupHold(p)
    PROVE  IInv'
<1>1. pc[p] = "lookup" /\ Stands /\ UNCHANGED <<tasks, now, batch, faults>>
  BY DEF LookupHold, Stands, rows, funds
<1>2. job[p] \in JobType /\ TypeOK
  BY DEF IInv, TypeOK
<1>3. CASE escrow # "none"
  <2>1. pc' = [pc EXCEPT ![p] = "seal"] /\ job' = [job EXCEPT ![p].taken = TRUE]
    BY <1>3 DEF LookupHold, GoTo
  <2>2. PICK j : j = [job[p] EXCEPT !.taken = TRUE]
    OBVIOUS
  <2>3. /\ j \in JobType /\ j.taken
        /\ j.actor = job[p].actor /\ j.at = job[p].at /\ j.result = job[p].result
        /\ j.held = job[p].held
    BY <1>2, <2>2, TypedTaken
  <2>4. job' = [job EXCEPT ![p] = j]
    BY <2>1, <2>2
  <2>5. Becomes(p, "seal", j)
    BY <1>2, <2>1, <2>3, <2>4, Becoming DEF Labels
  <2> QED
    BY <1>1, <1>3, <2>3, <2>5, InFlightKeeps DEF InFlight
<1>4. CASE escrow = "none"
  <2>1. pc' = [pc EXCEPT ![p] = "insert"] /\ job' = job
    BY <1>4 DEF LookupHold, GoTo
  <2>2. Becomes(p, "insert", job[p])
    BY <1>2, <2>1, BecomingOnlyThere DEF Labels
  <2>3. job[p].taken => escrow # "none"
    BY <1>1 DEF IInv, Local, Backed, InFlight
  <2> QED
    BY <1>1, <1>2, <2>2, <2>3, InFlightKeeps DEF InFlight
<1> QED
  BY <1>3, <1>4

LEMMA SealKeeps ==
    ASSUME IInv, NEW p \in Procs, Seal(p)
    PROVE  IInv'
<1>1. /\ pc[p] = "seal" /\ Stands /\ UNCHANGED <<tasks, now, batch, faults>>
      /\ pc' = [pc EXCEPT ![p] = "commit"] /\ job' = [job EXCEPT ![p].seq = Len(chain)]
  BY DEF Seal, GoTo, Stands, rows, funds
<1>2. job[p] \in JobType /\ TypeOK /\ Len(chain) \in Nat
  BY DEF IInv, TypeOK
<1>3. PICK j : j = [job[p] EXCEPT !.seq = Len(chain)]
  OBVIOUS
<1>4. /\ j \in JobType /\ j.seq = Len(chain)
      /\ j.actor = job[p].actor /\ j.at = job[p].at /\ j.result = job[p].result
      /\ j.held = job[p].held /\ j.taken = job[p].taken
  BY <1>2, <1>3, TypedSealed
<1>5. job' = [job EXCEPT ![p] = j]
  BY <1>1, <1>3
<1>6. Becomes(p, "commit", j)
  BY <1>1, <1>2, <1>4, <1>5, Becoming DEF Labels
<1>7. /\ j.taken => escrow # "none"
      /\ j.result.settlement = "Hold" => j.taken
  BY <1>1, <1>4 DEF IInv, Local, Backed, InFlight
<1> QED
  BY <1>1, <1>4, <1>6, <1>7, InFlightKeeps DEF InFlight

\* A movement of the price keeps the ledger in step with the hold.
LEMMA LedgerTaken ==
    ASSUME ledger = LedgerOf("none")
    PROVE  Posted("buyer", "escrow") = LedgerOf("held")
<1>1. /\ ledger["buyer"] = 0 /\ ledger["escrow"] = 0 /\ ledger["seller"] = 0
      /\ ledger \in [Accounts -> Int]
  BY DEF LedgerOf, Accounts
<1>2. LedgerOf("held") = [a \in Accounts |->
                            IF a = "buyer" THEN -1 ELSE IF a = "escrow" THEN 1 ELSE 0]
  BY DEF LedgerOf, Accounts
<1>3. Posted("buyer", "escrow") = [ledger EXCEPT !["buyer"] = 0 - 1, !["escrow"] = 0 + 1]
  BY <1>1 DEF Posted
<1> QED
  BY <1>1, <1>2, <1>3 DEF Accounts

LEMMA LedgerPaid ==
    ASSUME ledger = LedgerOf("held"), NEW intent \in {"Release", "Refund"}
    PROVE  Posted("escrow", Payee(intent)) = LedgerOf(Settled(intent))
<1>1. /\ ledger["buyer"] = -1 /\ ledger["escrow"] = 1 /\ ledger["seller"] = 0
      /\ ledger \in [Accounts -> Int]
  BY DEF LedgerOf, Accounts
<1>2. CASE intent = "Release"
  <2>1. LedgerOf("released") = [a \in Accounts |->
                            IF a = "buyer" THEN -1 ELSE IF a = "escrow" THEN 0 ELSE 1]
    BY DEF LedgerOf, Accounts
  <2>2. Posted("escrow", "seller") = [ledger EXCEPT !["escrow"] = 1 - 1, !["seller"] = 0 + 1]
    BY <1>1 DEF Posted
  <2> QED
    BY <1>1, <1>2, <2>1, <2>2 DEF Accounts, Payee, Settled
<1>3. CASE intent = "Refund"
  <2>1. LedgerOf("refunded") = [a \in Accounts |-> 0]
    BY DEF LedgerOf, Accounts
  <2>2. Posted("escrow", "buyer") = [ledger EXCEPT !["escrow"] = 1 - 1, !["buyer"] = -1 + 1]
    BY <1>1 DEF Posted
  <2> QED
    BY <1>1, <1>3, <2>1, <2>2 DEF Accounts, Payee, Settled
<1> QED
  BY <1>2, <1>3

\* The transaction of the hold: nobody can be paying out what nobody has taken.
LEMMA InsertHoldKeeps ==
    ASSUME IInv, NEW p \in Procs, InsertHold(p)
    PROVE  IInv'
<1>1. /\ pc[p] = "insert"
      /\ UNCHANGED <<deal, handle, chain, intents, tasks, now, batch, faults>>
  BY DEF InsertHold, rows
<1>2. job[p] \in JobType /\ TypeOK
  BY DEF IInv, TypeOK
<1>3. CASE escrow # "none"
  <2>1. Err(p) /\ UNCHANGED <<escrow, ledger>>
    BY <1>3 DEF InsertHold, funds
  <2>2. Ends(p) /\ Stands /\ TypedQueue'
    BY <1>1, <1>2, <2>1, SucceedOrErrEnds DEF Stands, TypedQueue, TypeOK
  <2> QED
    BY <1>1, <2>2, EndingKeeps
<1>4. CASE escrow = "none"
  <2>1. /\ escrow' = "held" /\ ledger' = Posted("buyer", "escrow")
        /\ pc' = [pc EXCEPT ![p] = "seal"] /\ job' = [job EXCEPT ![p].taken = TRUE]
    BY <1>4 DEF InsertHold, GoTo
  <2>2. PICK j : j = [job[p] EXCEPT !.taken = TRUE]
    OBVIOUS
  <2>3. /\ j \in JobType /\ j.taken
        /\ j.actor = job[p].actor /\ j.at = job[p].at /\ j.result = job[p].result
        /\ j.held = job[p].held
    BY <1>2, <2>2, TypedTaken
  <2>4. job' = [job EXCEPT ![p] = j]
    BY <2>1, <2>2
  <2>5. Becomes(p, "seal", j)
    BY <1>2, <2>1, <2>3, <2>4, Becoming DEF Labels
  <2>6. ledger' = LedgerOf("held")
    BY <1>4, <2>1, LedgerTaken DEF IInv, Rows
  <2>7. TypeOK'
    <3>1. LedgerOf("held") \in [Accounts -> Int]
      BY DEF LedgerOf
    <3> QED
      BY <1>1, <1>2, <2>1, <2>5, <2>6, <3>1 DEF TypeOK, Becomes
  <2>8. Rows'
    BY <1>1, <1>4, <2>1, <2>6
       DEF IInv, Rows, LastRecorded, MoneyInOrder, CustodyIsBacked, PayoutsAreRecorded
  <2>9. \A q \in Procs : Local(q)' /\ ~Paying(q)'
    <3> SUFFICES ASSUME NEW q \in Procs
                 PROVE  Local(q)' /\ ~Paying(q)'
      OBVIOUS
    <3>1. ~Paying(q)
      BY <1>4 DEF IInv, Local, Backed
    <3>2. CASE q # p
      <4>1. pc'[q] = pc[q] /\ job'[q] = job[q]
        BY <2>5, <3>2 DEF Becomes
      <4>2. Shaped(q)' /\ Sealed(q)' /\ ~Paying(q)'
        BY <1>1, <3>1, <4>1 DEF IInv, Local, Shaped, Sealed, Paying
      <4>3. Decided(q)'
        BY <1>1, <4>1 DEF IInv, Local, Decided, Granted, LastRecorded
      <4>4. Backed(q)'
        BY <2>1, <4>1, <4>2 DEF IInv, Local, Backed
      <4> QED
        BY <4>2, <4>3, <4>4 DEF Local
    <3>3. CASE q = p
      <4>1. pc'[p] = "seal" /\ job'[p] = j
        BY <2>5 DEF Becomes
      <4>2. Shaped(p)' /\ Sealed(p)' /\ ~Paying(p)'
        BY <1>1, <2>3, <4>1 DEF IInv, Local, Shaped, Sealed, Paying, InFlight
      <4>3. Granted(job[p]) => Granted(j)'
        BY <1>1, <2>3 DEF Granted, LastRecorded
      <4>4. Decided(p)'
        BY <1>1, <2>3, <4>1, <4>3 DEF IInv, Local, Decided, InFlight
      <4>5. Backed(p)'
        BY <2>1, <2>3, <4>1, <4>2 DEF Backed
      <4> QED
        BY <3>3, <4>2, <4>4, <4>5 DEF Local
    <3> QED
      BY <3>2, <3>3
  <2> QED
    BY <2>7, <2>8, <2>9 DEF IInv, OnePayout
<1> QED
  BY <1>3, <1>4

-----------------------------------------------------------------------------
(* After the commit: timers and the payout.                                *)

LEMMA ApplyTimerKeeps ==
    ASSUME IInv, NEW p \in Procs, ApplyTimer(p)
    PROVE  IInv'
<1> DEFINE request == Head(job[p].todo)
           rest    == Tail(job[p].todo)
           Task == [state : {"none", "pending", "done", "cancelled"},
                    due : MaybeNat, lockedUntil : MaybeNat]
<1>1. /\ pc[p] = "timers" /\ Stands /\ UNCHANGED <<now, batch, faults>>
      /\ tasks' = [tasks EXCEPT ![request.kind] = Requested(@, request)]
      /\ \/ /\ rest # << >> /\ pc' = pc
            /\ job' = [job EXCEPT ![p].todo = rest]
         \/ AfterTimers(p, job[p].result)
  BY DEF ApplyTimer, Stands, rows, funds
<1>2. job[p] \in JobType /\ TypeOK /\ now <= now'
  BY <1>1 DEF IInv, TypeOK
<1>3. job[p].todo \in Seq(TimerRequest) /\ job[p].todo # << >>
  BY <1>1, <1>2 DEF IInv, Local, Shaped, JobType
<1>4. request \in TimerRequest /\ rest \in Seq(TimerRequest)
  BY <1>3
<1>5. TypedQueue'
  <2>1. /\ request.kind \in TimerKinds /\ request.due \in MaybeNat
        /\ tasks \in [TimerKinds -> Task] /\ None \in MaybeNat
    BY <1>2, <1>4 DEF TimerRequest, TypeOK, MaybeNat
  <2>2. ASSUME NEW task \in Task
        PROVE  Requested(task, request) \in Task
    <3> HIDE DEF request
    <3> QED
      BY <2>1 DEF Requested
  <2> HIDE DEF request, Task
  <2>3. tasks' \in [TimerKinds -> Task]
    BY <1>1, <2>1, <2>2
  <2> USE DEF Task
  <2> QED
    BY <1>1, <1>2, <2>3 DEF TypedQueue, TypeOK
<1>6. CASE rest # << >> /\ pc' = pc /\ job' = [job EXCEPT ![p].todo = rest]
  <2>1. PICK j : j = [job[p] EXCEPT !.todo = rest]
    OBVIOUS
  <2> HIDE DEF rest, request, Task
  <2>2. j \in JobType /\ j.todo = rest /\ j.result = job[p].result /\ j.held = job[p].held
    BY <1>2, <1>4, <2>1, TypedTodo
  <2>3. job' = [job EXCEPT ![p] = j] /\ pc' = [pc EXCEPT ![p] = "timers"]
    BY <1>1, <1>2, <1>6, <2>1 DEF TypeOK
  <2>4. Becomes(p, "timers", j)
    BY <1>2, <2>2, <2>3, Becoming DEF Labels
  <2>5. pc'[p] = "timers" /\ job'[p] = j /\ \A q \in Procs : q # p => Rests(q)
    BY <2>4 DEF Becomes, Rests
  <2>6. TypeOK'
    BY <1>1, <1>2, <1>5, <2>4, StillTyped DEF Becomes
  <2>7. Local(p)' /\ (Paying(p)' => Paying(p))
    BY <1>1, <1>6, <2>2, <2>5
       DEF IInv, Local, Shaped, Decided, Sealed, Backed, Paying, InFlight, Stands
  <2> QED
    BY <1>1, <1>2, <2>5, <2>6, <2>7, ProcessStep
<1>7. CASE AfterTimers(p, job[p].result)
  <2> HIDE DEF request, rest, Task
  <2>1. CASE Succeed(p)
    BY <1>1, <1>2, <1>5, <2>1, SucceedOrErrEnds, EndingKeeps
  <2>2. CASE /\ job[p].result.settlement \in {"Release", "Refund"}
             /\ pc' = [pc EXCEPT ![p] = "settle"] /\ job' = job
    <3>1. Becomes(p, "settle", job[p])
      BY <1>2, <2>2, BecomingOnlyThere DEF Labels
    <3>2. pc'[p] = "settle" /\ job'[p] = job[p] /\ \A q \in Procs : q # p => Rests(q)
      BY <3>1 DEF Becomes, Rests
    <3>3. TypeOK'
      BY <1>1, <1>2, <1>5, <3>1, StillTyped DEF Becomes
    <3>4. Local(p)' /\ (Paying(p)' => Paying(p))
      BY <1>1, <2>2, <3>2
         DEF IInv, Local, Shaped, Decided, Sealed, Backed, Paying, InFlight, Stands
    <3> QED
      BY <1>1, <1>2, <3>2, <3>3, <3>4, ProcessStep
  <2> QED
    BY <1>7, <2>1, <2>2 DEF AfterTimers, GoTo
<1> QED
  BY <1>1, <1>6, <1>7

\* The payout: it was this deal's turn, and nobody else's.
LEMMA SettleKeeps ==
    ASSUME IInv, NEW p \in Procs, Settle(p)
    PROVE  IInv'
<1>1. /\ pc[p] = "settle"
      /\ UNCHANGED <<deal, handle, chain, intents, tasks, now, batch, faults>>
  BY DEF Settle, rows
<1>2. PICK intent \in {"Release", "Refund"} : intent = job[p].result.settlement
  BY <1>1 DEF IInv, Local, Shaped
<1>3. Paying(p) /\ job[p].held /\ escrow = "held"
  BY <1>1, <1>2 DEF IInv, Local, Backed, Paying
<1>4. deal.state \in PaidStates /\ intents = <<"Hold", intent>>
  BY <1>2, <1>3 DEF IInv, Local, Backed
<1>5. /\ escrow' = Settled(intent) /\ ledger' = Posted("escrow", Payee(intent)) /\ Succeed(p)
  BY <1>2, <1>3 DEF Settle
<1>6. Ends(p)
  BY <1>5, SucceedOrErrEnds DEF IInv
<1>7. PICK label \in Ended, j \in JobType :
         Becomes(p, label, j) /\ (label # "idle" => j.task \in TimerKinds)
  BY <1>6 DEF Ends, Ended
<1>8. ledger' = LedgerOf(Settled(intent))
  BY <1>3, <1>5, LedgerPaid DEF IInv, Rows
<1>9. Settled(intent) \in {"released", "refunded"}
  BY DEF Settled
<1>10. TypeOK'
  <2>1. LedgerOf(Settled(intent)) \in [Accounts -> Int]
    BY DEF LedgerOf
  <2> QED
    BY <1>1, <1>5, <1>7, <1>8, <1>9, <2>1 DEF IInv, TypeOK, Becomes
<1>11. Rows'
  <2>1. /\ LastRecorded' \in Nat /\ LastRecorded' <= now'
        /\ MoneyInOrder(deal, intents)'
    BY <1>1 DEF IInv, Rows, LastRecorded, MoneyInOrder
  <2>2. CustodyIsBacked'
    BY <1>1, <1>4 DEF CustodyIsBacked, FundsHeld, CustodyStates, PaidStates
  <2>3. PayoutsAreRecorded'
    BY <1>1, <1>4, <1>5 DEF PayoutsAreRecorded, IsTerminal, TerminalStates, PaidStates
  <2> QED
    BY <1>5, <1>8, <1>9, <2>1, <2>2, <2>3 DEF Rows
<1>12. ASSUME NEW q \in Procs
       PROVE  Local(q)' /\ ~Paying(q)'
  <2>1. CASE q = p
    <3>1. pc'[q] \in Ended /\ (pc'[q] # "idle" => job'[q].task \in TimerKinds)
      BY <1>7, <2>1 DEF Becomes
    <3> QED
      BY <3>1 DEF Local, Shaped, Decided, Sealed, Backed, Paying, InFlight, Ended
  <2>2. CASE q # p
    <3>1. pc'[q] = pc[q] /\ job'[q] = job[q]
      BY <1>7, <2>2 DEF Becomes
    <3>2. ~Paying(q)
      BY <1>3, <2>2 DEF IInv, OnePayout
    <3>3. Shaped(q)' /\ Sealed(q)' /\ ~Paying(q)'
      BY <1>1, <3>1, <3>2 DEF IInv, Local, Shaped, Sealed, Paying
    <3>4. Decided(q)'
      BY <1>1, <3>1 DEF IInv, Local, Decided, Granted, LastRecorded
    <3>5. Backed(q)'
      BY <1>5, <1>9, <3>1, <3>3 DEF IInv, Local, Backed
    <3> QED
      BY <3>3, <3>4, <3>5 DEF Local
  <2> QED
    BY <2>1, <2>2
<1> QED
  BY <1>10, <1>11, <1>12 DEF IInv, OnePayout

-----------------------------------------------------------------------------
(* The commit.                                                             *)

\* Where a transition may take the money: it closes an open deal, and what it
\* pays out was held.
LEMMA MoneyMoves ==
    ASSUME NEW d \in DealType, NEW cmd, WellFormed(cmd), NEW actor \in Actors,
           NEW at \in Nat, NEW t \in Transition(d, cmd, actor, at)
    PROVE  /\ ~IsTerminal(d)
           /\ FundsHeld(t.deal) => FundsHeld(d) \/ t.settlement = "Hold"
           /\ t.deal.state \in PaidStates => FundsHeld(d)
           /\ t.settlement \in {"Release", "Refund"} =>
                 FundsHeld(d) /\ t.deal.state \in PaidStates
<1>1. CASE Negotiates(d, t.deal, at) /\ t.settlement = "None"
  BY <1>1 DEF Negotiates, IsTerminal, TerminalStates, FundsHeld, CustodyStates, PaidStates
<1>2. CASE Freezes(d, t.deal, at) /\ t.settlement = "None"
  BY <1>2 DEF Freezes, IsTerminal, TerminalStates, FundsHeld, CustodyStates, PaidStates
<1>3. CASE <<d.state, t.deal.state, t.settlement>> \in Edges
  BY <1>3 DEF Edges, IsTerminal, TerminalStates, FundsHeld, CustodyStates, PaidStates
<1>4. CASE Resolves(d, t)
  BY <1>4 DEF Resolves, IsTerminal, TerminalStates, FundsHeld, CustodyStates, PaidStates
<1> QED
  BY <1>1, <1>2, <1>3, <1>4, TransitionEffect

\* What the transaction writes: a decision made on the deal as it stands.
Writes(p, t, cmd) ==
    /\ WellFormed(cmd) /\ job[p].actor \in Actors /\ job[p].at \in Nat
    /\ job[p].result = t /\ t \in TransitionType /\ Granted(job[p])
    /\ t \in Transition(deal, cmd, job[p].actor, job[p].at)
    /\ LastRecorded <= job[p].at /\ job[p].at <= now
    /\ job[p].held = handle
    /\ deal' = t.deal /\ handle' = (handle \/ job[p].taken)
    /\ chain' = Append(chain, Row(t.action, job[p].actor, job[p].at))
    /\ intents' = Asked(intents, t)
    /\ UNCHANGED <<tasks, escrow, ledger, now, batch, faults>>

\* Where it leaves the process: with timers to set, with money to move, or done.
Proceeds(p, t) ==
    \/ Ends(p) /\ t.settlement \notin {"Release", "Refund"}
    \/ \E label \in {"timers", "settle"}, j \in JobType :
          /\ Becomes(p, label, j)
          /\ j.result = t /\ j.held = job[p].held
          /\ label = "timers" => j.todo # << >>
          /\ label = "settle" => t.settlement \in {"Release", "Refund"}

LEMMA CommitWrites ==
    ASSUME IInv, NEW p \in Procs, Commit(p), VersionHolds(p), SeqIsFree(p)
    PROVE  \E t, cmd : Writes(p, t, cmd) /\ Proceeds(p, t)
<1> DEFINE t == job[p].result
<1>1. /\ pc[p] = "commit" /\ TypeOK /\ job[p] \in JobType
  BY DEF Commit, CommitIf, IInv, TypeOK
<1>2. t \in TransitionType /\ job[p].actor \in Actors /\ job[p].at \in Nat
  BY <1>1 DEF IInv, Local, Shaped, InFlight
<1>3. deal.version \in Nat /\ t.deal.version \in Nat
  BY <1>1, <1>2 DEF TypeOK, TransitionType, DealType
<1>4. Granted(job[p])
  BY <1>1, <1>3 DEF VersionHolds, IInv, Local, Decided, InFlight
<1>5. PICK cmd : WellFormed(cmd) /\ t \in Transition(deal, cmd, job[p].actor, job[p].at)
  <2>1. CASE \E r \in Offered :
                r.actor = job[p].actor /\ t \in Transition(deal, r.cmd, job[p].actor, job[p].at)
    BY <2>1, RequestsAreWellFormed
  <2>2. CASE /\ job[p].actor = "system"
             /\ \E k \in TimerKinds :
                   t \in Transition(deal, TimerCommand(k), "system", job[p].at)
    <3>1. \A k \in TimerKinds : WellFormed(TimerCommand(k))
      BY DEF WellFormed, TimerCommand, Command
    <3> QED
      BY <2>2, <3>1
  <2> QED
    BY <1>4, <2>1, <2>2 DEF Granted
<1>6. /\ deal' = t.deal /\ handle' = (handle \/ job[p].taken)
      /\ chain' = Append(chain, Row(t.action, job[p].actor, job[p].at))
      /\ intents' = Asked(intents, t)
      /\ UNCHANGED <<tasks, escrow, ledger, now, batch, faults>>
      /\ \/ /\ t.timers # << >>
            /\ job' = [job EXCEPT ![p].todo = t.timers] /\ GoTo(p, "timers")
         \/ AfterTimers(p, t)
  BY DEF Commit, CommitIf, Asked, funds
<1>7. Writes(p, t, cmd)
  BY <1>2, <1>4, <1>5, <1>6 DEF Writes, Granted
<1>8. CASE /\ t.timers # << >>
           /\ job' = [job EXCEPT ![p].todo = t.timers] /\ GoTo(p, "timers")
  <2>1. t.timers \in Seq(TimerRequest)
    BY <1>2 DEF TransitionType
  <2>2. PICK todo \in Seq(TimerRequest) : todo = t.timers
    BY <2>1
  <2>3. PICK j : j = [job[p] EXCEPT !.todo = todo]
    OBVIOUS
  <2>4. j \in JobType /\ j.todo = todo /\ j.result = job[p].result /\ j.held = job[p].held
    BY <1>1, <2>3, TypedTodo
  <2>5. job' = [job EXCEPT ![p] = j] /\ pc' = [pc EXCEPT ![p] = "timers"]
    BY <1>8, <2>2, <2>3 DEF GoTo
  <2>6. Becomes(p, "timers", j)
    BY <1>1, <2>4, <2>5, Becoming DEF Labels
  <2> QED
    BY <1>7, <1>8, <2>2, <2>4, <2>6 DEF Proceeds
<1>9. CASE AfterTimers(p, t)
  <2>1. CASE Succeed(p) /\ t.settlement \notin {"Release", "Refund"}
    BY <1>1, <1>7, <2>1, SucceedOrErrEnds DEF Proceeds
  <2>2. CASE /\ t.settlement \in {"Release", "Refund"}
             /\ pc' = [pc EXCEPT ![p] = "settle"] /\ job' = job
    <3>1. Becomes(p, "settle", job[p])
      BY <1>1, <2>2, BecomingOnlyThere DEF Labels
    <3> QED
      BY <1>1, <1>7, <2>2, <3>1 DEF Proceeds
  <2> QED
    BY <1>9, <2>1, <2>2 DEF AfterTimers, GoTo
<1> QED
  BY <1>6, <1>8, <1>9, <1>7

LEMMA WritingKeepsRows ==
    ASSUME IInv, NEW p \in Procs, pc[p] = "commit", NEW t, NEW cmd, Writes(p, t, cmd)
    PROVE  /\ Rows'
           /\ LastRecorded' = job[p].at
           /\ t.settlement \in {"Release", "Refund"} =>
                 /\ handle /\ escrow = "held" /\ deal'.state \in PaidStates
                 /\ intents' = <<"Hold", t.settlement>>
<1> DEFINE actor == job[p].actor
           at    == job[p].at
<1>1. /\ deal \in DealType /\ WellFormed(cmd) /\ actor \in Actors /\ at \in Nat
      /\ t \in Transition(deal, cmd, actor, at) /\ t \in TransitionType
      /\ LastRecorded <= at /\ at <= now
      /\ deal' = t.deal /\ handle' = (handle \/ job[p].taken)
      /\ chain' = Append(chain, Row(t.action, actor, at))
      /\ intents' = Asked(intents, t) /\ UNCHANGED <<escrow, ledger, now>>
  BY DEF Writes, IInv, TypeOK
<1>2. /\ ~IsTerminal(deal)
      /\ FundsHeld(t.deal) => FundsHeld(deal) \/ t.settlement = "Hold"
      /\ t.deal.state \in PaidStates => FundsHeld(deal)
      /\ t.settlement \in {"Release", "Refund"} =>
            FundsHeld(deal) /\ t.deal.state \in PaidStates
  BY <1>1, MoneyMoves
<1>3. LastRecorded' = at
  <2> DEFINE Entry == [action : AttestationActions, actor : Actors, at : Nat]
             row == [action |-> t.action, actor |-> actor, at |-> at]
  <2>1. chain \in Seq(Entry) /\ row \in Entry
    BY <1>1 DEF TransitionType, IInv, TypeOK
  <2>2. chain' = Append(chain, row) /\ row.at = at
    BY <1>1 DEF Row
  <2> HIDE DEF Entry, row, at, actor
  <2>3. chain' # << >> /\ chain'[Len(chain')] = row
    BY <2>1, <2>2, AppendProperties
  <2> QED
    BY <2>2, <2>3 DEF LastRecorded
<1> HIDE DEF actor, at
<1>4. MoneyInOrder(deal', intents')
  BY <1>1, TransitionSettles DEF IInv, Rows
<1>5. escrow \in {"none", "held"}
  BY <1>2 DEF IInv, TypeOK, Rows, PayoutsAreRecorded
<1>6. t.settlement = "Hold" => escrow = "held" /\ job[p].taken
  BY <1>5 DEF IInv, Local, Backed, InFlight, Writes
<1>7. FundsHeld(deal) => escrow = "held" /\ handle
  BY DEF IInv, Rows, CustodyIsBacked
<1>8. CustodyIsBacked'
  BY <1>1, <1>2, <1>6, <1>7 DEF CustodyIsBacked
<1>9. PayoutsAreRecorded'
  BY <1>1, <1>5 DEF PayoutsAreRecorded
<1>10. Rows'
  BY <1>1, <1>2, <1>3, <1>4, <1>7, <1>8, <1>9 DEF Rows, IInv
<1>11. t.settlement \in {"Release", "Refund"} => intents' = <<"Hold", t.settlement>>
  <2>1. FundsHeld(deal) => intents = <<"Hold">>
    BY DEF IInv, Rows, MoneyInOrder
  <2>2. Append(<<"Hold">>, t.settlement) = <<"Hold", t.settlement>>
    BY AppendSecond
  <2> QED
    BY <1>1, <1>2, <2>1, <2>2 DEF Asked
<1> QED
  BY <1>1, <1>2, <1>3, <1>7, <1>10, <1>11 DEF at

\* Whoever else has a decision in flight is overtaken, and nobody was paying.
LEMMA WritingOvertakes ==
    ASSUME IInv, NEW p \in Procs, pc[p] = "commit", NEW t, NEW cmd, Writes(p, t, cmd),
           NEW q \in Procs, pc'[q] = pc[q], job'[q] = job[q]
    PROVE  Local(q)' /\ ~Paying(q)'
<1>1. /\ deal \in DealType /\ WellFormed(cmd) /\ job[p].actor \in Actors /\ job[p].at \in Nat
      /\ t \in Transition(deal, cmd, job[p].actor, job[p].at)
      /\ deal' = t.deal /\ UNCHANGED <<escrow, ledger, now>>
  BY DEF Writes, IInv, TypeOK
<1>2. ~IsTerminal(deal)
  BY <1>1, MoneyMoves
<1>3. ~Paying(q)
  BY <1>2 DEF IInv, Local, Backed, IsTerminal, TerminalStates, PaidStates
<1>4. deal'.version = deal.version + 1 /\ deal.version \in Nat
  <2>1. t.deal.version = deal.version + 1
    BY <1>1, TransitionTyped
  <2> QED
    BY <1>1, <2>1 DEF DealType
<1>5. pc[q] \in InFlight => job[q].result.deal.version \in Nat
  BY DEF IInv, Local, Shaped, TransitionType, DealType
<1>6. Shaped(q)' /\ ~Paying(q)'
  BY <1>3 DEF IInv, Local, Shaped, Paying
<1>7. Decided(q)' /\ Sealed(q)'
  BY <1>4, <1>5 DEF IInv, Local, Decided, Sealed, InFlight
<1>8. Backed(q)'
  BY <1>1, <1>6 DEF IInv, Local, Backed
<1> QED
  BY <1>6, <1>7, <1>8 DEF Local

LEMMA CommitKeeps ==
    ASSUME IInv, NEW p \in Procs, Commit(p)
    PROVE  IInv'
<1>1. pc[p] = "commit" /\ TypeOK
  BY DEF Commit, CommitIf, IInv
<1>2. CASE ~(VersionHolds(p) /\ SeqIsFree(p))
  <2>1. Err(p) /\ UNCHANGED <<rows, tasks, funds, now, batch, faults>>
    BY <1>2 DEF Commit, CommitIf
  <2>2. Ends(p) /\ Stands /\ UNCHANGED now /\ TypedQueue'
    BY <1>1, <2>1, SucceedOrErrEnds DEF Stands, TypedQueue, TypeOK, rows, funds
  <2> QED
    BY <2>2, EndingKeeps
<1>3. CASE VersionHolds(p) /\ SeqIsFree(p)
  <2>1. PICK t, cmd : Writes(p, t, cmd) /\ Proceeds(p, t)
    BY <1>3, CommitWrites
  <2>2. /\ pc' \in [Procs -> Labels] /\ job' \in [Procs -> JobType]
        /\ \A q \in Procs : q # p => pc'[q] = pc[q] /\ job'[q] = job[q]
    BY <2>1 DEF Proceeds, Ends, Becomes
  <2>3. /\ Rows'
        /\ t.settlement \in {"Release", "Refund"} =>
              /\ handle /\ escrow = "held" /\ deal'.state \in PaidStates
              /\ intents' = <<"Hold", t.settlement>>
    BY <1>1, <2>1, WritingKeepsRows
  <2>4. \A q \in Procs : q # p => Local(q)' /\ ~Paying(q)'
    BY <1>1, <2>1, <2>2, WritingOvertakes
  <2>5. Local(p)'
    <3>1. CASE Ends(p)
      <4>1. pc'[p] \in Ended /\ (pc'[p] # "idle" => job'[p].task \in TimerKinds)
        BY <3>1 DEF Ends, Becomes, Ended
      <4> QED
        BY <4>1 DEF Local, Shaped, Decided, Sealed, Backed, Paying, InFlight, Ended
    <3>2. CASE \E label \in {"timers", "settle"}, j \in JobType :
                  /\ Becomes(p, label, j)
                  /\ j.result = t /\ j.held = job[p].held
                  /\ label = "timers" => j.todo # << >>
                  /\ label = "settle" => t.settlement \in {"Release", "Refund"}
      <4>1. PICK label \in {"timers", "settle"}, j \in JobType :
               /\ pc'[p] = label /\ job'[p] = j
               /\ j.result = t /\ j.held = job[p].held
               /\ label = "timers" => j.todo # << >>
               /\ label = "settle" => t.settlement \in {"Release", "Refund"}
        BY <3>2 DEF Becomes
      <4>2. t \in TransitionType /\ job[p].held = handle /\ UNCHANGED escrow
        BY <2>1 DEF Writes
      <4>3. Shaped(p)' /\ Decided(p)' /\ Sealed(p)'
        BY <4>1, <4>2 DEF Shaped, Decided, Sealed, InFlight
      <4>4. Backed(p)'
        BY <2>3, <4>1, <4>2 DEF Backed, Paying, InFlight
      <4> QED
        BY <4>3, <4>4 DEF Local
    <3> QED
      BY <2>1, <3>1, <3>2 DEF Proceeds
  <2>6. OnePayout' /\ \A q \in Procs : Local(q)'
    BY <2>4, <2>5 DEF OnePayout
  <2>7. TypeOK'
    <3>1. /\ deal' \in DealType /\ handle' \in BOOLEAN
      <4>1. job[p].taken \in BOOLEAN
        BY <1>1 DEF TypeOK, JobType
      <4> QED
        BY <1>1, <2>1, <4>1 DEF Writes, TransitionType, TypeOK
    <3>2. chain' \in Seq([action : AttestationActions, actor : Actors, at : Nat])
      <4>1. Row(t.action, job[p].actor, job[p].at)
               \in [action : AttestationActions, actor : Actors, at : Nat]
        BY <2>1 DEF Writes, Row, TransitionType
      <4> QED
        BY <1>1, <2>1, <4>1 DEF Writes, TypeOK
    <3>3. intents' \in Seq(SettlementIntents)
      BY <1>1, <2>1 DEF Writes, Asked, TypeOK, TransitionType
    <3>4. UNCHANGED <<tasks, escrow, ledger, now, batch, faults>>
      BY <2>1 DEF Writes
    <3> QED
      BY <1>1, <2>2, <3>1, <3>2, <3>3, <3>4 DEF TypeOK
  <2> QED
    BY <2>3, <2>6, <2>7 DEF IInv
<1> QED
  BY <1>2, <1>3

-----------------------------------------------------------------------------
LEMMA InitIInv == Init => IInv
<1> SUFFICES ASSUME Init PROVE IInv
  OBVIOUS
<1>1. /\ deal = NewDeal /\ handle = FALSE /\ chain = << >> /\ intents = << >>
      /\ tasks = [k \in TimerKinds |-> NoTask]
      /\ escrow = "none" /\ ledger = [a \in Accounts |-> 0] /\ now = 0 /\ faults = 0
      /\ pc = [p \in Procs |-> "idle"] /\ job = [p \in Procs |-> NoJob]
      /\ batch = [p \in Procs |-> {}]
  BY DEF Init
<1>2. NewDeal \in DealType /\ NewDeal.state = "Draft" /\ NewDeal.outcome = "None"
  BY DEF NewDeal, DealType, States, MaybeNat, None, Nobody, NoHash, CanonicalHash
<1>3. TypeOK
  <2>1. NoJob \in JobType
    BY TypedAnswering DEF NoJob
  <2>2. NoTask \in [state : {"none", "pending", "done", "cancelled"},
                    due : MaybeNat, lockedUntil : MaybeNat]
    BY DEF NoTask, MaybeNat
  <2>3. /\ pc \in [Procs -> Labels]
        /\ job \in [Procs -> JobType]
        /\ batch \in [Procs -> SUBSET TimerKinds]
    BY <1>1, <2>1 DEF Labels
  <2>4. tasks \in [TimerKinds -> [state : {"none", "pending", "done", "cancelled"},
                                  due : MaybeNat, lockedUntil : MaybeNat]]
    BY <1>1, <2>2
  <2>5. ledger \in [Accounts -> Int]
    BY <1>1
  <2>6. /\ chain \in Seq([action : AttestationActions, actor : Actors, at : Nat])
        /\ intents \in Seq(SettlementIntents)
    BY <1>1
  <2>7. /\ deal \in DealType /\ handle \in BOOLEAN /\ now \in Nat /\ faults \in Nat
        /\ escrow \in {"none", "held", "released", "refunded"}
    BY <1>1, <1>2
  <2> QED
    BY <2>3, <2>4, <2>5, <2>6, <2>7 DEF TypeOK
<1>4. Rows
  <2>1. LedgerOf("none") = [a \in Accounts |-> 0]
    BY DEF LedgerOf, Accounts
  <2>2. MoneyInOrder(deal, intents)
    BY <1>1, <1>2
       DEF MoneyInOrder, FundsHeld, CustodyStates, UnfundedStates, OutcomeIsResolution
  <2> QED
    BY <1>1, <1>2, <2>1, <2>2
       DEF Rows, LastRecorded, CustodyIsBacked, FundsHeld, CustodyStates, PayoutsAreRecorded,
           PaidStates
<1>5. \A q \in Procs : Local(q) /\ ~Paying(q)
  BY <1>1 DEF Local, Shaped, Decided, Sealed, Backed, Paying, InFlight
<1> QED
  BY <1>3, <1>4, <1>5 DEF IInv, OnePayout

LEMMA StepKeepsIInv == IInv /\ [Next]_vars => IInv'
<1> SUFFICES ASSUME IInv, [Next]_vars PROVE IInv'
  OBVIOUS
<1>1. CASE UNCHANGED vars
  <2>1. /\ Stands /\ UNCHANGED <<tasks, batch, now, faults, pc, job>>
        /\ \A q \in Procs : Rests(q)
    BY <1>1 DEF vars, rows, funds, procs, Stands, Rests
  <2>2. TypedQueue' /\ now <= now' /\ pc' \in [Procs -> Labels] /\ job' \in [Procs -> JobType]
    BY <2>1 DEF TypedQueue, IInv, TypeOK
  <2> QED
    BY <2>1, <2>2, StillTyped, RestKeeps DEF IInv
<1>2. CASE Tick
  BY <1>2, TickKeeps
<1>3. ASSUME NEW p \in Procs, Receive(p)
      PROVE  IInv'
  <2>1. TypeOK' /\ Stands /\ UNCHANGED now /\ Decides(p)
    BY <1>3, ReceiveEffect DEF IInv
  <2> QED
    BY <2>1, DecidedKeeps
<1>4. ASSUME NEW p \in Procs, ApplyStep(p)
      PROVE  IInv'
  BY <1>4, LookupHoldKeeps, InsertHoldKeeps, SealKeeps, CommitKeeps, ApplyTimerKeeps,
     SettleKeeps DEF ApplyStep
<1>5. ASSUME NEW p \in Procs, WorkerStep(p)
      PROVE  IInv'
  <2>1. CASE FireTask(p)
    <3>1. /\ TypeOK' /\ Stands /\ UNCHANGED now
          /\ Decides(p) \/ Ends(p)
      BY <2>1, FireTaskEffect DEF IInv
    <3>2. now <= now'
      BY <3>1 DEF IInv, TypeOK
    <3> QED
      BY <3>1, <3>2, DecidedKeeps, EndedKeeps
  <2> QED
    BY <1>5, <2>1, ClaimDueKeeps, AnswerKeeps DEF WorkerStep
<1>6. ASSUME NEW p \in Procs, StorageError(p) \/ Die(p)
      PROVE  IInv'
  BY <1>6, FailureKeeps
<1> QED
  BY <1>1, <1>2, <1>3, <1>4, <1>5, <1>6 DEF Next

LEMMA Inductive == Spec => []IInv
BY InitIInv, StepKeepsIInv, PTL DEF Spec

-----------------------------------------------------------------------------
\* No interleaving of requests, sweeps, crashes and storage errors puts a value
\* of the wrong kind in a row or in the locals of a call.
THEOREM RowsAreTyped == Spec => []TypeOK
<1>1. IInv => TypeOK
  BY DEF IInv
<1> QED
  BY <1>1, Inductive, PTL

\* The version predicate of save() alone keeps the attestation chain from
\* forking, although seal() reads the head outside the transaction.
THEOREM ChainNeverForks == Spec => []SealsOnTheHead
<1>1. IInv => SealsOnTheHead
  BY DEF IInv, Local, Sealed, SealsOnTheHead
<1> QED
  BY <1>1, Inductive, PTL

\* service.rs, "never record funds we failed to take": a deal that says its
\* funds are held has them in escrow, and the handle to move them by.
THEOREM RecordedFundsAreHeld == Spec => []CustodyIsBacked
<1>1. IInv => CustodyIsBacked
  BY DEF IInv, Rows
<1> QED
  BY <1>1, Inductive, PTL

\* service.rs, "never move money we failed to record": what has left escrow is
\* what the last committed settlement of the closed deal says.
THEOREM MovedFundsAreRecorded == Spec => []PayoutsAreRecorded
<1>1. IInv => PayoutsAreRecorded
  BY DEF IInv, Rows
<1> QED
  BY <1>1, Inductive, PTL

\* A release or refund that gets its turn finds its handle and the money, and
\* no other payout of the deal is under way.
THEOREM SettlementsSucceed == Spec => []SettlementFindsTheMoney
<1>1. IInv => SettlementFindsTheMoney
  <2> SUFFICES ASSUME IInv, NEW p \in Procs, pc[p] = "settle"
               PROVE  /\ job[p].held /\ escrow = "held"
                      /\ \A q \in Procs : pc[q] = "settle" => q = p
    BY DEF SettlementFindsTheMoney
  <2>1. \A q \in Procs : pc[q] = "settle" => Paying(q)
    BY DEF IInv, Local, Shaped, Paying
  <2> QED
    BY <2>1 DEF IInv, Local, Backed, OnePayout
<1> QED
  BY <1>1, Inductive, PTL

-----------------------------------------------------------------------------
(* Deadlines: what the queue, the sweeps and the calls know of them goes   *)
(* back to rows of the chain, and the chain only grows.                    *)

Started(attested, k, due) ==
    \E i \in DOMAIN attested :
        attested[i].action \in StartedBy[k] /\ due = attested[i].at + Window[k]

Ran(attested, k, at) ==
    \E i \in DOMAIN attested :
        attested[i].action \in StartedBy[k] /\ at >= attested[i].at + Window[k]

QueueStarted ==
    \A k \in TimerKinds :
        /\ tasks[k].state = "pending" => tasks[k].due # None
        /\ tasks[k].due # None => Started(chain, k, tasks[k].due)

\* What a decision under way asks of the timers, and what it rests on.
Timed(attested, j) ==
    /\ \A n \in DOMAIN j.result.timers : j.result.timers[n].due # None =>
          /\ j.result.action \in StartedBy[j.result.timers[n].kind]
          /\ j.result.timers[n].due = j.at + Window[j.result.timers[n].kind]
    /\ (j.actor = "system" /\ j.result.action # "WitnessProposed") =>
          \E k \in TimerKinds : Ran(attested, k, j.at) /\ j.result.action \in LeadsTo[k]

Timely(q) ==
    /\ \A k \in batch[q] : tasks[k].due # None /\ Ran(chain, k, now)
    /\ job[q].task # "none" => tasks[job[q].task].due # None
    /\ pc[q] \in InFlight => Timed(chain, job[q])
    /\ pc[q] = "timers" => \A n \in DOMAIN job[q].todo :
          job[q].todo[n].due # None => Started(chain, job[q].todo[n].kind, job[q].todo[n].due)

Punctual ==
    /\ QueueStarted
    /\ \A q \in Procs : Timely(q)
    /\ SystemActsOnAPassedDeadline

\* Rows are added to the chain, and a task that has a due date keeps one.
Grows ==
    /\ chain' = chain \/ \E row : chain' = Append(chain, row)
    /\ \A k \in TimerKinds : tasks[k].due # None => tasks'[k].due # None
    /\ now <= now' /\ now' \in Nat

LEMMA StartedStays ==
    ASSUME TypeOK, Grows
    PROVE  /\ \A k, due : Started(chain, k, due) => Started(chain', k, due)
           /\ \A k, at : Ran(chain, k, at) => Ran(chain', k, at)
           /\ \A i \in DOMAIN chain : i \in DOMAIN chain' /\ chain'[i] = chain[i]
<1>1. \A i \in DOMAIN chain : i \in DOMAIN chain' /\ chain'[i] = chain[i]
  <2>1. CASE chain' = chain
    BY <2>1
  <2>2. ASSUME NEW row, chain' = Append(chain, row)
        PROVE  \A i \in DOMAIN chain : i \in DOMAIN chain' /\ chain'[i] = chain[i]
    BY <2>2 DEF TypeOK
  <2> QED
    BY <2>1, <2>2 DEF Grows
<1> QED
  BY <1>1 DEF Started, Ran

\* A deadline that has passed stays passed.
LEMMA RanStays ==
    ASSUME TypeOK, Grows, NEW k \in TimerKinds, Ran(chain, k, now)
    PROVE  Ran(chain', k, now')
<1>1. PICK i \in DOMAIN chain :
         chain[i].action \in StartedBy[k] /\ now >= chain[i].at + Window[k]
  BY DEF Ran
<1>2. chain[i].at \in Nat /\ now \in Nat /\ now' \in Nat /\ now <= now'
  <2> DEFINE Attestations == [action : AttestationActions, actor : Actors, at : Nat]
  <2>1. chain \in Seq(Attestations) /\ \A row \in Attestations : row.at \in Nat
    BY DEF TypeOK
  <2> HIDE DEF Attestations
  <2>2. chain[i] \in Attestations
    BY <1>1, <2>1
  <2> QED
    BY <2>1, <2>2 DEF TypeOK, Grows
<1>3. Window[k] \in Nat
  BY WindowsAssumption DEF Window, TimerKinds
<1>4. now' >= chain[i].at + Window[k]
  BY <1>1, <1>2, <1>3
<1>5. Ran(chain, k, now')
  BY <1>1, <1>4 DEF Ran
<1> QED
  BY <1>5, StartedStays

LEMMA BatchStaysTimely ==
    ASSUME TypeOK, Grows, NEW q \in Procs, Timely(q), batch'[q] \subseteq batch[q]
    PROVE  \A k \in batch'[q] : tasks'[k].due # None /\ Ran(chain', k, now')
<1>1. batch[q] \subseteq TimerKinds
  BY DEF TypeOK
<1> QED
  BY <1>1, RanStays DEF Timely, Grows

LEMMA TaskStays ==
    ASSUME TypeOK, Grows, NEW q \in Procs, Timely(q), job'[q].task \in {job[q].task, "none"}
    PROVE  job'[q].task # "none" => tasks'[job'[q].task].due # None
<1>1. job[q].task \in TimerKinds \cup {"none"}
  BY DEF TypeOK, JobType
<1> QED
  BY <1>1 DEF Timely, Grows

LEMMA TimedStays ==
    ASSUME TypeOK, Grows, NEW i, NEW j, Timed(chain, i),
           j.result = i.result /\ j.actor = i.actor /\ j.at = i.at
    PROVE  Timed(chain', j)
BY StartedStays DEF Timed

\* A process that does nothing, that goes on with its call, or that ends it.
LEMMA StaysTimely ==
    ASSUME TypeOK, Grows, NEW q \in Procs, Timely(q), batch'[q] \subseteq batch[q],
           \/ pc'[q] = pc[q] /\ job'[q] = job[q]
           \/ /\ pc[q] \in InFlight /\ pc'[q] \in InFlight
              /\ job'[q].result = job[q].result /\ job'[q].actor = job[q].actor
              /\ job'[q].at = job[q].at /\ job'[q].task = job[q].task
           \/ /\ pc'[q] \in Ended \cup {"settle"}
              /\ job'[q].task \in {job[q].task, "none"}
    PROVE  Timely(q)'
<1>1. \A k \in batch'[q] : tasks'[k].due # None /\ Ran(chain', k, now')
  BY BatchStaysTimely
<1>2. job'[q].task # "none" => tasks'[job'[q].task].due # None
  BY TaskStays
<1>3. pc'[q] \in InFlight => Timed(chain', job'[q])
  <2>1. pc'[q] \in InFlight =>
           /\ pc[q] \in InFlight
           /\ job'[q].result = job[q].result /\ job'[q].actor = job[q].actor
           /\ job'[q].at = job[q].at
    BY DEF InFlight, Ended
  <2>2. pc[q] \in InFlight => Timed(chain, job[q])
    BY DEF Timely
  <2> QED
    BY <2>1, <2>2, TimedStays
<1>4. pc'[q] = "timers" => \A n \in DOMAIN job'[q].todo :
         job'[q].todo[n].due # None => Started(chain', job'[q].todo[n].kind, job'[q].todo[n].due)
  <2>1. pc'[q] = "timers" => pc[q] = "timers" /\ job'[q] = job[q]
    BY DEF InFlight, Ended
  <2> QED
    BY <2>1, StartedStays DEF Timely
<1> QED
  BY <1>1, <1>2, <1>3, <1>4 DEF Timely

\* A step that leaves chain and queue alone and does something to one process.
LEMMA PunctualStep ==
    ASSUME TypeOK, Punctual, UNCHANGED <<chain, tasks>>, now <= now', now' \in Nat,
           NEW p \in Procs, Timely(p)',
           \A q \in Procs : q # p =>
              pc'[q] = pc[q] /\ job'[q] = job[q] /\ batch'[q] \subseteq batch[q]
    PROVE  Punctual'
<1>1. Grows
  BY DEF Grows
<1>2. \A q \in Procs : Timely(q)'
  BY <1>1, StaysTimely DEF Punctual
<1>3. QueueStarted'
  BY DEF Punctual, QueueStarted, Started
<1>4. SystemActsOnAPassedDeadline'
  BY DEF Punctual, SystemActsOnAPassedDeadline, RanOut
<1> QED
  BY <1>2, <1>3, <1>4 DEF Punctual

\* Only the witness's reading is a request by the system.
LEMMA SystemOnlyProposes ==
    ASSUME NEW r \in Offered, r.actor = "system"
    PROVE  r.cmd.name = "ProposeExtraction"
<1>1. PICK c \in CommandsUpTo(MaxVersion) : \E a \in Sender(c) : r = [cmd |-> c, actor |-> a]
  BY OfferedAssumption DEF RequestsUpTo
<1>2. PICK a \in Sender(c) : r = [cmd |-> c, actor |-> a]
  BY <1>1
<1>3. "system" \in Sender(c) /\ r.cmd = c
  BY <1>2
<1> QED
  BY <1>3 DEF Sender, Parties

LEMMA DecisionIsTimely ==
    ASSUME TypeOK, Punctual, NEW p \in Procs, NEW task \in TimerKinds \cup {"none"},
           NEW cmd, NEW actor, NEW t \in Transition(deal, cmd, actor, now),
           Decide(p, task, t, actor), UNCHANGED <<chain, tasks, now>>,
           \A q \in Procs : batch'[q] \subseteq batch[q],
           task # "none" => tasks[task].due # None,
           actor = "system" =>
              \/ cmd.name = "ProposeExtraction"
              \/ \E k \in TimerKinds : cmd = TimerCommand(k) /\ Ran(chain, k, now)
    PROVE  Punctual'
<1> DEFINE j == Call(task, actor, now, t, handle)
<1>1. /\ j.result = t /\ j.actor = actor /\ j.at = now /\ j.task = task
  BY DEF Call
<1>2. /\ job'[p] = j /\ pc'[p] \in InFlight /\ pc'[p] # "timers"
      /\ \A q \in Procs : q # p => pc'[q] = pc[q] /\ job'[q] = job[q]
  BY DEF Decide, GoTo, TypeOK, InFlight
<1> HIDE DEF j
<1>3. Timed(chain, j)
  BY <1>1, TransitionStarts DEF Timed
<1>4. now \in Nat /\ Grows
  BY DEF TypeOK, Grows
<1>5. Timed(chain', j)
  BY <1>1, <1>3, <1>4, TimedStays DEF Timed, Ran
<1>6. \A k \in batch'[p] : tasks'[k].due # None /\ Ran(chain', k, now')
  BY <1>4, BatchStaysTimely DEF Punctual
<1>7. Timely(p)'
  BY <1>1, <1>2, <1>5, <1>6 DEF Timely
<1> QED
  BY <1>2, <1>4, <1>7, PunctualStep

LEMMA ReceivePunctual ==
    ASSUME TypeOK, Punctual, NEW p \in Procs, Receive(p)
    PROVE  Punctual'
<1>1. PICK r \in Offered : \E t \in Transition(deal, r.cmd, r.actor, now) :
         Decide(p, "none", t, r.actor)
  BY DEF Receive
<1>2. UNCHANGED <<chain, tasks, now, batch>>
  BY DEF Receive, rows
<1> QED
  BY <1>1, <1>2, SystemOnlyProposes, DecisionIsTimely

LEMMA FireTaskPunctual ==
    ASSUME TypeOK, Punctual, NEW p \in Procs, FireTask(p)
    PROVE  Punctual'
<1>1. PICK k \in batch[p] :
         /\ batch' = [batch EXCEPT ![p] = @ \ {k}]
         /\ \/ /\ GoTo(p, "complete")
               /\ job' = [job EXCEPT ![p] = Answering(k)]
            \/ \E t \in Transition(deal, TimerCommand(k), "system", now) :
                  Decide(p, k, t, "system")
  BY DEF FireTask
<1>2. k \in TimerKinds /\ tasks[k].due # None /\ Ran(chain, k, now)
  BY DEF TypeOK, Punctual, Timely
<1>3. UNCHANGED <<chain, tasks, now>> /\ \A q \in Procs : batch'[q] \subseteq batch[q]
  BY <1>1 DEF FireTask, rows, TypeOK
<1>4. CASE GoTo(p, "complete") /\ job' = [job EXCEPT ![p] = Answering(k)]
  <2>1. /\ pc'[p] = "complete" /\ job'[p] = Answering(k)
        /\ \A q \in Procs : q # p => pc'[q] = pc[q] /\ job'[q] = job[q]
    BY <1>4 DEF GoTo, TypeOK
  <2>2. Answering(k).task = k
    BY DEF Answering, Call
  <2>3. now <= now' /\ now' \in Nat /\ Grows
    BY <1>3 DEF Grows, TypeOK
  <2>4. \A i \in batch'[p] : tasks'[i].due # None /\ Ran(chain', i, now')
    BY <1>3, <2>3, BatchStaysTimely DEF Punctual
  <2>5. Timely(p)'
    BY <1>2, <1>3, <2>1, <2>2, <2>4 DEF Timely, InFlight
  <2> QED
    BY <1>3, <2>1, <2>3, <2>5, PunctualStep
<1>5. CASE \E t \in Transition(deal, TimerCommand(k), "system", now) :
              Decide(p, k, t, "system")
  BY <1>2, <1>3, <1>5, DecisionIsTimely
<1> QED
  BY <1>1, <1>4, <1>5

\* Steps of a call between the decision and the commit, and its ends.
LEMMA CallStaysPunctual ==
    ASSUME TypeOK, Punctual, NEW p \in Procs,
           LookupHold(p) \/ InsertHold(p) \/ Seal(p) \/ Settle(p) \/ StorageError(p) \/ Die(p)
    PROVE  Punctual'
<1>1. /\ UNCHANGED <<chain, tasks, now>> /\ \A q \in Procs : batch'[q] \subseteq batch[q]
  BY DEF LookupHold, InsertHold, Seal, Settle, StorageError, Die, rows, TypeOK
<1>2. /\ Answering(job[p].task).task = job[p].task /\ NoJob.task = "none"
  BY DEF Answering, NoJob, Call
<1>3. job[p] \in JobType
  BY DEF TypeOK
<1>4. /\ \A q \in Procs : q # p => pc'[q] = pc[q] /\ job'[q] = job[q]
      /\ \/ /\ pc[p] \in InFlight /\ pc'[p] \in InFlight
            /\ job'[p].result = job[p].result /\ job'[p].actor = job[p].actor
            /\ job'[p].at = job[p].at /\ job'[p].task = job[p].task
         \/ /\ pc'[p] \in Ended \cup {"settle"}
            /\ job'[p].task \in {job[p].task, "none"}
  <2>1. CASE LookupHold(p)
    BY <1>3, <2>1 DEF LookupHold, GoTo, TypeOK, InFlight, JobType
  <2>2. ASSUME NEW label \in {"complete", "fail"}, Finish(p, label)
        PROVE  /\ \A q \in Procs : q # p => pc'[q] = pc[q] /\ job'[q] = job[q]
               /\ pc'[p] \in Ended /\ job'[p].task = job[p].task
    BY <1>2, <2>2 DEF Finish, TypeOK, Ended
  <2>3. CASE InsertHold(p)
    <3>1. CASE escrow = "none"
      BY <1>3, <2>3, <3>1 DEF InsertHold, GoTo, TypeOK, InFlight, JobType
    <3>2. CASE escrow # "none"
      BY <2>2, <2>3, <3>2 DEF InsertHold, Err
    <3> QED
      BY <3>1, <3>2
  <2>4. CASE Seal(p)
    BY <1>3, <2>4 DEF Seal, GoTo, TypeOK, InFlight, JobType
  <2>5. CASE Settle(p)
    BY <2>2, <2>5 DEF Settle, Succeed, Err
  <2>6. CASE StorageError(p)
    BY <2>2, <2>6 DEF StorageError, Err
  <2>7. CASE Die(p)
    BY <1>2, <2>7 DEF Die, GoTo, TypeOK, Ended
  <2> QED
    BY <2>1, <2>3, <2>4, <2>5, <2>6, <2>7
<1>5. now <= now' /\ now' \in Nat /\ Grows
  BY <1>1 DEF Grows, TypeOK
<1>6. Timely(p)'
  BY <1>1, <1>4, <1>5, StaysTimely DEF Punctual
<1> QED
  BY <1>1, <1>4, <1>5, <1>6, PunctualStep

LEMMA ClaimDuePunctual ==
    ASSUME TypeOK, Punctual, NEW p \in Procs, ClaimDue(p)
    PROVE  Punctual'
<1> DEFINE due == {k \in TimerKinds : Claimable(k)}
<1>1. /\ UNCHANGED <<chain, now, pc, job>>
      /\ batch' = [batch EXCEPT ![p] = due]
      /\ tasks' = [k \in TimerKinds |->
                      IF k \in due THEN [tasks[k] EXCEPT !.lockedUntil = now + Lease]
                      ELSE tasks[k]]
  BY DEF ClaimDue, rows
<1>2. \A k \in TimerKinds : tasks'[k].due = tasks[k].due /\ tasks'[k].state = tasks[k].state
  <2>1. \A k \in TimerKinds :
           tasks[k] \in [state : {"none", "pending", "done", "cancelled"},
                         due : MaybeNat, lockedUntil : MaybeNat]
    BY DEF TypeOK
  <2> HIDE DEF due
  <2> QED
    BY <1>1, <2>1
<1>3. Grows
  BY <1>1, <1>2 DEF Grows, TypeOK
<1>4. \A k \in due : k \in TimerKinds /\ tasks[k].due # None /\ Ran(chain, k, now)
  BY DEF Claimable, Punctual, QueueStarted, Started, Ran
<1>5. /\ batch'[p] = due
      /\ \A q \in Procs : q # p => batch'[q] = batch[q]
  BY <1>1 DEF TypeOK
<1> HIDE DEF due
<1>6. ASSUME NEW q \in Procs
      PROVE  Timely(q)'
  <2>1. CASE q # p
    BY <1>1, <1>3, <1>5, <2>1, StaysTimely DEF Punctual
  <2>2. CASE q = p
    <3>1. \A k \in batch'[q] : tasks'[k].due # None /\ Ran(chain', k, now')
      BY <1>1, <1>2, <1>4, <1>5, <2>2 DEF Ran
    <3>2. job[q].task \in TimerKinds \cup {"none"}
      BY DEF TypeOK, JobType
    <3>3. Timely(q)
      BY DEF Punctual
    <3> QED
      BY <1>1, <1>2, <3>1, <3>2, <3>3 DEF Timely, Timed, Ran, Started
  <2> QED
    BY <2>1, <2>2
<1>7. QueueStarted'
  BY <1>1, <1>2 DEF Punctual, QueueStarted, Started
<1>8. SystemActsOnAPassedDeadline'
  BY <1>1 DEF Punctual, SystemActsOnAPassedDeadline, RanOut
<1> QED
  BY <1>6, <1>7, <1>8 DEF Punctual

LEMMA AnswerPunctual ==
    ASSUME IInv, Punctual, NEW p \in Procs, CompleteTask(p) \/ FailTask(p)
    PROVE  Punctual'
<1> DEFINE k == job[p].task
<1>1. k \in TimerKinds /\ tasks[k].due # None
  BY DEF CompleteTask, FailTask, Answer, IInv, Local, Shaped, Punctual, Timely, TimerKinds
<1>2. /\ pc' = [pc EXCEPT ![p] = "idle"] /\ job' = [job EXCEPT ![p] = NoJob]
      /\ UNCHANGED <<chain, now, batch>>
      /\ \/ tasks' = [tasks EXCEPT ![k] = CompletedTask(tasks[k])]
         \/ tasks' = [tasks EXCEPT ![k] = FailedTask(tasks[k])]
  BY <1>1 DEF CompleteTask, FailTask, Answer, GoTo, rows, IInv, TypeOK
<1>3. \A i \in TimerKinds :
         /\ tasks'[i].due = tasks[i].due
         /\ tasks'[i].state = "pending" => tasks[i].state = "pending" \/ i = k
  <2>1. tasks[k] \in [state : {"none", "pending", "done", "cancelled"},
                      due : MaybeNat, lockedUntil : MaybeNat]
    BY <1>1 DEF IInv, TypeOK
  <2>2. CompletedTask(tasks[k]).due = tasks[k].due /\ FailedTask(tasks[k]).due = tasks[k].due
    BY <2>1 DEF CompletedTask, FailedTask
  <2> HIDE DEF k
  <2> QED
    BY <1>1, <1>2, <2>2 DEF IInv, TypeOK
<1>4. Grows
  BY <1>2, <1>3 DEF Grows, IInv, TypeOK
<1>5. NoJob.task = "none"
  BY DEF NoJob, Answering, Call
<1>6. \A q \in Procs : Timely(q)'
  <2> SUFFICES ASSUME NEW q \in Procs PROVE Timely(q)'
    OBVIOUS
  <2>1. /\ batch'[q] = batch[q]
        /\ q # p => pc'[q] = pc[q] /\ job'[q] = job[q]
        /\ q = p => pc'[q] = "idle" /\ job'[q] = NoJob
    BY <1>2 DEF IInv, TypeOK
  <2> QED
    BY <1>4, <1>5, <2>1, StaysTimely DEF Punctual, Ended, IInv
<1>7. QueueStarted'
  BY <1>1, <1>2, <1>3 DEF Punctual, QueueStarted, Started
<1>8. SystemActsOnAPassedDeadline'
  BY <1>2 DEF Punctual, SystemActsOnAPassedDeadline, RanOut
<1> QED
  BY <1>6, <1>7, <1>8 DEF Punctual

LEMMA ApplyTimerPunctual ==
    ASSUME IInv, Punctual, NEW p \in Procs, ApplyTimer(p)
    PROVE  Punctual'
<1> DEFINE request == Head(job[p].todo)
           rest    == Tail(job[p].todo)
<1>1. /\ pc[p] = "timers" /\ UNCHANGED <<chain, now, batch>>
      /\ tasks' = [tasks EXCEPT ![request.kind] = Requested(@, request)]
      /\ \/ /\ rest # << >> /\ pc' = pc
            /\ job' = [job EXCEPT ![p].todo = rest]
         \/ AfterTimers(p, job[p].result)
  BY DEF ApplyTimer, rows
<1>2. TypeOK /\ job[p] \in JobType
  BY DEF IInv, TypeOK
<1>3. job[p].todo \in Seq(TimerRequest) /\ job[p].todo # << >>
  BY <1>1, <1>2 DEF IInv, Local, Shaped, JobType
<1>4. /\ request \in TimerRequest /\ rest \in Seq(TimerRequest)
      /\ 1 \in DOMAIN job[p].todo /\ request = job[p].todo[1]
      /\ \A n \in DOMAIN rest : n + 1 \in DOMAIN job[p].todo /\ rest[n] = job[p].todo[n + 1]
  BY <1>3
<1>5. request.kind \in TimerKinds
  BY <1>4 DEF TimerRequest
<1>6. request.due # None => Started(chain, request.kind, request.due)
  BY <1>1, <1>4 DEF Punctual, Timely
<1> HIDE DEF request, rest
<1>7. \A k \in TimerKinds :
         \/ tasks'[k].due = tasks[k].due /\ (tasks'[k].state = "pending" => tasks[k].state = "pending")
         \/ k = request.kind /\ request.due # None /\ tasks'[k].due = request.due
  <2>1. tasks[request.kind] \in [state : {"none", "pending", "done", "cancelled"},
                                 due : MaybeNat, lockedUntil : MaybeNat]
    BY <1>2, <1>5 DEF TypeOK
  <2>2. \/ /\ Requested(tasks[request.kind], request).due = tasks[request.kind].due
           /\ Requested(tasks[request.kind], request).state = "pending" =>
                 tasks[request.kind].state = "pending"
        \/ /\ request.due # None
           /\ Requested(tasks[request.kind], request).due = request.due
    BY <2>1 DEF Requested
  <2> QED
    BY <1>1, <1>2, <1>5, <2>2 DEF TypeOK
<1>8. Grows
  BY <1>1, <1>2, <1>7 DEF Grows, TypeOK
<1>9. QueueStarted'
  BY <1>1, <1>6, <1>7 DEF Punctual, QueueStarted, Started
<1>10. Answering(job[p].task).task = job[p].task
  BY DEF Answering, Call
<1>11. /\ \A q \in Procs : q # p => pc'[q] = pc[q] /\ job'[q] = job[q]
       /\ \/ pc'[p] = "timers" /\ job'[p].task = job[p].task /\ job'[p].todo = rest
          \/ pc'[p] \in Ended \cup {"settle"} /\ job'[p].task = job[p].task
  <2>1. CASE /\ rest # << >> /\ pc' = pc
             /\ job' = [job EXCEPT ![p].todo = rest]
    BY <1>1, <1>2, <2>1 DEF TypeOK, JobType
  <2>2. CASE AfterTimers(p, job[p].result)
    BY <1>2, <1>10, <2>2 DEF AfterTimers, GoTo, Succeed, Finish, TypeOK, Ended
  <2> QED
    BY <1>1, <2>1, <2>2
<1>12. ASSUME NEW q \in Procs
       PROVE  Timely(q)'
  <2>1. batch'[q] = batch[q] /\ Timely(q)
    BY <1>1 DEF Punctual
  <2>2. CASE q # p \/ pc'[q] \in Ended \cup {"settle"}
    BY <1>2, <1>8, <1>11, <2>1, <2>2, StaysTimely DEF Ended
  <2>3. CASE q = p /\ pc'[q] = "timers" /\ job'[q].task = job[q].task /\ job'[q].todo = rest
    <3>1. \A k \in batch'[q] : tasks'[k].due # None /\ Ran(chain', k, now')
      BY <1>2, <1>8, <2>1, BatchStaysTimely
    <3>2. job'[q].task # "none" => tasks'[job'[q].task].due # None
      BY <1>2, <1>8, <2>1, <2>3, TaskStays
    <3>3. \A n \in DOMAIN job'[q].todo :
             job'[q].todo[n].due # None => Started(chain', job'[q].todo[n].kind, job'[q].todo[n].due)
      BY <1>1, <1>2, <1>4, <1>8, <2>1, <2>3, StartedStays DEF Timely
    <3> QED
      BY <2>3, <3>1, <3>2, <3>3 DEF Timely, InFlight
  <2> QED
    BY <1>11, <2>2, <2>3
<1>13. SystemActsOnAPassedDeadline'
  BY <1>1 DEF Punctual, SystemActsOnAPassedDeadline, RanOut
<1> QED
  BY <1>9, <1>12, <1>13 DEF Punctual

LEMMA CommitPunctual ==
    ASSUME IInv, Punctual, NEW p \in Procs, Commit(p)
    PROVE  Punctual'
<1> DEFINE t == job[p].result
           row == Row(t.action, job[p].actor, job[p].at)
<1>1. /\ pc[p] = "commit" /\ TypeOK /\ job[p] \in JobType /\ Timed(chain, job[p])
      /\ UNCHANGED <<tasks, now, batch>>
  BY DEF Commit, CommitIf, IInv, TypeOK, Punctual, Timely, InFlight
<1>2. Answering(job[p].task).task = job[p].task
  BY DEF Answering, Call
<1>3. CASE ~(VersionHolds(p) /\ SeqIsFree(p))
  <2>1. Err(p) /\ UNCHANGED chain
    BY <1>3 DEF Commit, CommitIf, rows
  <2>2. /\ pc'[p] \in Ended /\ job'[p].task = job[p].task
        /\ \A q \in Procs : q # p => pc'[q] = pc[q] /\ job'[q] = job[q]
    BY <1>1, <1>2, <2>1 DEF Err, Finish, TypeOK, Ended
  <2>3. now <= now' /\ now' \in Nat /\ Grows
    BY <1>1, <2>1 DEF Grows, TypeOK
  <2>4. Timely(p)'
    BY <1>1, <2>2, <2>3, StaysTimely DEF Punctual
  <2> QED
    BY <1>1, <2>1, <2>2, <2>3, <2>4, PunctualStep
<1>4. CASE VersionHolds(p) /\ SeqIsFree(p)
  <2>1. /\ chain' = Append(chain, row)
        /\ \/ /\ t.timers # << >>
              /\ job' = [job EXCEPT ![p].todo = t.timers] /\ GoTo(p, "timers")
           \/ AfterTimers(p, t)
    BY <1>4 DEF Commit, CommitIf
  <2>2. Grows
    BY <1>1, <2>1 DEF Grows, TypeOK
  <2>3. /\ row.action = t.action /\ row.actor = job[p].actor /\ row.at = job[p].at
    BY DEF Row
  <2> HIDE DEF row
  <2>4. /\ DOMAIN chain = 1 .. Len(chain) /\ DOMAIN chain' = 1 .. (Len(chain) + 1)
        /\ Len(chain) \in Nat /\ chain'[Len(chain) + 1] = row
        /\ \A i \in DOMAIN chain : chain'[i] = chain[i]
    BY <1>1, <2>1 DEF TypeOK
  <2>5. /\ \A q \in Procs : q # p => pc'[q] = pc[q] /\ job'[q] = job[q]
        /\ \/ pc'[p] = "timers" /\ job'[p].task = job[p].task /\ job'[p].todo = t.timers
           \/ pc'[p] \in Ended \cup {"settle"} /\ job'[p].task = job[p].task
    <3>1. CASE /\ t.timers # << >>
               /\ job' = [job EXCEPT ![p].todo = t.timers] /\ GoTo(p, "timers")
      BY <1>1, <3>1 DEF GoTo, TypeOK, JobType
    <3>2. CASE AfterTimers(p, t)
      BY <1>1, <1>2, <3>2 DEF AfterTimers, GoTo, Succeed, Finish, TypeOK, Ended
    <3> QED
      BY <2>1, <3>1, <3>2
  <2>6. QueueStarted'
    BY <1>1, <2>2, StartedStays DEF Punctual, QueueStarted
  <2>7. ASSUME NEW q \in Procs
        PROVE  Timely(q)'
    <3>1. batch'[q] = batch[q] /\ Timely(q)
      BY <1>1 DEF Punctual
    <3>2. CASE q # p \/ pc'[q] \in Ended \cup {"settle"}
      BY <1>1, <2>2, <2>5, <3>1, <3>2, StaysTimely DEF Ended
    <3>3. CASE q = p /\ pc'[q] = "timers" /\ job'[q].task = job[q].task /\ job'[q].todo = t.timers
      <4>1. \A k \in batch'[q] : tasks'[k].due # None /\ Ran(chain', k, now')
        BY <1>1, <2>2, <3>1, BatchStaysTimely
      <4>2. job'[q].task # "none" => tasks'[job'[q].task].due # None
        BY <1>1, <2>2, <3>1, <3>3, TaskStays
      <4>3. \A n \in DOMAIN job'[q].todo :
               job'[q].todo[n].due # None => Started(chain', job'[q].todo[n].kind, job'[q].todo[n].due)
        BY <1>1, <2>3, <2>4, <3>3 DEF Timed, Started
      <4> QED
        BY <3>3, <4>1, <4>2, <4>3 DEF Timely, InFlight
    <3> QED
      BY <2>5, <3>2, <3>3
  <2>8. SystemActsOnAPassedDeadline'
    <3> SUFFICES ASSUME NEW j \in DOMAIN chain', chain'[j].actor = "system",
                        chain'[j].action # "WitnessProposed"
                 PROVE  RanOut(j, chain[j].action, chain[j].at)'
      BY DEF SystemActsOnAPassedDeadline
    <3>1. CASE j \in DOMAIN chain
      <4>1. RanOut(j, chain[j].action, chain[j].at) /\ 1 .. (j - 1) \subseteq DOMAIN chain
        BY <2>4, <3>1 DEF Punctual, SystemActsOnAPassedDeadline
      <4> QED
        BY <2>4, <3>1, <4>1 DEF RanOut
    <3>2. CASE j = Len(chain) + 1
      <4>1. PICK k \in TimerKinds : Ran(chain, k, job[p].at) /\ t.action \in LeadsTo[k]
        BY <1>1, <2>3, <2>4, <3>2 DEF Timed
      <4>2. PICK i \in DOMAIN chain :
               chain[i].action \in StartedBy[k] /\ job[p].at >= chain[i].at + Window[k]
        BY <4>1 DEF Ran
      <4>3. i \in 1 .. (j - 1)
        BY <2>4, <3>2
      <4> QED
        BY <2>3, <2>4, <3>2, <4>1, <4>2, <4>3 DEF RanOut
    <3> QED
      BY <2>4, <3>1, <3>2
  <2> QED
    BY <2>6, <2>7, <2>8 DEF Punctual
<1> QED
  BY <1>3, <1>4

LEMMA StepKeepsPunctual == IInv /\ Punctual /\ [Next]_vars => Punctual'
<1> SUFFICES ASSUME IInv, Punctual, [Next]_vars PROVE Punctual'
  OBVIOUS
<1>t. TypeOK
  BY DEF IInv
<1>1. CASE UNCHANGED <<chain, tasks, pc, job, batch>> /\ now <= now' /\ now' \in Nat
  <2>1. Grows
    BY <1>1 DEF Grows
  <2>2. \A q \in Procs : Timely(q)'
    BY <1>t, <1>1, <2>1, StaysTimely DEF Punctual
  <2> QED
    BY <1>1, <2>2 DEF Punctual, QueueStarted, Started, SystemActsOnAPassedDeadline, RanOut
<1>2. CASE UNCHANGED vars
  BY <1>t, <1>1, <1>2 DEF vars, rows, procs, TypeOK
<1>3. CASE Tick
  BY <1>t, <1>1, <1>3 DEF Tick, rows, procs, TypeOK
<1> QED
  BY <1>t, <1>2, <1>3, ReceivePunctual, FireTaskPunctual, CallStaysPunctual, ClaimDuePunctual,
     AnswerPunctual, ApplyTimerPunctual, CommitPunctual DEF Next, ApplyStep, WorkerStep

\* However requests, sweeps and faults interleave, the system acts only on a
\* deadline that an attestation on the chain started and that has passed since.
THEOREM DeadlinesPassFirst == Spec => []SystemActsOnAPassedDeadline
<1>1. Init => Punctual
  <2> SUFFICES ASSUME Init PROVE Punctual
    OBVIOUS
  <2>1. /\ chain = << >> /\ tasks = [k \in TimerKinds |-> NoTask]
        /\ pc = [p \in Procs |-> "idle"] /\ job = [p \in Procs |-> NoJob]
        /\ batch = [p \in Procs |-> {}]
    BY DEF Init
  <2>2. NoTask.due = None /\ NoTask.state = "none" /\ NoJob.task = "none" /\ DOMAIN chain = {}
    BY <2>1 DEF NoTask, NoJob, Answering, Call
  <2> QED
    BY <2>1, <2>2
       DEF Punctual, QueueStarted, Timely, InFlight, SystemActsOnAPassedDeadline
<1>2. Punctual => SystemActsOnAPassedDeadline
  BY DEF Punctual
<1> QED
  BY <1>1, <1>2, Inductive, StepKeepsPunctual, PTL DEF Spec

-----------------------------------------------------------------------------
(* The ledger implements the custody the escrow promises.                  *)

HolderOf(hold) ==
    IF hold = "held" THEN "escrow" ELSE IF hold = "released" THEN "seller" ELSE "buyer"

LEMMA LedgerTellsHolder ==
    ASSUME NEW hold \in {"none", "held", "released", "refunded"}, ledger = LedgerOf(hold)
    PROVE  HolderOnLedger = HolderOf(hold)
<1> DEFINE InEscrow == [a \in Accounts |->
                          CASE a = "buyer" -> -1 [] a = "escrow" -> 1 [] OTHER -> 0]
           WithSeller == [a \in Accounts |->
                          CASE a = "buyer" -> -1 [] a = "seller" -> 1 [] OTHER -> 0]
<1>1. /\ {"buyer", "escrow", "seller"} = Accounts
      /\ InEscrow["buyer"] = -1 /\ InEscrow["escrow"] = 1
      /\ WithSeller["buyer"] = -1 /\ WithSeller["escrow"] = 0
  BY DEF Accounts
<1>2. HolderOnLedger =
         CASE \A a \in Accounts : ledger[a] = 0 -> "buyer"
           [] ledger = InEscrow                 -> "escrow"
           [] ledger = WithSeller               -> "seller"
           [] OTHER                             -> "nowhere"
  BY DEF HolderOnLedger
<1>3. /\ hold \in {"none", "refunded"} => \A a \in Accounts : ledger[a] = 0
      /\ hold = "held" => ledger = InEscrow
      /\ hold = "released" => ledger = WithSeller
  BY DEF LedgerOf, Accounts
<1> HIDE DEF InEscrow, WithSeller
<1>4. /\ hold \in {"none", "refunded"} => ledger # InEscrow /\ ledger # WithSeller
      /\ hold = "held" => ~(\A a \in Accounts : ledger[a] = 0) /\ ledger # WithSeller
      /\ hold = "released" => ~(\A a \in Accounts : ledger[a] = 0) /\ ledger # InEscrow
  BY <1>1, <1>3
<1> QED
  BY <1>2, <1>3, <1>4 DEF HolderOf

\* The record names somebody exactly once the deal has closed with a payment,
\* and it is the one the recorded settlement pays.
LEMMA RecordTellsVerdict ==
    ASSUME MoneyInOrder(deal, intents)
    PROVE  /\ deal.state \notin PaidStates => VerdictOnRecord = "none"
           /\ deal.state \in PaidStates =>
                 /\ VerdictOnRecord \in {"buyer", "seller"}
                 /\ VerdictOnRecord = HolderOf(Settled(intents[2]))
<1>1. /\ deal.outcome # "None" => deal.state = "Resolved"
      /\ deal.state = "Resolved" => deal.outcome \in {"ReleaseToSeller", "RefundToBuyer"}
  BY DEF MoneyInOrder, OutcomeIsResolution
<1>2. ASSUME deal.state \in PaidStates
      PROVE  intents[2] = IF deal.state = "Completed" \/ deal.outcome = "ReleaseToSeller"
                          THEN "Release" ELSE "Refund"
  BY <1>2 DEF MoneyInOrder, PaidStates
<1>3. CASE deal.state \notin PaidStates
  BY <1>1, <1>3 DEF VerdictOnRecord, PaidStates
<1>4. CASE deal.state \in PaidStates /\ (deal.state = "Completed" \/ deal.outcome = "ReleaseToSeller")
  <2>1. VerdictOnRecord = "seller"
    BY <1>1, <1>4 DEF VerdictOnRecord, PaidStates
  <2> QED
    BY <1>2, <1>4, <2>1 DEF Settled, HolderOf
<1>5. CASE deal.state \in PaidStates /\ ~(deal.state = "Completed" \/ deal.outcome = "ReleaseToSeller")
  <2>1. VerdictOnRecord = "buyer"
    BY <1>1, <1>5 DEF VerdictOnRecord, PaidStates
  <2> QED
    BY <1>2, <1>5, <2>1 DEF Settled, HolderOf
<1> QED
  BY <1>3, <1>4, <1>5

\* What a step may do to the deal and to the money.
LEMMA MoneySteps ==
    ASSUME IInv, [Next]_vars
    PROVE  \/ UNCHANGED <<deal, escrow, ledger>>
           \/ escrow = "none" /\ escrow' = "held" /\ UNCHANGED deal
           \/ /\ escrow = "held" /\ deal.state \in PaidStates
              /\ escrow' = Settled(intents[2]) /\ UNCHANGED deal
           \/ /\ UNCHANGED <<escrow, ledger>> /\ ~IsTerminal(deal)
              /\ deal'.state \in PaidStates => escrow = "held"
<1>1. ASSUME NEW p \in Procs, InsertHold(p)
      PROVE  \/ UNCHANGED <<deal, escrow, ledger>>
             \/ escrow = "none" /\ escrow' = "held" /\ UNCHANGED deal
  BY <1>1 DEF InsertHold, rows, funds
<1>2. ASSUME NEW p \in Procs, Settle(p)
      PROVE  /\ escrow = "held" /\ deal.state \in PaidStates
             /\ escrow' = Settled(intents[2]) /\ UNCHANGED deal
  <2>1. /\ pc[p] = "settle" /\ UNCHANGED deal
    BY <1>2 DEF Settle, rows
  <2>2. Paying(p)
    BY <2>1 DEF IInv, Local, Shaped, Paying
  <2>3. /\ job[p].held /\ escrow = "held" /\ deal.state \in PaidStates
        /\ intents = <<"Hold", job[p].result.settlement>>
    BY <2>2 DEF IInv, Local, Backed
  <2>4. intents[2] = job[p].result.settlement
    BY <2>3
  <2> QED
    BY <1>2, <2>1, <2>3, <2>4 DEF Settle
<1>3. ASSUME NEW p \in Procs, Commit(p)
      PROVE  \/ UNCHANGED <<deal, escrow, ledger>>
             \/ /\ UNCHANGED <<escrow, ledger>> /\ ~IsTerminal(deal)
                /\ deal'.state \in PaidStates => escrow = "held"
  <2>1. CASE ~(VersionHolds(p) /\ SeqIsFree(p))
    BY <1>3, <2>1 DEF Commit, CommitIf, rows, funds
  <2>2. CASE VersionHolds(p) /\ SeqIsFree(p)
    <3>1. PICK t, cmd : Writes(p, t, cmd)
      BY <1>3, <2>2, CommitWrites
    <3>2. /\ ~IsTerminal(deal)
          /\ t.deal.state \in PaidStates => FundsHeld(deal)
      BY <3>1, MoneyMoves DEF Writes, IInv, TypeOK
    <3>3. FundsHeld(deal) => escrow = "held"
      BY DEF IInv, Rows, CustodyIsBacked
    <3> QED
      BY <3>1, <3>2, <3>3 DEF Writes
  <2> QED
    BY <2>1, <2>2
<1>4. CASE UNCHANGED vars
  BY <1>4 DEF vars, rows, funds
<1>5. CASE Tick
  BY <1>5 DEF Tick, rows, funds
<1>6. ASSUME NEW p \in Procs,
             \/ Receive(p) \/ LookupHold(p) \/ Seal(p) \/ ApplyTimer(p)
             \/ WorkerStep(p) \/ StorageError(p) \/ Die(p)
      PROVE  UNCHANGED <<deal, escrow, ledger>>
  BY <1>6 DEF Receive, LookupHold, Seal, ApplyTimer, WorkerStep, ClaimDue, FireTask,
              CompleteTask, FailTask, Answer, StorageError, Die, rows, funds
<1> QED
  BY <1>1, <1>2, <1>3, <1>4, <1>5, <1>6 DEF Next, ApplyStep

\* What the ledger and the record say, in every reachable state.
Told ==
    /\ HolderOnLedger = HolderOf(escrow)
    /\ deal.state \notin PaidStates => VerdictOnRecord = "none"
    /\ deal.state \in PaidStates =>
          /\ VerdictOnRecord \in {"buyer", "seller"}
          /\ VerdictOnRecord = HolderOf(Settled(intents[2]))

LEMMA ItIsTold == IInv => Told
BY LedgerTellsHolder, RecordTellsVerdict DEF IInv, TypeOK, Rows, Told

LEMMA CustodyStep ==
    ASSUME IInv, Told, Told', [Next]_vars
    PROVE  [Escrow!Next]_(Escrow!vars)
<1>1. deal.state \in PaidStates => escrow # "none"
  BY DEF IInv, Rows
<1>2. HolderOnLedger = HolderOf(escrow) /\ HolderOnLedger' = HolderOf(escrow')
  BY DEF Told
<1>3. CASE UNCHANGED <<deal, escrow, ledger>>
  BY <1>3 DEF Escrow!vars, HolderOnLedger, VerdictOnRecord
<1>4. CASE escrow = "none" /\ escrow' = "held" /\ UNCHANGED deal
  <2>1. VerdictOnRecord = "none" /\ VerdictOnRecord' = VerdictOnRecord
    BY <1>1, <1>4 DEF Told, VerdictOnRecord
  <2> QED
    BY <1>2, <1>4, <2>1 DEF Escrow!Next, Escrow!Deposit, HolderOf
<1>5. CASE /\ escrow = "held" /\ deal.state \in PaidStates
           /\ escrow' = Settled(intents[2]) /\ UNCHANGED deal
  <2>1. VerdictOnRecord \in {"buyer", "seller"} /\ VerdictOnRecord = HolderOf(escrow')
    BY <1>5 DEF Told
  <2>2. VerdictOnRecord' = VerdictOnRecord
    BY <1>5 DEF VerdictOnRecord
  <2> QED
    BY <1>2, <1>5, <2>1, <2>2 DEF Escrow!Next, Escrow!PayOut, HolderOf
<1>6. CASE /\ UNCHANGED <<escrow, ledger>> /\ ~IsTerminal(deal)
           /\ deal'.state \in PaidStates => escrow = "held"
  <2>1. VerdictOnRecord = "none"
    BY <1>6 DEF Told, IsTerminal, TerminalStates, PaidStates
  <2>2. /\ deal'.state \notin PaidStates => VerdictOnRecord' = "none"
        /\ deal'.state \in PaidStates => VerdictOnRecord' \in {"buyer", "seller"}
    BY DEF Told
  <2>3. HolderOnLedger' = HolderOnLedger
    BY <1>2, <1>6
  <2> QED
    BY <1>2, <1>6, <2>1, <2>2, <2>3 DEF Escrow!Next, Escrow!Rule, Escrow!vars, HolderOf
<1> QED
  BY <1>3, <1>4, <1>5, <1>6, MoneySteps

\* Whatever requests race, retry or die, the ledger moves the price as the
\* escrow promises: taken once, paid out once, to whom the record names.
THEOREM LedgerKeepsCustody == Spec => KeepsCustody
<1>1. Init => Escrow!Init
  <2> SUFFICES ASSUME Init PROVE Escrow!Init
    OBVIOUS
  <2>1. IInv /\ escrow = "none" /\ deal.state = "Draft"
    BY InitIInv DEF Init, NewDeal
  <2>2. HolderOnLedger = "buyer"
    BY <2>1, LedgerTellsHolder DEF IInv, Rows, HolderOf
  <2>3. VerdictOnRecord = "none"
    BY <2>1, RecordTellsVerdict DEF IInv, Rows, PaidStates
  <2> QED
    BY <2>2, <2>3 DEF Escrow!Init
<1>2. IInv /\ Told /\ Told' /\ [Next]_vars => [Escrow!Next]_(Escrow!vars)
  BY CustodyStep
<1> QED
  BY <1>1, <1>2, ItIsTold, Inductive, PTL DEF Spec, KeepsCustody, Escrow!Spec

-----------------------------------------------------------------------------
(* Refinement: whatever is under way, the rows of `deals` and `attestations` *)
(* move by one accepted command at a time.  First, the transitions of the    *)
(* lifecycle are those of the service.                                       *)

LEMMA SameVocabulary ==
    /\ Lifecycle!Parties = Parties
    /\ Lifecycle!UnfundedStates = UnfundedStates
    /\ Lifecycle!Nobody = Nobody
    /\ \A k, n : Lifecycle!SetTimer(k, n) = SetTimer(k, n)
    /\ \A k : Lifecycle!CancelTimer(k) = CancelTimer(k)
    /\ \A x : Lifecycle!CanonicalHash(x) = CanonicalHash(x)
    /\ \A d : Lifecycle!BothConfirmed(d) = BothConfirmed(d)
BY DEF Lifecycle!Parties, Parties, Lifecycle!UnfundedStates, UnfundedStates,
       Lifecycle!SetTimer, SetTimer, Lifecycle!CancelTimer, CancelTimer, Lifecycle!None, None,
       Lifecycle!CanonicalHash, CanonicalHash, Lifecycle!BothConfirmed, BothConfirmed,
       Lifecycle!ConfirmedBy, ConfirmedBy, Lifecycle!Nobody, Nobody

LEMMA SameTransition ==
    ASSUME NEW d, NEW cmd, NEW actor, NEW at
    PROVE  Lifecycle!Transition(d, cmd, actor, at) = Transition(d, cmd, actor, at)
<1>1. Lifecycle!ProposeExtraction(d, cmd, actor, at) = ProposeExtraction(d, cmd, actor, at)
  BY SameVocabulary DEF Lifecycle!ProposeExtraction, ProposeExtraction, Lifecycle!When, When
<1>2. Lifecycle!CorrectTerms(d, cmd, actor, at) = CorrectTerms(d, cmd, actor, at)
  BY SameVocabulary DEF Lifecycle!CorrectTerms, CorrectTerms, Lifecycle!When, When
<1>3. Lifecycle!ConfirmTerms(d, cmd, actor, at) = ConfirmTerms(d, cmd, actor, at)
  BY SameVocabulary DEF Lifecycle!ConfirmTerms, ConfirmTerms, Lifecycle!When, When
<1>4. Lifecycle!Fund(d, cmd, actor, at) = Fund(d, cmd, actor, at)
  BY SameVocabulary DEF Lifecycle!Fund, Fund, Lifecycle!When, When
<1>5. Lifecycle!SubmitHandoffProof(d, cmd, actor, at) = SubmitHandoffProof(d, cmd, actor, at)
  BY SameVocabulary DEF Lifecycle!SubmitHandoffProof, SubmitHandoffProof, Lifecycle!When, When
<1>6. Lifecycle!ConfirmReceipt(d, cmd, actor, at) = ConfirmReceipt(d, cmd, actor, at)
  BY SameVocabulary DEF Lifecycle!ConfirmReceipt, ConfirmReceipt, Lifecycle!When, When
<1>7. Lifecycle!AutoConfirmReceipt(d, cmd, actor, at) = AutoConfirmReceipt(d, cmd, actor, at)
  BY SameVocabulary DEF Lifecycle!AutoConfirmReceipt, AutoConfirmReceipt, Lifecycle!When, When
<1>8. Lifecycle!ReleaseFunds(d, cmd, actor, at) = ReleaseFunds(d, cmd, actor, at)
  BY SameVocabulary DEF Lifecycle!ReleaseFunds, ReleaseFunds, Lifecycle!When, When
<1>9. Lifecycle!OpenDispute(d, cmd, actor, at) = OpenDispute(d, cmd, actor, at)
  BY SameVocabulary DEF Lifecycle!OpenDispute, OpenDispute, Lifecycle!When, When
<1>10. Lifecycle!ResolveDispute(d, cmd, actor, at) = ResolveDispute(d, cmd, actor, at)
  BY SameVocabulary DEF Lifecycle!ResolveDispute, ResolveDispute, Lifecycle!When, When
<1>11. Lifecycle!Cancel(d, cmd, actor, at) = Cancel(d, cmd, actor, at)
  BY SameVocabulary DEF Lifecycle!Cancel, Cancel, Lifecycle!When, When
<1>12. Lifecycle!ExpireUnfunded(d, cmd, actor, at) = ExpireUnfunded(d, cmd, actor, at)
  BY SameVocabulary DEF Lifecycle!ExpireUnfunded, ExpireUnfunded, Lifecycle!When, When
<1>13. Lifecycle!RefundExpired(d, cmd, actor, at) = RefundExpired(d, cmd, actor, at)
  BY SameVocabulary DEF Lifecycle!RefundExpired, RefundExpired, Lifecycle!When, When
<1> QED
  BY <1>1, <1>2, <1>3, <1>4, <1>5, <1>6, <1>7, <1>8, <1>9, <1>10, <1>11, <1>12, <1>13
     DEF Lifecycle!Transition, Transition

\* What a command must carry for an arm of transition() to accept it.
LEMMA AcceptedCommand ==
    ASSUME NEW d, NEW cmd, NEW actor, NEW at, NEW t \in Transition(d, cmd, actor, at)
    PROVE  /\ cmd.name \in {"ProposeExtraction", "CorrectTerms"} => cmd.terms \in Terms
           /\ cmd.name = "ConfirmTerms" => cmd.revision = d.termsRevision
<1>1. t \in ProposeExtraction(d, cmd, actor, at) =>
         cmd.name = "ProposeExtraction" /\ cmd.terms \in Terms
  BY DEF ProposeExtraction, When
<1>2. t \in CorrectTerms(d, cmd, actor, at) =>
         cmd.name = "CorrectTerms" /\ cmd.terms \in Terms
  BY DEF CorrectTerms, When
<1>3. t \in ConfirmTerms(d, cmd, actor, at) =>
         cmd.name = "ConfirmTerms" /\ cmd.revision = d.termsRevision
  BY DEF ConfirmTerms, When
<1>4. t \in Fund(d, cmd, actor, at) => cmd.name = "Fund"
  BY DEF Fund, When
<1>5. t \in SubmitHandoffProof(d, cmd, actor, at) => cmd.name = "SubmitHandoffProof"
  BY DEF SubmitHandoffProof, When
<1>6. t \in ConfirmReceipt(d, cmd, actor, at) => cmd.name = "ConfirmReceipt"
  BY DEF ConfirmReceipt, When
<1>7. t \in AutoConfirmReceipt(d, cmd, actor, at) => cmd.name = "Expire"
  BY DEF AutoConfirmReceipt, When
<1>8. t \in ReleaseFunds(d, cmd, actor, at) => cmd.name = "ReleaseFunds"
  BY DEF ReleaseFunds, When
<1>9. t \in OpenDispute(d, cmd, actor, at) => cmd.name = "OpenDispute"
  BY DEF OpenDispute, When
<1>10. t \in ResolveDispute(d, cmd, actor, at) => cmd.name = "ResolveDispute"
  BY DEF ResolveDispute, When
<1>11. t \in Cancel(d, cmd, actor, at) => cmd.name = "Cancel"
  BY DEF Cancel, When
<1>12. t \in ExpireUnfunded(d, cmd, actor, at) => cmd.name = "Expire"
  BY DEF ExpireUnfunded, When
<1>13. t \in RefundExpired(d, cmd, actor, at) => cmd.name = "Expire"
  BY DEF RefundExpired, When
<1> QED
  BY <1>1, <1>2, <1>3, <1>4, <1>5, <1>6, <1>7, <1>8, <1>9, <1>10, <1>11, <1>12, <1>13
     DEF Transition

-----------------------------------------------------------------------------
(* Every commit is one of its steps.                                       *)

LEMMA KnownRequest ==
    ASSUME NEW r \in Offered
    PROVE  \/ \E x \in Terms \cup {NoTerms} :
                 r.cmd = [name |-> "ProposeExtraction", terms |-> x] /\ r.actor = "system"
           \/ \E x \in Terms \cup {NoTerms} :
                 r.cmd = [name |-> "CorrectTerms", terms |-> x] /\ r.actor \in Parties
           \/ \E n \in Nat :
                 r.cmd = [name |-> "ConfirmTerms", revision |-> n] /\ r.actor \in Parties
           \/ \E o \in DisputeOutcomes :
                 r.cmd = [name |-> "ResolveDispute", outcome |-> o] /\ r.actor = "mediator"
           \/ \E n \in Simple \ {"Expire"} : r.cmd = Command(n) /\ r.actor \in Parties
<1>1. PICK c \in CommandsUpTo(MaxVersion) : \E a \in Sender(c) : r = [cmd |-> c, actor |-> a]
  BY OfferedAssumption DEF RequestsUpTo
<1>2. PICK a \in Sender(c) : r = [cmd |-> c, actor |-> a]
  BY <1>1
<1>3. r.cmd = c /\ r.actor = a
  BY <1>2
<1>4. CASE c \in {[name |-> "ProposeExtraction", terms |-> x] : x \in Terms \cup {NoTerms}}
  <2>1. c.name = "ProposeExtraction"
    BY <1>4
  <2>2. a = "system"
    BY <1>2, <2>1 DEF Sender
  <2> QED
    BY <1>3, <1>4, <2>2
<1>5. CASE c \in {[name |-> "CorrectTerms", terms |-> x] : x \in Terms \cup {NoTerms}}
  <2>1. c.name = "CorrectTerms"
    BY <1>5
  <2>2. a \in Parties
    BY <1>2, <2>1 DEF Sender
  <2> QED
    BY <1>3, <1>5, <2>2
<1>6. CASE c \in {[name |-> "ConfirmTerms", revision |-> n] : n \in 0 .. MaxVersion}
  <2>1. c.name = "ConfirmTerms"
    BY <1>6
  <2>2. a \in Parties
    BY <1>2, <2>1 DEF Sender
  <2>3. PICK n \in 0 .. MaxVersion : c = [name |-> "ConfirmTerms", revision |-> n]
    BY <1>6
  <2>4. n \in Nat
    BY ServiceBounds
  <2> QED
    BY <1>3, <2>2, <2>3, <2>4
<1>7. CASE c \in {[name |-> "ResolveDispute", outcome |-> o] : o \in DisputeOutcomes}
  <2>1. c.name = "ResolveDispute"
    BY <1>7
  <2>2. a = "mediator"
    BY <1>2, <2>1 DEF Sender
  <2> QED
    BY <1>3, <1>7, <2>2
<1>8. CASE c \in {Command(n) : n \in Simple}
  <2>1. PICK n \in Simple : c = Command(n)
    BY <1>8
  <2>2. c.name = n
    BY <2>1 DEF Command
  <2>3. n # "Expire" /\ a \in Parties
    BY <1>2, <2>2 DEF Sender, Simple
  <2> QED
    BY <1>3, <2>1, <2>3
<1> QED
  BY <1>1, <1>4, <1>5, <1>6, <1>7, <1>8 DEF CommandsUpTo

LEMMA WritesAccept ==
    ASSUME NEW p \in Procs, NEW t, NEW some, Writes(p, t, some),
           NEW cmd, NEW actor, actor = job[p].actor,
           t \in Transition(deal, cmd, actor, job[p].at)
    PROVE  Lifecycle!Accept(cmd, actor, job[p].at)
<1>1. t \in Lifecycle!Transition(deal, cmd, actor, job[p].at)
  BY SameTransition
<1>2. intents' = Lifecycle!Recorded(t)
  BY DEF Writes, Asked, Lifecycle!Recorded
<1>3. chain' = Append(chain, Lifecycle!Row(t.action, actor, job[p].at))
  BY DEF Writes, Row, Lifecycle!Row
<1> QED
  BY <1>1, <1>2, <1>3 DEF Writes, Lifecycle!Accept

LEMMA WriteIsLifecycleStep ==
    ASSUME IInv, NEW p \in Procs, NEW t, NEW some, Writes(p, t, some)
    PROVE  Lifecycle!Next
<1> DEFINE at == job[p].at
           actor == job[p].actor
<1>1. at \in Lifecycle!LastAt .. now
  <2>1. Lifecycle!LastAt = LastRecorded
    BY DEF Lifecycle!LastAt, LastRecorded
  <2> QED
    BY <2>1 DEF Writes, IInv, TypeOK, Rows
<1>2. job[p].result = t /\ Granted(job[p])
  BY DEF Writes
<1>v. /\ Lifecycle!Parties = Parties /\ Lifecycle!DisputeOutcomes = DisputeOutcomes
      /\ Lifecycle!Simple = Simple /\ Lifecycle!TimerKinds = TimerKinds
      /\ (\A n : Lifecycle!Command(n) = Command(n))
      /\ (\A k : Lifecycle!TimerCommand(k) = TimerCommand(k))
  BY DEF Lifecycle!Parties, Parties, Lifecycle!DisputeOutcomes, DisputeOutcomes,
         Lifecycle!Simple, Simple, Lifecycle!TimerKinds, TimerKinds, Lifecycle!Command, Command,
         Lifecycle!TimerCommand, TimerCommand
<1>3. ASSUME deal.version < MaxVersion, NEW r \in Offered, r.actor = actor,
             t \in Transition(deal, r.cmd, actor, at)
      PROVE  \/ Lifecycle!WitnessProposes(at)
             \/ Lifecycle!PartyCorrects(at)
             \/ Lifecycle!PartyConfirms(at)
             \/ Lifecycle!PartyActs(at)
             \/ Lifecycle!MediatorResolves(at)
  <2>1. Lifecycle!MayAct
    BY <1>3 DEF Lifecycle!MayAct
  <2>2. Lifecycle!Accept(r.cmd, r.actor, at)
    BY <1>3, WritesAccept
  <2>3. /\ r.cmd.name \in {"ProposeExtraction", "CorrectTerms"} => r.cmd.terms \in Terms
        /\ r.cmd.name = "ConfirmTerms" => r.cmd.revision = deal.termsRevision
    BY <1>3, AcceptedCommand
  <2> HIDE DEF at, actor
  <2>4. ASSUME NEW x, r.cmd = [name |-> "ProposeExtraction", terms |-> x],
               r.actor = "system"
        PROVE  Lifecycle!WitnessProposes(at)
    <3>1. x \in Terms
      BY <2>3, <2>4
    <3> QED
      BY <2>1, <2>2, <2>4, <3>1 DEF Lifecycle!WitnessProposes
  <2>5. ASSUME NEW x, r.cmd = [name |-> "CorrectTerms", terms |-> x],
               r.actor \in Parties
        PROVE  Lifecycle!PartyCorrects(at)
    <3>1. x \in Terms
      BY <2>3, <2>5
    <3> QED
      BY <1>v, <2>1, <2>2, <2>5, <3>1 DEF Lifecycle!PartyCorrects
  <2>6. ASSUME NEW n, r.cmd = [name |-> "ConfirmTerms", revision |-> n],
               r.actor \in Parties
        PROVE  Lifecycle!PartyConfirms(at)
    <3>1. n = deal.termsRevision
      BY <2>3, <2>6
    <3>2. n \in 0 .. deal.termsRevision
      BY <3>1 DEF IInv, TypeOK, DealType
    <3> QED
      BY <1>v, <2>1, <2>2, <2>6, <3>2 DEF Lifecycle!PartyConfirms
  <2>7. ASSUME NEW o \in DisputeOutcomes, r.cmd = [name |-> "ResolveDispute", outcome |-> o],
               r.actor = "mediator"
        PROVE  Lifecycle!MediatorResolves(at)
    BY <1>v, <2>1, <2>2, <2>7 DEF Lifecycle!MediatorResolves
  <2>8. ASSUME NEW n \in Simple \ {"Expire"}, r.cmd = Command(n), r.actor \in Parties
        PROVE  Lifecycle!PartyActs(at)
    BY <1>v, <2>1, <2>2, <2>8 DEF Lifecycle!PartyActs
  <2> QED
    BY <2>4, <2>5, <2>6, <2>7, <2>8, KnownRequest
<1>4. ASSUME actor = "system", NEW k \in TimerKinds,
             t \in Transition(deal, TimerCommand(k), "system", at)
      PROVE  Lifecycle!TimerFires(at)
  <2>1. Lifecycle!Accept(TimerCommand(k), "system", at)
    BY <1>4, WritesAccept
  <2> HIDE DEF at, actor
  <2> QED
    BY <1>v, <2>1 DEF Lifecycle!TimerFires
<1>5. \/ \E r \in Offered : /\ deal.version < MaxVersion /\ r.actor = actor
                            /\ t \in Transition(deal, r.cmd, actor, at)
      \/ /\ actor = "system"
         /\ \E k \in TimerKinds : t \in Transition(deal, TimerCommand(k), "system", at)
  BY <1>2 DEF Granted
<1> HIDE DEF at, actor
<1> QED
  BY <1>1, <1>3, <1>4, <1>5 DEF Lifecycle!Next

LEMMA LifecycleStep ==
    ASSUME IInv, [Next]_vars
    PROVE  Lifecycle!Next \/ UNCHANGED Lifecycle!vars
<1>1. ASSUME NEW p \in Procs, Commit(p)
      PROVE  Lifecycle!Next \/ UNCHANGED Lifecycle!vars
  <2>1. CASE ~(VersionHolds(p) /\ SeqIsFree(p))
    BY <1>1, <2>1 DEF Commit, CommitIf, rows, Lifecycle!vars
  <2>2. CASE VersionHolds(p) /\ SeqIsFree(p)
    BY <1>1, <2>2, CommitWrites, WriteIsLifecycleStep
  <2> QED
    BY <2>1, <2>2
<1>2. CASE Tick
  BY <1>2 DEF Tick, rows, Lifecycle!Next, Lifecycle!Tick
<1>3. CASE UNCHANGED vars
  BY <1>3 DEF vars, rows, Lifecycle!vars
<1>4. ASSUME NEW p \in Procs,
             \/ Receive(p) \/ LookupHold(p) \/ InsertHold(p) \/ Seal(p) \/ ApplyTimer(p)
             \/ Settle(p) \/ WorkerStep(p) \/ StorageError(p) \/ Die(p)
      PROVE  UNCHANGED Lifecycle!vars
  BY <1>4 DEF Receive, LookupHold, InsertHold, Seal, ApplyTimer, Settle, WorkerStep, ClaimDue,
              FireTask, CompleteTask, FailTask, Answer, StorageError, Die, rows, Lifecycle!vars
<1> QED
  BY <1>1, <1>2, <1>3, <1>4 DEF Next, ApplyStep

\* LifecycleSteps: of every step of every process, the rows see nothing or one
\* command or tick of the lifecycle.
THEOREM ServiceStepsAreCommands == Spec => LifecycleSteps
<1>1. IInv /\ [Next]_vars =>
         [Lifecycle!vars' # Lifecycle!vars => Lifecycle!Next]_(Lifecycle!vars)
  BY LifecycleStep
<1> QED
  BY <1>1, Inductive, PTL DEF Spec, LifecycleSteps

\* Whatever the interleaving, the service implements the lifecycle: from a new
\* deal on, racing requests, timers and retries serialise into accepted commands.
THEOREM ServiceImplementsLifecycle == Spec => ImplementsLifecycle
<1>1. Init => Lifecycle!Init
  <2>1. Lifecycle!NewDeal = NewDeal
    BY DEF Lifecycle!NewDeal, NewDeal, Lifecycle!Nobody, Nobody, Lifecycle!NoHash, NoHash,
           Lifecycle!CanonicalHash, CanonicalHash, Lifecycle!None, None,
           Lifecycle!Parties, Parties
  <2> QED
    BY <2>1 DEF Init, Lifecycle!Init
<1> QED
  BY <1>1, ServiceStepsAreCommands, PTL DEF Spec, ImplementsLifecycle
=============================================================================
