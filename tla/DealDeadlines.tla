---------------------------- MODULE DealDeadlines ----------------------------
(***************************************************************************)
(* The deadlines of one deal while requests and sweeps on it follow one    *)
(* another and no statement fails: a transition is committed, its timer    *)
(* requests are applied one statement at a time, and a sweep claims what   *)
(* is due, fires it on the deal as it is then, and completes it.           *)
(*                                                                         *)
(* HandshakeService has the same statements with requests, sweeps and      *)
(* faults between any two of them; leases matter only there.               *)
(***************************************************************************)
EXTENDS DealLifecycle

CONSTANT Horizon   \* bound: people act, and timers fire late, only up to this instant

ASSUME HorizonAssumption == Horizon \in Nat

VARIABLES
    armed,     \* due instant of the pending row of each timer, None when there is none
    todo,      \* timer requests of the last transition still to be applied
    batch,     \* timers claimed by the sweep and not fired yet
    firing,    \* the claimed timer that has been fired and is to be completed
    since      \* when the deal entered its present state

sweep     == <<batch, firing>>
timedVars == <<vars, armed, todo, sweep, since>>

\* Nothing is under way: the next request or sweep may start.
Idle == todo = << >> /\ batch = {} /\ firing = "none"

-----------------------------------------------------------------------------
TimedInit ==
    /\ Init
    /\ armed = [k \in TimerKinds |-> None]
    /\ todo = << >>
    /\ batch = {} /\ firing = "none"
    /\ since = 0

\* apply(): the transition is committed, its timers are left to do.
TimedAccept(cmd, actor) ==
    \E t \in Transition(deal, cmd, actor, now) :
        /\ Accept(cmd, actor, now) /\ deal' = t.deal
        /\ todo' = t.timers
        /\ since' = IF t.deal.state = deal.state THEN since ELSE now
        /\ UNCHANGED armed

\* A request, with nothing else under way.
Request(cmd, actor) ==
    /\ Idle /\ MayAct /\ now <= Horizon
    /\ TimedAccept(cmd, actor)
    /\ UNCHANGED sweep

Witness == \E t \in Terms : Request([name |-> "ProposeExtraction", terms |-> t], "system")

Party ==
    \E p \in Parties :
        \/ \E t \in Terms : Request([name |-> "CorrectTerms", terms |-> t], p)
        \/ \E r \in 0 .. deal.termsRevision :
              Request([name |-> "ConfirmTerms", revision |-> r], p)
        \/ \E n \in Simple \ {"Expire"} : Request(Command(n), p)

Mediator ==
    \E o \in DisputeOutcomes : Request([name |-> "ResolveDispute", outcome |-> o], "mediator")

\* One statement of TaskQueue::apply: a request to set replaces whatever row
\* the kind has, a request to cancel takes a pending one away.
ApplyTimer ==
    /\ todo # << >>
    /\ armed' = [armed EXCEPT ![Head(todo).kind] = Head(todo).due]
    /\ todo' = Tail(todo)
    /\ UNCHANGED <<vars, sweep, since>>

Due == {k \in TimerKinds : armed[k] # None /\ armed[k] <= now}

\* Claimed rows stay pending until they are completed.
ClaimDue ==
    /\ Idle /\ Due # {}
    /\ batch' = Due
    /\ UNCHANGED <<vars, armed, todo, firing, since>>

\* fire_task: the command of the kind, as System, on the deal as it is now; a
\* command the deal no longer takes is dropped, and counts as done.
FireTask ==
    /\ todo = << >> /\ firing = "none"
    /\ \E k \in batch :
          /\ batch' = batch \ {k}
          /\ firing' = k
          /\ \/ TimedAccept(TimerCommand(k), "system")
             \/ /\ Transition(deal, TimerCommand(k), "system", now) = {}
                /\ UNCHANGED <<vars, armed, todo, since>>

CompleteTask ==
    /\ todo = << >> /\ firing # "none"
    /\ armed' = [armed EXCEPT ![firing] = None]
    /\ firing' = "none"
    /\ UNCHANGED <<vars, todo, batch, since>>

Clock ==
    /\ now > Horizon => Idle /\ Due = {}
    /\ Tick
    /\ UNCHANGED <<armed, todo, sweep, since>>

TimedNext ==
    \/ Witness
    \/ Party
    \/ Mediator
    \/ ApplyTimer
    \/ ClaimDue
    \/ FireTask
    \/ CompleteTask
    \/ Clock

\* Requests run to their end, the scheduler polls for ever and time passes;
\* nobody is obliged to send anything.
TimedSpec ==
    /\ TimedInit /\ [][TimedNext]_timedVars
    /\ WF_timedVars(ApplyTimer)
    /\ WF_timedVars(ClaimDue)
    /\ WF_timedVars(FireTask)
    /\ WF_timedVars(CompleteTask)
    /\ WF_timedVars(Clock)

-----------------------------------------------------------------------------
(* Correctness.                                                            *)

\* Between requests exactly the timer of the deal's state is armed, for the
\* full window since the state was entered: no arm of transition() leaves a
\* timer behind, and none forgets to set its own.
ArmedTimerIsTheStates ==
    Idle => armed = [k \in TimerKinds |->
                        IF deal.state \in DOMAIN Awaits /\ Awaits[deal.state] = k
                        THEN since + Window[k] ELSE None]

\* The release date shown to the parties is the one the timer will act on.
ShownReleaseIsArmed ==
    (Idle /\ deal.state = "Holding") => deal.releaseDueAt = armed["ReleaseHold"]

\* Deals cannot hang: a deal that awaits somebody leaves that state without
\* them, and money in custody is settled unless a dispute is open.
AwaitingEnds ==
    \A s \in DOMAIN Awaits : deal.state = s ~> deal.state # s

CustodyEnds ==
    FundsHeld(deal) ~> (IsTerminal(deal) \/ deal.state = "Disputed")
=============================================================================
