-------------------------- MODULE MCHandshakeService --------------------------
(* HandshakeService with the requests a question needs.  Who cancels and who *)
(* disputes is all the same to the service, so one party does each; the      *)
(* processes are interchangeable.                                            *)
EXTENDS HandshakeService, TLC

CONSTANT Commands   \* names of the commands the clients send

MCOffered ==
    {r \in RequestsUpTo(MaxVersion) :
        /\ r.cmd.name \in Commands
        /\ r.cmd.name = "Cancel" => r.actor = "seller"
        /\ r.cmd.name = "OpenDispute" => r.actor = "buyer"}

Interchangeable == Permutations(Procs)

\* A state the service reaches: both parties confirmed the witness's reading
\* at instant 0, every timer statement has run and nothing is in flight.
AgreedDeal ==
    LET t == CHOOSE x \in Terms : TRUE IN
    [NewDeal EXCEPT !.state = "Agreed", !.version = 3, !.terms = t,
                    !.termsHash = CanonicalHash(t), !.frozenAt = 0,
                    !.confirmed = [p \in Parties |-> 0]]

InitAgreed ==
    /\ deal = AgreedDeal
    /\ handle = FALSE
    /\ chain = <<Row("WitnessProposed", "system", 0),
                 Row("TermsConfirmed", "buyer", 0),
                 Row("TermsFrozen", "seller", 0)>>
    /\ tasks = [k \in TimerKinds |->
                   CASE k = "AgreementExpiry" ->
                          [NoTask EXCEPT !.state = "cancelled", !.due = AgreementWindow]
                     [] k = "FundingExpiry" ->
                          [NoTask EXCEPT !.state = "pending", !.due = FundingWindow]
                     [] OTHER -> NoTask]
    /\ escrow = "none"
    /\ ledger = [a \in Accounts |-> 0]
    /\ now = 0
    /\ pc = [p \in Procs |-> "idle"]
    /\ job = [p \in Procs |-> NoJob]
    /\ batch = [p \in Procs |-> {}]
    /\ intents = << >>
    /\ faults = 0

SpecFromAgreed == InitAgreed /\ [][Next]_vars

FairSpecFromAgreed ==
    /\ SpecFromAgreed
    /\ \A p \in Procs : WF_vars(ApplyStep(p)) /\ WF_vars(WorkerStep(p))
    /\ WF_vars(Tick)
=============================================================================
