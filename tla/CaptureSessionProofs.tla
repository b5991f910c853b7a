------------------------ MODULE CaptureSessionProofs ------------------------
(***************************************************************************)
(* What holds of CaptureSession for any number of requests in flight, any  *)
(* phrases, recordings, readings and names, and any number of faults.      *)
(***************************************************************************)
EXTENDS CaptureSession, DealLemmas

\* The deal took a proposal, and it commits to something that was said.
Proposed == deal.version > 0 /\ attested.transcript # << >>

\* What a request with the locals j has established by the time it gets to a
\* label: the session exists, the bytes it points at are stored, there was
\* something to read, and the session is closed only behind a proposal.
Reached(label, j) ==
    /\ label # "idle" => Open
    /\ label = "put" => j.audio \in Recordings
    /\ label = "attach" => j.audio \in recordings
    /\ label = "extract" =>
          j.transcript # << >> /\ j.audio \in recordings \cup {NoRecording}
    /\ label \in {"speakers", "rename"} => j.names \in Names
    /\ label = "speakers" => ~j.closes
    /\ label = "close" \/ (label = "rename" /\ j.closes) => Proposed

\* Only a deal that left Draft has a reading, so that no other is accepted.
ReadingLeavesDraft == attested # Nothing => deal.state # "Draft"

IInv ==
    /\ TypeOK
    /\ ClosedIsProposed
    /\ RecordingsAreStored
    /\ ReadingLeavesDraft
    /\ \A q \in Procs : Reached(pc[q], job[q])

-----------------------------------------------------------------------------
(* What the requests rely on is never taken back.                          *)

Keeps ==
    /\ Open => Open'
    /\ recordings \subseteq recordings'
    /\ Proposed => Proposed'

LEMMA ReachedStands ==
    ASSUME Keeps, NEW label, NEW j, Reached(label, j)
    PROVE  Reached(label, j)'
BY DEF Keeps, Reached

LEMMA OthersStand ==
    ASSUME IInv, Keeps, UNCHANGED <<pc, job>>
    PROVE  \A q \in Procs : Reached(pc[q], job[q])'
<1> SUFFICES ASSUME NEW q \in Procs PROVE Reached(pc[q], job[q])'
  OBVIOUS
<1>1. Reached(pc[q], job[q]) /\ pc'[q] = pc[q] /\ job'[q] = job[q]
  BY DEF IInv
<1> QED
  BY <1>1 DEF Keeps, Reached

LEMMA GoToReaches ==
    ASSUME IInv, Keeps, NEW p \in Procs, NEW label \in PcLabels, NEW j \in JobType,
           GoTo(p, label, j), Reached(label, j)'
    PROVE  /\ pc' \in [Procs -> PcLabels] /\ job' \in [Procs -> JobType]
           /\ \A q \in Procs : Reached(pc[q], job[q])'
<1>1. pc \in [Procs -> PcLabels] /\ job \in [Procs -> JobType]
  BY DEF IInv, TypeOK
<1>2. pc' \in [Procs -> PcLabels] /\ job' \in [Procs -> JobType]
  BY <1>1 DEF GoTo
<1>3. ASSUME NEW q \in Procs PROVE Reached(pc[q], job[q])'
  <2>1. CASE q = p
    <3>1. pc'[q] = label /\ job'[q] = j
      BY <1>1, <2>1 DEF GoTo
    <3> QED
      BY <3>1 DEF Reached
  <2>2. CASE q # p
    <3>1. pc'[q] = pc[q] /\ job'[q] = job[q] /\ Reached(pc[q], job[q])
      BY <1>1, <2>2 DEF GoTo, IInv
    <3> QED
      BY <3>1 DEF Keeps, Reached
  <2> QED
    BY <2>1, <2>2
<1> QED
  BY <1>2, <1>3

LEMMA NoJobTyped == NoJob \in JobType
<1>1. << >> \in Seq(Phrases)
  OBVIOUS
<1> QED
  BY <1>1 DEF NoJob, JobType

\* A request that ends, whatever the rows have become meanwhile.
LEMMA DoneReaches ==
    ASSUME IInv, Keeps, NEW p \in Procs, Done(p)
    PROVE  /\ pc' \in [Procs -> PcLabels] /\ job' \in [Procs -> JobType]
           /\ \A q \in Procs : Reached(pc[q], job[q])'
<1>1. GoTo(p, "idle", NoJob) /\ "idle" \in PcLabels
  BY DEF Done, PcLabels
<1>2. Reached("idle", NoJob)'
  BY DEF Reached
<1> QED
  BY <1>1, <1>2, NoJobTyped, GoToReaches

\* Steps that leave the rows alone.
LEMMA RowsAlone ==
    ASSUME IInv, UNCHANGED rows
    PROVE  Keeps /\ ClosedIsProposed' /\ RecordingsAreStored' /\ ReadingLeavesDraft'
BY DEF IInv, Keeps, rows, Open, Proposed, ClosedIsProposed, RecordingsAreStored,
       ReadingLeavesDraft

\* Steps of a request up to its next await: the rows stand, the locals are set.
LEMMA LocalStep ==
    ASSUME IInv, NEW p \in Procs, NEW label \in PcLabels, NEW j \in JobType,
           GoTo(p, label, j), Reached(label, j), UNCHANGED rows, faults' \in Nat
    PROVE  IInv'
<1>1. Keeps /\ ClosedIsProposed' /\ RecordingsAreStored' /\ ReadingLeavesDraft'
  BY RowsAlone
<1>2. Reached(label, j)'
  BY <1>1, ReachedStands
<1>3. /\ pc' \in [Procs -> PcLabels] /\ job' \in [Procs -> JobType]
      /\ \A q \in Procs : Reached(pc[q], job[q])'
  BY <1>1, <1>2, GoToReaches
<1>4. TypeOK'
  BY <1>3 DEF IInv, TypeOK, rows
<1> QED
  BY <1>1, <1>3, <1>4 DEF IInv

\* Steps that write the session's row, which is there and stays.
LEMMA SessionStep ==
    ASSUME IInv, Open, session' \in SessionType,
           UNCHANGED <<deal, labels, recordings, attested, faults>>,
           ClosedIsProposed',
           session'.audio \in recordings \cup {NoRecording},
           pc' \in [Procs -> PcLabels], job' \in [Procs -> JobType],
           \A q \in Procs : Reached(pc[q], job[q])'
    PROVE  IInv'
<1>1. TypeOK'
  BY DEF IInv, TypeOK
<1>2. RecordingsAreStored'
  BY DEF IInv, RecordingsAreStored
<1>3. ReadingLeavesDraft'
  BY DEF IInv, ReadingLeavesDraft
<1> QED
  BY <1>1, <1>2, <1>3 DEF IInv

LEMMA SessionTyped ==
    ASSUME IInv, Open
    PROVE  session \in SessionType
BY DEF IInv, TypeOK, Open

LEMMA SessionsOpen ==
    ASSUME NEW s \in SessionType
    PROVE  s # NoSession
<1>1. s.open = TRUE
  BY DEF SessionType
<1>2. NoSession.open = FALSE
  BY DEF NoSession
<1> QED
  BY <1>1, <1>2

-----------------------------------------------------------------------------
(* The requests of a capture.                                              *)

LEMMA OpenSessionKeeps ==
    ASSUME IInv, OpenSession
    PROVE  IInv'
<1>1. << >> \in Seq(Phrases)
  OBVIOUS
<1>2. NewSession \in SessionType /\ session' = NewSession
  BY <1>1 DEF NewSession, SessionType, OpenSession
<1>3. Open'
  BY <1>2, SessionsOpen DEF Open
<1>4. Keeps
  BY <1>3 DEF OpenSession, Keeps, Proposed
<1>5. \A q \in Procs : Reached(pc[q], job[q])'
  BY <1>4, OthersStand DEF OpenSession
<1>6. TypeOK'
  BY <1>2 DEF IInv, TypeOK, OpenSession
<1>7. ClosedIsProposed' /\ RecordingsAreStored' /\ ReadingLeavesDraft'
  BY <1>2, <1>3
     DEF IInv, OpenSession, NewSession, ClosedIsProposed, RecordingsAreStored, ReadingLeavesDraft
<1> QED
  BY <1>5, <1>6, <1>7 DEF IInv

LEMMA AppendKeeps ==
    ASSUME IInv, NEW p \in Procs, AppendUtterance(p)
    PROVE  IInv'
<1>1. PICK x \in Phrases :
         GoTo(p, "write", [NoJob EXCEPT !.transcript = Append(session.transcript, x)])
  BY DEF AppendUtterance
<1>2. Open /\ session.transcript \in Seq(Phrases) /\ UNCHANGED rows /\ faults' \in Nat
  BY SessionTyped DEF AppendUtterance, SessionType, IInv, TypeOK
<1>3. Append(session.transcript, x) \in Seq(Phrases)
  BY <1>2
<1>4. PICK j : j = [NoJob EXCEPT !.transcript = Append(session.transcript, x)]
  OBVIOUS
<1>5. j \in JobType
  BY <1>3, <1>4, NoJobTyped DEF JobType
<1>6. Reached("write", j) /\ "write" \in PcLabels /\ GoTo(p, "write", j)
  BY <1>1, <1>2, <1>4 DEF Reached, PcLabels
<1> QED
  BY <1>2, <1>5, <1>6, LocalStep

LEMMA WriteKeeps ==
    ASSUME IInv, NEW p \in Procs, WriteTranscript(p)
    PROVE  IInv'
<1>1. Open /\ job[p] \in JobType
  BY DEF IInv, TypeOK, Reached, WriteTranscript
<1>2. session \in SessionType
  BY <1>1, SessionTyped
<1>3. job[p].transcript \in Seq(Phrases)
  BY <1>1 DEF JobType
<1>4. /\ session' \in SessionType
      /\ session'.closed = session.closed /\ session'.audio = session.audio
  BY <1>2, <1>3 DEF WriteTranscript, SessionType
<1>5. Open'
  BY <1>4, SessionsOpen DEF Open
<1>6. Keeps
  BY <1>5 DEF WriteTranscript, Keeps, Proposed
<1>7. /\ pc' \in [Procs -> PcLabels] /\ job' \in [Procs -> JobType]
      /\ \A q \in Procs : Reached(pc[q], job[q])'
  BY <1>6, DoneReaches DEF WriteTranscript
<1>8. ClosedIsProposed' /\ session'.audio \in recordings \cup {NoRecording}
  BY <1>1, <1>4 DEF IInv, ClosedIsProposed, RecordingsAreStored, WriteTranscript
<1> QED
  BY <1>1, <1>4, <1>7, <1>8, SessionStep DEF WriteTranscript

LEMMA AttachKeeps ==
    ASSUME IInv, NEW p \in Procs, AttachAudio(p)
    PROVE  IInv'
<1>1. PICK a \in Recordings \ recordings : GoTo(p, "put", [NoJob EXCEPT !.audio = a])
  BY DEF AttachAudio
<1>2. Open /\ UNCHANGED rows /\ faults' \in Nat
  BY DEF AttachAudio, IInv, TypeOK
<1>3. PICK j : j = [NoJob EXCEPT !.audio = a]
  OBVIOUS
<1>4. j \in JobType
  BY <1>3, NoJobTyped DEF JobType
<1>5. Reached("put", j) /\ "put" \in PcLabels /\ GoTo(p, "put", j)
  BY <1>1, <1>2, <1>3 DEF Reached, PcLabels
<1> QED
  BY <1>2, <1>4, <1>5, LocalStep

LEMMA PutKeeps ==
    ASSUME IInv, NEW p \in Procs, PutAudio(p)
    PROVE  IInv'
<1>1. job[p] \in JobType /\ Open /\ "attach" \in PcLabels
  BY DEF IInv, TypeOK, Reached, PutAudio, PcLabels
<1>2. PICK j \in JobType : j = job[p]
  BY <1>1
<1>3. Keeps
  BY DEF PutAudio, Keeps, Open, Proposed
<1>4. j.audio \in recordings' /\ Open'
  BY <1>1, <1>2, <1>3 DEF PutAudio, Keeps
<1>5. Reached("attach", j)' /\ GoTo(p, "attach", j)
  BY <1>2, <1>4 DEF Reached, PutAudio
<1>6. /\ pc' \in [Procs -> PcLabels] /\ job' \in [Procs -> JobType]
      /\ \A q \in Procs : Reached(pc[q], job[q])'
  BY <1>1, <1>3, <1>5, GoToReaches
<1>7. j.audio \in Recordings /\ recordings' = recordings \cup {j.audio}
  BY <1>2 DEF IInv, Reached, PutAudio
<1>8. TypeOK'
  BY <1>6, <1>7 DEF IInv, TypeOK, PutAudio
<1>9. ClosedIsProposed' /\ RecordingsAreStored' /\ ReadingLeavesDraft'
  BY <1>7 DEF IInv, PutAudio, ClosedIsProposed, RecordingsAreStored, ReadingLeavesDraft, Open
<1> QED
  BY <1>6, <1>8, <1>9 DEF IInv

LEMMA PointKeeps ==
    ASSUME IInv, NEW p \in Procs, PointAtAudio(p)
    PROVE  IInv'
<1>1. Open /\ job[p].audio \in recordings
  BY DEF IInv, Reached, PointAtAudio
<1>2. session \in SessionType /\ job[p].audio \in Recordings
  BY <1>1, SessionTyped DEF IInv, TypeOK
<1>3. /\ session' \in SessionType
      /\ session'.closed = session.closed
      /\ session'.audio \in {session.audio, job[p].audio}
  BY <1>2 DEF PointAtAudio, SessionType
<1>4. Open'
  BY <1>3, SessionsOpen DEF Open
<1>5. Keeps
  BY <1>4 DEF PointAtAudio, Keeps, Proposed
<1>6. /\ pc' \in [Procs -> PcLabels] /\ job' \in [Procs -> JobType]
      /\ \A q \in Procs : Reached(pc[q], job[q])'
  BY <1>5, DoneReaches DEF PointAtAudio
<1>7. ClosedIsProposed' /\ session'.audio \in recordings \cup {NoRecording}
  BY <1>1, <1>3 DEF IInv, ClosedIsProposed, RecordingsAreStored, PointAtAudio
<1> QED
  BY <1>1, <1>3, <1>6, <1>7, SessionStep DEF PointAtAudio

LEMMA IdentifyKeeps ==
    ASSUME IInv, NEW p \in Procs, IdentifySpeakers(p)
    PROVE  IInv'
<1>1. PICK n \in Names \cup {NoNames} : GoTo(p, "identify", [NoJob EXCEPT !.names = n])
  BY DEF IdentifySpeakers
<1>2. Open /\ UNCHANGED rows /\ faults' \in Nat
  BY DEF IdentifySpeakers, IInv, TypeOK
<1>3. PICK j : j = [NoJob EXCEPT !.names = n]
  OBVIOUS
<1>4. j \in JobType
  BY <1>3, NoJobTyped DEF JobType
<1>5. Reached("identify", j) /\ "identify" \in PcLabels /\ GoTo(p, "identify", j)
  BY <1>1, <1>2, <1>3 DEF Reached, PcLabels
<1> QED
  BY <1>2, <1>4, <1>5, LocalStep

LEMMA ConfirmKeeps ==
    ASSUME IInv, NEW p \in Procs, ConfirmSpeakers(p)
    PROVE  IInv'
<1>1. PICK n \in Names : GoTo(p, "speakers", [NoJob EXCEPT !.names = n])
  BY DEF ConfirmSpeakers
<1>2. Open /\ UNCHANGED rows /\ faults' \in Nat
  BY DEF ConfirmSpeakers, IInv, TypeOK
<1>3. PICK j : j = [NoJob EXCEPT !.names = n]
  OBVIOUS
<1>4. j \in JobType /\ j.names = n /\ ~j.closes
  BY <1>3, NoJobTyped DEF JobType, NoJob
<1>5. Reached("speakers", j) /\ "speakers" \in PcLabels /\ GoTo(p, "speakers", j)
  BY <1>1, <1>2, <1>3, <1>4 DEF Reached, PcLabels
<1> QED
  BY <1>2, <1>4, <1>5, LocalStep

LEMMA SetSpeakersKeeps ==
    ASSUME IInv, NEW p \in Procs, SetSpeakers(p)
    PROVE  IInv'
<1>1. Open /\ job[p] \in JobType /\ "rename" \in PcLabels
  BY DEF IInv, TypeOK, Reached, SetSpeakers, PcLabels
<1>2. session \in SessionType
  BY <1>1, SessionTyped
<1>3. job[p].names \in Names \cup {NoNames}
  BY <1>1 DEF JobType
<1>4. /\ session' \in SessionType
      /\ session'.closed = session.closed /\ session'.audio = session.audio
  BY <1>2, <1>3 DEF SetSpeakers, SessionType
<1>5. Open'
  BY <1>4, SessionsOpen DEF Open
<1>6. Keeps
  BY <1>5 DEF SetSpeakers, Keeps, Proposed
<1>7. /\ pc' \in [Procs -> PcLabels] /\ job' \in [Procs -> JobType]
      /\ \A q \in Procs : Reached(pc[q], job[q])'
  <2>1. CASE pc[p] = "identify"
    BY <2>1, <1>6, DoneReaches DEF SetSpeakers
  <2>2. CASE pc[p] = "speakers"
    <3>1. PICK j \in JobType : j = job[p]
      BY <1>1
    <3>2. j.names \in Names /\ ~j.closes
      BY <2>2, <3>1 DEF IInv, Reached
    <3>3. Reached("rename", j)' /\ GoTo(p, "rename", j)
      BY <1>5, <2>2, <3>1, <3>2 DEF Reached, SetSpeakers
    <3> QED
      BY <1>1, <1>6, <3>3, GoToReaches
  <2> QED
    BY <2>1, <2>2 DEF SetSpeakers
<1>8. ClosedIsProposed' /\ session'.audio \in recordings \cup {NoRecording}
  BY <1>1, <1>4 DEF IInv, ClosedIsProposed, RecordingsAreStored, SetSpeakers
<1> QED
  BY <1>1, <1>4, <1>7, <1>8, SessionStep DEF SetSpeakers

\* Behind a rename a proposal goes on to close, anything else is done.
LEMMA AfterRenameReaches ==
    ASSUME IInv, Keeps, NEW p \in Procs, pc[p] = "rename", AfterRename(p)
    PROVE  /\ pc' \in [Procs -> PcLabels] /\ job' \in [Procs -> JobType]
           /\ \A q \in Procs : Reached(pc[q], job[q])'
<1>1. CASE job[p].closes
  <2>1. Open /\ Proposed
    BY <1>1 DEF IInv, Reached
  <2>2. Reached("close", NoJob)' /\ "close" \in PcLabels /\ GoTo(p, "close", NoJob)
    BY <1>1, <2>1 DEF Keeps, Reached, PcLabels, AfterRename
  <2> QED
    BY <2>2, NoJobTyped, GoToReaches
<1>2. CASE ~job[p].closes
  BY <1>2, DoneReaches DEF AfterRename
<1> QED
  BY <1>1, <1>2

LEMMA RenameKeeps ==
    ASSUME IInv, NEW p \in Procs, RenameParties(p)
    PROVE  IInv'
<1>1. Keeps
  BY DEF RenameParties, Keeps, Open, Proposed
<1>2. /\ pc' \in [Procs -> PcLabels] /\ job' \in [Procs -> JobType]
      /\ \A q \in Procs : Reached(pc[q], job[q])'
  BY <1>1, AfterRenameReaches DEF RenameParties
<1>3. labels' \in Names
  BY DEF IInv, TypeOK, Reached, RenameParties
<1>4. TypeOK'
  BY <1>2, <1>3 DEF IInv, TypeOK, RenameParties
<1>5. ClosedIsProposed' /\ RecordingsAreStored' /\ ReadingLeavesDraft'
  BY DEF IInv, RenameParties, ClosedIsProposed, RecordingsAreStored, ReadingLeavesDraft, Open
<1> QED
  BY <1>2, <1>4, <1>5 DEF IInv

LEMMA RenameFailsKeeps ==
    ASSUME IInv, NEW p \in Procs, RenameFails(p)
    PROVE  IInv'
<1>1. Keeps /\ ClosedIsProposed' /\ RecordingsAreStored' /\ ReadingLeavesDraft'
  BY RowsAlone DEF RenameFails
<1>2. /\ pc' \in [Procs -> PcLabels] /\ job' \in [Procs -> JobType]
      /\ \A q \in Procs : Reached(pc[q], job[q])'
  BY <1>1, AfterRenameReaches DEF RenameFails
<1>3. TypeOK'
  BY <1>2 DEF IInv, TypeOK, RenameFails, rows
<1> QED
  BY <1>1, <1>2, <1>3 DEF IInv

LEMMA ProposeKeeps ==
    ASSUME IInv, NEW p \in Procs, Propose(p)
    PROVE  IInv'
<1>1. Open /\ session \in SessionType /\ UNCHANGED rows /\ faults' \in Nat
  BY SessionTyped DEF Propose, IInv, TypeOK
<1>2. /\ session.transcript \in Seq(Phrases) /\ session.transcript # << >>
      /\ LoadedAudio \in recordings \cup {NoRecording}
      /\ LoadedAudio \in Recordings \cup {NoRecording}
  BY <1>1 DEF Propose, SessionType, LoadedAudio
<1>3. PICK j : j = [NoJob EXCEPT !.transcript = session.transcript, !.audio = LoadedAudio]
  OBVIOUS
<1>4. j \in JobType /\ j.transcript = session.transcript /\ j.audio = LoadedAudio
  BY <1>2, <1>3, NoJobTyped DEF JobType
<1>5. Reached("extract", j) /\ "extract" \in PcLabels /\ GoTo(p, "extract", j)
  BY <1>1, <1>2, <1>3, <1>4 DEF Reached, PcLabels, Propose
<1> QED
  BY <1>1, <1>4, <1>5, LocalStep

-----------------------------------------------------------------------------
(* Commands on the deal.                                                   *)

\* A proposal is taken in Draft only; no command leads back there, and each
\* counts the version up.
LEMMA CommandTyped ==
    ASSUME IInv, NEW cmd, WellFormed(cmd), NEW actor \in Actors,
           NEW r \in Transition(deal, cmd, actor, Now)
    PROVE  /\ r.deal \in DealType
           /\ r.deal.version > 0 /\ r.deal.state # "Draft"
           /\ cmd.name = "ProposeExtraction" => deal.state = "Draft"
<1>1. Now \in Nat /\ deal \in DealType
  BY DEF Now, IInv, TypeOK
<1>2. r.deal \in DealType /\ r.deal.version = deal.version + 1
  BY <1>1, TransitionTyped
<1>3. r.deal.version > 0
  BY <1>1, <1>2 DEF DealType
<1>4. r.deal.state # "Draft"
  BY <1>1, TransitionEffect DEF Negotiates, Freezes, Edges, Resolves
<1>5. cmd.name = "ProposeExtraction" => deal.state = "Draft"
  BY DEF Transition, ProposeExtraction, CorrectTerms, ConfirmTerms, Fund, SubmitHandoffProof,
         ConfirmReceipt, AutoConfirmReceipt, ReleaseFunds, OpenDispute, ResolveDispute,
         Cancel, ExpireUnfunded, RefundExpired, When
<1> QED
  BY <1>2, <1>3, <1>4, <1>5

\* Everything but a proposal leaves what was attested alone.
LEMMA PartiesStep ==
    ASSUME IInv, NEW cmd, WellFormed(cmd), NEW actor \in Actors,
           NEW r \in Transition(deal, cmd, actor, Now), deal' = r.deal,
           UNCHANGED <<labels, session, recordings, attested, faults>>
    PROVE  /\ Keeps /\ deal' \in DealType
           /\ ClosedIsProposed' /\ RecordingsAreStored' /\ ReadingLeavesDraft'
<1>1. deal' \in DealType /\ deal'.version > 0 /\ deal'.state # "Draft"
  BY CommandTyped
<1>2. Keeps
  BY <1>1 DEF Keeps, Open, Proposed
<1> QED
  BY <1>1, <1>2
     DEF IInv, ClosedIsProposed, RecordingsAreStored, ReadingLeavesDraft, Open

LEMMA ExtractKeeps ==
    ASSUME IInv, NEW p \in Procs, Extract(p)
    PROVE  IInv'
<1>0. job[p] \in JobType /\ pc[p] = "extract" /\ Reached(pc[p], job[p])
  BY DEF IInv, TypeOK, Extract
<1>a. Open
  BY <1>0 DEF Reached
<1>1. ASSUME NEW t \in Terms,
             NEW r \in Transition(deal, [name |-> "ProposeExtraction", terms |-> t], "system", Now),
             deal' = r.deal,
             attested' = [transcript |-> job[p].transcript, audio |-> job[p].audio],
             GoTo(p, "rename", [NoJob EXCEPT !.names = NamesIn[t], !.closes = TRUE])
      PROVE  IInv'
  <2>1. PICK cmd : cmd = [name |-> "ProposeExtraction", terms |-> t]
    OBVIOUS
  <2>2. WellFormed(cmd) /\ cmd.name = "ProposeExtraction" /\ "system" \in Actors
    BY <2>1 DEF WellFormed, Actors
  <2>3. deal' \in DealType /\ deal'.version > 0 /\ deal'.state # "Draft"
    BY <1>1, <2>1, <2>2, CommandTyped
  <2>4. /\ attested'.transcript = job[p].transcript /\ attested'.audio = job[p].audio
        /\ job[p].transcript \in Seq(Phrases) /\ job[p].transcript # << >>
        /\ job[p].audio \in Recordings \cup {NoRecording}
        /\ job[p].audio \in recordings \cup {NoRecording}
    BY <1>0, <1>1 DEF JobType, Reached
  <2>5. Keeps /\ Proposed'
    BY <2>3, <2>4 DEF Extract, Keeps, Open, Proposed
  <2>6. PICK j : j = [NoJob EXCEPT !.names = NamesIn[t], !.closes = TRUE]
    OBVIOUS
  <2>7. j \in JobType /\ j.names \in Names
    BY <2>6, NoJobTyped, CaptureAssumption DEF JobType
  <2>8. Reached("rename", j)' /\ "rename" \in PcLabels /\ GoTo(p, "rename", j)
    BY <1>a, <1>1, <2>5, <2>6, <2>7 DEF Reached, PcLabels, Keeps
  <2>9. /\ pc' \in [Procs -> PcLabels] /\ job' \in [Procs -> JobType]
        /\ \A q \in Procs : Reached(pc[q], job[q])'
    BY <2>5, <2>7, <2>8, GoToReaches
  <2>10. TypeOK'
    BY <2>3, <2>4, <2>9 DEF IInv, TypeOK, Extract
  <2>11. RecordingsAreStored'
    BY <2>4 DEF IInv, RecordingsAreStored, Extract, Open
  <2>12. ClosedIsProposed' /\ ReadingLeavesDraft'
    BY <2>3, <2>5 DEF ClosedIsProposed, ReadingLeavesDraft, Proposed
  <2> QED
    BY <2>9, <2>10, <2>11, <2>12 DEF IInv
<1>2. ASSUME Done(p), UNCHANGED <<deal, attested>> PROVE IInv'
  <2>1. UNCHANGED rows /\ faults' \in Nat
    BY <1>2 DEF Extract, rows, IInv, TypeOK
  <2>2. GoTo(p, "idle", NoJob) /\ "idle" \in PcLabels /\ Reached("idle", NoJob)
    BY <1>2 DEF Done, PcLabels, Reached
  <2> QED
    BY <2>1, <2>2, NoJobTyped, LocalStep
<1> QED
  BY <1>1, <1>2 DEF Extract

LEMMA CloseKeeps ==
    ASSUME IInv, NEW p \in Procs, Close(p)
    PROVE  IInv'
<1>1. Open /\ Proposed
  BY DEF IInv, Reached, Close
<1>2. session \in SessionType
  BY <1>1, SessionTyped
<1>3. session' \in SessionType /\ session'.audio = session.audio
  BY <1>2 DEF Close, SessionType
<1>4. Open'
  BY <1>3, SessionsOpen DEF Open
<1>5. Keeps
  BY <1>4 DEF Close, Keeps, Proposed
<1>6. /\ pc' \in [Procs -> PcLabels] /\ job' \in [Procs -> JobType]
      /\ \A q \in Procs : Reached(pc[q], job[q])'
  BY <1>5, DoneReaches DEF Close
<1>7. ClosedIsProposed' /\ session'.audio \in recordings \cup {NoRecording}
  BY <1>1, <1>3, <1>5 DEF IInv, Keeps, Proposed, ClosedIsProposed, RecordingsAreStored
<1> QED
  BY <1>1, <1>3, <1>6, <1>7, SessionStep DEF Close

LEMMA CorrectKeeps ==
    ASSUME IInv, NEW p \in Procs, CorrectTermsOf(p)
    PROVE  IInv'
<1>1. PICK party \in Parties, t \in Terms :
         \E r \in Transition(deal, [name |-> "CorrectTerms", terms |-> t], party, Now) :
            /\ deal' = r.deal
            /\ GoTo(p, "rename", [NoJob EXCEPT !.names = NamesIn[t]])
  BY DEF CorrectTermsOf
<1>2. PICK cmd : cmd = [name |-> "CorrectTerms", terms |-> t]
  OBVIOUS
<1>3. PICK r \in Transition(deal, cmd, party, Now) :
         /\ deal' = r.deal
         /\ GoTo(p, "rename", [NoJob EXCEPT !.names = NamesIn[t]])
  BY <1>1, <1>2
<1>4. WellFormed(cmd) /\ party \in Actors
  BY <1>2 DEF WellFormed, Actors
<1>5. /\ Keeps /\ deal' \in DealType
      /\ ClosedIsProposed' /\ RecordingsAreStored' /\ ReadingLeavesDraft'
  BY <1>3, <1>4, PartiesStep DEF CorrectTermsOf
<1>6. PICK j : j = [NoJob EXCEPT !.names = NamesIn[t]]
  OBVIOUS
<1>7. j \in JobType /\ j.names \in Names /\ ~j.closes
  BY <1>6, NoJobTyped, CaptureAssumption DEF JobType, NoJob
<1>8. Reached("rename", j)' /\ "rename" \in PcLabels /\ GoTo(p, "rename", j)
  BY <1>3, <1>5, <1>6, <1>7 DEF Reached, PcLabels, Keeps, CorrectTermsOf
<1>9. /\ pc' \in [Procs -> PcLabels] /\ job' \in [Procs -> JobType]
      /\ \A q \in Procs : Reached(pc[q], job[q])'
  BY <1>5, <1>7, <1>8, GoToReaches
<1>10. TypeOK'
  BY <1>5, <1>9 DEF IInv, TypeOK, CorrectTermsOf
<1> QED
  BY <1>5, <1>9, <1>10 DEF IInv

\* A command nothing follows.
LEMMA BareCommandKeeps ==
    ASSUME IInv, NEW cmd, WellFormed(cmd), NEW actor \in Actors,
           NEW r \in Transition(deal, cmd, actor, Now), deal' = r.deal,
           UNCHANGED <<labels, session, recordings, attested, pc, job, faults>>
    PROVE  IInv'
<1>1. /\ Keeps /\ deal' \in DealType
      /\ ClosedIsProposed' /\ RecordingsAreStored' /\ ReadingLeavesDraft'
  BY PartiesStep
<1>2. \A q \in Procs : Reached(pc[q], job[q])'
  BY <1>1, OthersStand
<1>3. TypeOK'
  BY <1>1 DEF IInv, TypeOK
<1> QED
  BY <1>1, <1>2, <1>3 DEF IInv

LEMMA ConfirmTermsKeeps ==
    ASSUME IInv, NEW party \in Parties, ConfirmTermsBy(party)
    PROVE  IInv'
<1>1. PICK cmd : cmd = [name |-> "ConfirmTerms", revision |-> deal.termsRevision]
  OBVIOUS
<1>2. PICK r \in Transition(deal, cmd, party, Now) : deal' = r.deal
  BY <1>1 DEF ConfirmTermsBy
<1>3. WellFormed(cmd) /\ party \in Actors
  BY <1>1 DEF WellFormed, Actors
<1> QED
  BY <1>2, <1>3, BareCommandKeeps DEF ConfirmTermsBy

LEMMA EndKeeps ==
    ASSUME IInv, EndDeal
    PROVE  IInv'
<1>a. /\ WellFormed(Command("Cancel")) /\ WellFormed(Command("Expire"))
      /\ "buyer" \in Actors /\ "system" \in Actors
  BY DEF WellFormed, Command, Actors, Parties
<1>1. CASE \E r \in Transition(deal, Command("Cancel"), "buyer", Now) : deal' = r.deal
  BY <1>a, <1>1, BareCommandKeeps DEF EndDeal
<1>2. CASE \E r \in Transition(deal, Command("Expire"), "system", Now) : deal' = r.deal
  BY <1>a, <1>2, BareCommandKeeps DEF EndDeal
<1> QED
  BY <1>1, <1>2 DEF EndDeal

LEMMA DieKeeps ==
    ASSUME IInv, NEW p \in Procs, Die(p)
    PROVE  IInv'
<1>1. UNCHANGED rows /\ faults' \in Nat
  BY DEF Die, IInv, TypeOK
<1>2. GoTo(p, "idle", NoJob) /\ "idle" \in PcLabels /\ Reached("idle", NoJob)
  BY DEF Die, Done, PcLabels, Reached
<1> QED
  BY <1>1, <1>2, NoJobTyped, LocalStep

-----------------------------------------------------------------------------
(* The machine.                                                            *)

LEMMA InitIInv ==
    ASSUME Init
    PROVE  IInv
<1>1. NewDeal \in DealType
  BY DEF NewDeal, DealType, States, Nobody, MaybeNat, NoHash, CanonicalHash
<1>2. << >> \in Seq(Phrases) /\ "idle" \in PcLabels
  BY DEF PcLabels
<1>3. ~Open
  BY DEF Init, Open
<1>4. TypeOK
  BY <1>1, <1>2, NoJobTyped DEF Init, TypeOK, Nothing
<1>5. ClosedIsProposed /\ RecordingsAreStored /\ ReadingLeavesDraft
  BY <1>3 DEF Init, ClosedIsProposed, RecordingsAreStored, ReadingLeavesDraft, Nothing
<1>6. ASSUME NEW q \in Procs PROVE Reached(pc[q], job[q])
  BY DEF Init, Reached
<1> QED
  BY <1>4, <1>5, <1>6 DEF IInv

LEMMA NextIInv ==
    ASSUME IInv, [Next]_vars
    PROVE  IInv'
<1>1. CASE OpenSession
  BY <1>1, OpenSessionKeeps
<1>2. ASSUME NEW p \in Procs, CaptureStep(p) PROVE IInv'
  BY <1>2, AppendKeeps, WriteKeeps, AttachKeeps, PutKeeps, PointKeeps, IdentifyKeeps,
     ConfirmKeeps, SetSpeakersKeeps, RenameKeeps, RenameFailsKeeps, ProposeKeeps,
     ExtractKeeps, CloseKeeps
     DEF CaptureStep
<1>3. ASSUME NEW p \in Procs, CorrectTermsOf(p) PROVE IInv'
  BY <1>3, CorrectKeeps
<1>4. ASSUME NEW p \in Procs, Die(p) PROVE IInv'
  BY <1>4, DieKeeps
<1>5. ASSUME NEW party \in Parties, ConfirmTermsBy(party) PROVE IInv'
  BY <1>5, ConfirmTermsKeeps
<1>6. CASE EndDeal
  BY <1>6, EndKeeps
<1>7. CASE UNCHANGED vars
  <2>1. UNCHANGED rows /\ UNCHANGED <<pc, job, faults>>
    BY <1>7 DEF vars
  <2>2. Keeps /\ ClosedIsProposed' /\ RecordingsAreStored' /\ ReadingLeavesDraft'
    BY <2>1, RowsAlone
  <2>3. \A q \in Procs : Reached(pc[q], job[q])'
    BY <2>1, <2>2, OthersStand
  <2>4. TypeOK'
    BY <2>1 DEF IInv, TypeOK, rows
  <2> QED
    BY <2>2, <2>3, <2>4 DEF IInv
<1> QED
  BY <1>1, <1>2, <1>3, <1>4, <1>5, <1>6, <1>7 DEF Next

LEMMA Inductive == Spec => []IInv
<1>1. Init => IInv
  BY InitIInv
<1>2. IInv /\ [Next]_vars => IInv'
  BY NextIInv
<1> QED
  BY <1>1, <1>2, PTL DEF Spec

\* TypeOK: rows and locals keep their types, and the labels of a deal always
\* name both parties, for any number of requests in flight.
THEOREM RowsTyped == Spec => []TypeOK
<1>1. IInv => TypeOK
  BY DEF IInv
<1> QED
  BY <1>1, Inductive, PTL

\* ClosedIsProposed: a session is closed only behind a proposal the deal took.
THEOREM ClosedBehindProposal == Spec => []ClosedIsProposed
<1>1. IInv => ClosedIsProposed
  BY DEF IInv
<1> QED
  BY <1>1, Inductive, PTL

\* RecordingsAreStored: what the chain or the session refers to has been stored.
THEOREM AttestedSoundExists == Spec => []RecordingsAreStored
<1>1. IInv => RecordingsAreStored
  BY DEF IInv
<1> QED
  BY <1>1, Inductive, PTL

-----------------------------------------------------------------------------
(* What a step may not do.                                                 *)

LEMMA ClosedStands ==
    ASSUME IInv, [Next]_vars
    PROVE  (Open /\ session.closed) =>
              /\ session'.closed
              /\ session'.transcript = session.transcript
              /\ session'.audio = session.audio
<1> SUFFICES ASSUME Open, session.closed
             PROVE  /\ session'.closed
                    /\ session'.transcript = session.transcript
                    /\ session'.audio = session.audio
  OBVIOUS
<1>1. session \in SessionType
  BY SessionTyped
<1>2. CASE session' = session
  BY <1>2
<1>3. ASSUME NEW p \in Procs, SetSpeakers(p)
      PROVE  /\ session'.closed
             /\ session'.transcript = session.transcript
             /\ session'.audio = session.audio
  BY <1>1, <1>3 DEF SetSpeakers, SessionType
<1>4. ASSUME NEW p \in Procs, Close(p)
      PROVE  /\ session'.closed
             /\ session'.transcript = session.transcript
             /\ session'.audio = session.audio
  BY <1>1, <1>4 DEF Close, SessionType
<1>5. \/ session' = session
      \/ \E p \in Procs : SetSpeakers(p) \/ Close(p)
  BY DEF Next, vars, rows, OpenSession, CaptureStep, AppendUtterance, WriteTranscript,
         AttachAudio, PutAudio, PointAtAudio, IdentifySpeakers, ConfirmSpeakers,
         RenameParties, RenameFails, Propose, Extract, CorrectTermsOf, Die,
         ConfirmTermsBy, EndDeal
<1> QED
  BY <1>2, <1>3, <1>4, <1>5

LEMMA LabelsStand ==
    ASSUME [Next]_vars
    PROVE  deal.termsHash # NoHash => labels' = labels
BY DEF Next, vars, rows, OpenSession, CaptureStep, AppendUtterance, WriteTranscript,
       AttachAudio, PutAudio, PointAtAudio, IdentifySpeakers, ConfirmSpeakers, SetSpeakers,
       RenameParties, RenameFails, Propose, Extract, Close, CorrectTermsOf, Die,
       ConfirmTermsBy, EndDeal

LEMMA AttestedStands ==
    ASSUME IInv, [Next]_vars
    PROVE  attested # Nothing => attested' = attested
<1> SUFFICES ASSUME attested # Nothing PROVE attested' = attested
  OBVIOUS
<1>1. deal.state # "Draft"
  BY DEF IInv, ReadingLeavesDraft
<1>2. ASSUME NEW p \in Procs, Extract(p) PROVE attested' = attested
  <2>1. ASSUME NEW t \in Terms,
               NEW r \in Transition(deal, [name |-> "ProposeExtraction", terms |-> t],
                                    "system", Now)
        PROVE  FALSE
    <3>1. PICK cmd : cmd = [name |-> "ProposeExtraction", terms |-> t]
      OBVIOUS
    <3>2. WellFormed(cmd) /\ cmd.name = "ProposeExtraction" /\ "system" \in Actors
      BY <3>1 DEF WellFormed, Actors
    <3> QED
      BY <1>1, <2>1, <3>1, <3>2, CommandTyped
  <2> QED
    BY <1>2, <2>1 DEF Extract
<1>3. attested' = attested \/ \E p \in Procs : Extract(p)
  BY DEF Next, vars, rows, OpenSession, CaptureStep, AppendUtterance, WriteTranscript,
         AttachAudio, PutAudio, PointAtAudio, IdentifySpeakers, ConfirmSpeakers, SetSpeakers,
         RenameParties, RenameFails, Propose, Close, CorrectTermsOf, Die,
         ConfirmTermsBy, EndDeal
<1> QED
  BY <1>2, <1>3

\* ClosedSessionStands: no request in flight writes to a session once closed.
THEOREM LateRequestsMiss == Spec => ClosedSessionStands
<1>1. IInv /\ [Next]_vars =>
        ((Open /\ session.closed) =>
            /\ session'.closed
            /\ session'.transcript = session.transcript
            /\ session'.audio = session.audio)
  BY ClosedStands
<1>2. Spec => [][Next]_vars
  BY DEF Spec
<1> QED
  BY <1>1, <1>2, Inductive, PTL DEF ClosedSessionStands

\* FrozenLabelsStand: no request in flight renames the parties of frozen terms.
THEOREM FrozenNamesStand == Spec => FrozenLabelsStand
<1>1. [Next]_vars => (deal.termsHash # NoHash => labels' = labels)
  BY LabelsStand
<1>2. Spec => [][Next]_vars
  BY DEF Spec
<1> QED
  BY <1>1, <1>2, PTL DEF FrozenLabelsStand

\* ReadingAttestedOnce: however many proposals race, one reading is put before
\* the parties and what it commits to is never exchanged.
THEOREM OneReading == Spec => ReadingAttestedOnce
<1>1. IInv /\ [Next]_vars => (attested # Nothing => attested' = attested)
  BY AttestedStands
<1>2. Spec => [][Next]_vars
  BY DEF Spec
<1> QED
  BY <1>1, <1>2, Inductive, PTL DEF ReadingAttestedOnce
=============================================================================
