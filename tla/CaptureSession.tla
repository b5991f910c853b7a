---------------------------- MODULE CaptureSession ----------------------------
(***************************************************************************)
(* The capture of one conversation and how it becomes the reading both     *)
(* parties are asked to confirm: the capture half of th-app/src/service.rs *)
(* over the rows `witness_sessions` and `audio_objects`, and the labels    *)
(* (buyer_name, seller_name) on the row of `deals`.                        *)
(*                                                                         *)
(* Requests run one statement per step.  A command on the deal is one step *)
(* here: HandshakeService shows that apply() behaves like one.             *)
(***************************************************************************)
EXTENDS Deal

CONSTANTS
    Procs,         \* requests the runtime handles at a time
    Phrases,       \* what the recognizer may hear
    Recordings,    \* what may be uploaded
    NoRecording,
    Names,         \* who is on which side: a name for each party
    NoNames,       \* nobody identified yet, or not everybody
    NamesIn,       \* the names each reading carries, part of its terms
    MaxPhrases,    \* bound: no append to a transcript of this length
    MaxVersion,    \* bound: no correction or confirmation at this version
    MaxFaults      \* bound: dropped requests and failing statements

ASSUME CaptureAssumption ==
    /\ NamesIn \in [Terms -> Names]
    /\ NoRecording \notin Recordings /\ NoNames \notin Names

ASSUME CaptureBounds == {MaxPhrases, MaxVersion, MaxFaults} \subseteq Nat

VARIABLES
    deal,         \* the row of `deals`, its labels apart
    labels,       \* its buyer_name and seller_name
    session,      \* the row of `witness_sessions`
    recordings,   \* the rows of `audio_objects`
    attested,     \* what the WitnessProposed attestation commits to
    pc,           \* what each request does next
    job,          \* its locals
    faults        \* history: failures so far

rows == <<deal, labels, session, recordings, attested>>
vars == <<rows, pc, job, faults>>

Nothing    == [transcript |-> << >>, audio |-> NoRecording]
NoSession  == [open |-> FALSE]
NewSession == [open |-> TRUE, transcript |-> << >>, audio |-> NoRecording,
               closed |-> FALSE, speakers |-> NoNames]

NoJob == [transcript |-> << >>, audio |-> NoRecording, names |-> NoNames,
          closes |-> FALSE]

\* Instants are not told apart here.
Now == 0

Open == session # NoSession

GoTo(p, label, locals) ==
    /\ pc' = [pc EXCEPT ![p] = label]
    /\ job' = [job EXCEPT ![p] = locals]

Done(p) == GoTo(p, "idle", NoJob)

-----------------------------------------------------------------------------
(* start_session: the row of the deal is Init, the row of the session is   *)
(* the second insert.  Nobody holds a token before both are there.         *)

OpenSession ==
    /\ ~Open
    /\ session' = NewSession
    /\ UNCHANGED <<deal, labels, recordings, attested, pc, job, faults>>

-----------------------------------------------------------------------------
(* append_utterances: read, extend, write back.                            *)

AppendUtterance(p) ==
    /\ pc[p] = "idle" /\ Open
    /\ ~session.closed
    /\ Len(session.transcript) < MaxPhrases
    /\ \E x \in Phrases :
          GoTo(p, "write", [NoJob EXCEPT !.transcript = Append(session.transcript, x)])
    /\ UNCHANGED <<rows, faults>>

\* Mutation of WriteTranscript: the statement does not look at `closed`.
WriteTranscriptAnyway(p) ==
    /\ pc[p] = "write"
    /\ session' = [session EXCEPT !.transcript = job[p].transcript]
    /\ Done(p)
    /\ UNCHANGED <<deal, labels, recordings, attested, faults>>

\* A session closed since the read keeps its transcript, and the request is
\* answered as if it had been extended.
WriteTranscript(p) ==
    /\ pc[p] = "write"
    /\ session' = IF session.closed THEN session
                  ELSE [session EXCEPT !.transcript = job[p].transcript]
    /\ Done(p)
    /\ UNCHANGED <<deal, labels, recordings, attested, faults>>

-----------------------------------------------------------------------------
(* attach_audio: store the bytes, then point the session at them.          *)

\* Mutation of AttachAudio: the session is pointed at bytes nobody stored.
AttachUnstored(p) ==
    /\ pc[p] = "idle" /\ Open
    /\ ~session.closed
    /\ \E a \in Recordings \ recordings : GoTo(p, "attach", [NoJob EXCEPT !.audio = a])
    /\ UNCHANGED <<rows, faults>>

AttachAudio(p) ==
    /\ pc[p] = "idle" /\ Open
    /\ ~session.closed
    /\ \E a \in Recordings \ recordings : GoTo(p, "put", [NoJob EXCEPT !.audio = a])
    /\ UNCHANGED <<rows, faults>>

PutAudio(p) ==
    /\ pc[p] = "put"
    /\ recordings' = recordings \cup {job[p].audio}
    /\ GoTo(p, "attach", job[p])
    /\ UNCHANGED <<deal, labels, session, attested, faults>>

PointAtAudio(p) ==
    /\ pc[p] = "attach"
    /\ session' = IF session.closed THEN session
                  ELSE [session EXCEPT !.audio = job[p].audio]
    /\ Done(p)
    /\ UNCHANGED <<deal, labels, recordings, attested, faults>>

-----------------------------------------------------------------------------
(* identify_speakers and confirm_speakers.                                 *)

\* The witness reads the transcript; what it understood is kept even when that
\* is not everybody.
IdentifySpeakers(p) ==
    /\ pc[p] = "idle" /\ Open
    /\ session.transcript # << >>
    /\ \E n \in Names \cup {NoNames} : GoTo(p, "identify", [NoJob EXCEPT !.names = n])
    /\ UNCHANGED <<rows, faults>>

\* Only a complete identification is accepted.
ConfirmSpeakers(p) ==
    /\ pc[p] = "idle" /\ Open
    /\ \E n \in Names : GoTo(p, "speakers", [NoJob EXCEPT !.names = n])
    /\ UNCHANGED <<rows, faults>>

SetSpeakers(p) ==
    /\ pc[p] \in {"identify", "speakers"}
    /\ session' = [session EXCEPT !.speakers = job[p].names]
    /\ IF pc[p] = "identify" THEN Done(p) ELSE GoTo(p, "rename", job[p])
    /\ UNCHANGED <<deal, labels, recordings, attested, faults>>

AfterRename(p) == IF job[p].closes THEN GoTo(p, "close", NoJob) ELSE Done(p)

\* Mutation of RenameParties: labels follow whoever writes last.
RenamePartiesAnyway(p) ==
    /\ pc[p] = "rename"
    /\ labels' = job[p].names
    /\ AfterRename(p)
    /\ UNCHANGED <<deal, session, recordings, attested, faults>>

\* One statement, guarded by "terms_hash is null".
RenameParties(p) ==
    /\ pc[p] = "rename"
    /\ labels' = IF deal.termsHash = NoHash THEN job[p].names ELSE labels
    /\ AfterRename(p)
    /\ UNCHANGED <<deal, session, recordings, attested, faults>>

\* sync_party_names only logs the error: a proposal goes on to close.
RenameFails(p) ==
    /\ pc[p] = "rename" /\ faults < MaxFaults
    /\ faults' = faults + 1
    /\ AfterRename(p)
    /\ UNCHANGED rows

-----------------------------------------------------------------------------
(* propose_from_session.                                                   *)

\* The recording is found through the reference on the session.
LoadedAudio == IF session.audio \in recordings THEN session.audio ELSE NoRecording

Propose(p) ==
    /\ pc[p] = "idle" /\ Open
    /\ session.transcript # << >>
    /\ GoTo(p, "extract", [NoJob EXCEPT !.transcript = session.transcript,
                                        !.audio = LoadedAudio])
    /\ UNCHANGED <<rows, faults>>

\* Mutation of Extract: the session is closed whatever the deal answers.
ExtractThenClose(p) ==
    /\ pc[p] = "extract"
    /\ GoTo(p, "close", NoJob)
    /\ \/ \E t \in Terms :
             \E r \in Transition(deal, [name |-> "ProposeExtraction", terms |-> t],
                                 "system", Now) :
                /\ deal' = r.deal
                /\ attested' = [transcript |-> job[p].transcript, audio |-> job[p].audio]
       \/ UNCHANGED <<deal, attested>>
    /\ UNCHANGED <<labels, session, recordings, faults>>

\* The witness answers with any reading, and the deal takes it or refuses it.
Extract(p) ==
    /\ pc[p] = "extract"
    /\ \/ \E t \in Terms :
             \E r \in Transition(deal, [name |-> "ProposeExtraction", terms |-> t],
                                 "system", Now) :
                /\ deal' = r.deal
                /\ attested' = [transcript |-> job[p].transcript, audio |-> job[p].audio]
                /\ GoTo(p, "rename", [NoJob EXCEPT !.names = NamesIn[t], !.closes = TRUE])
       \/ /\ Done(p)
          /\ UNCHANGED <<deal, attested>>
    /\ UNCHANGED <<labels, session, recordings, faults>>

Close(p) ==
    /\ pc[p] = "close"
    /\ session' = [session EXCEPT !.closed = TRUE]
    /\ Done(p)
    /\ UNCHANGED <<deal, labels, recordings, attested, faults>>

-----------------------------------------------------------------------------
(* The parties.                                                            *)

\* correct_terms: the labels follow in a statement behind the commit.
CorrectTermsOf(p) ==
    /\ pc[p] = "idle" /\ Open
    /\ deal.version < MaxVersion
    /\ \E party \in Parties : \E t \in Terms :
          \E r \in Transition(deal, [name |-> "CorrectTerms", terms |-> t], party, Now) :
             /\ deal' = r.deal
             /\ GoTo(p, "rename", [NoJob EXCEPT !.names = NamesIn[t]])
    /\ UNCHANGED <<labels, session, recordings, attested, faults>>

\* confirm_terms: nothing follows the commit.
ConfirmTermsBy(party) ==
    /\ Open /\ deal.version < MaxVersion
    /\ \E r \in Transition(deal, [name |-> "ConfirmTerms",
                                  revision |-> deal.termsRevision], party, Now) :
          deal' = r.deal
    /\ UNCHANGED <<labels, session, recordings, attested, pc, job, faults>>

\* A party walks away, or the agreement window runs out.
EndDeal ==
    /\ Open /\ deal.version < MaxVersion
    /\ \/ \E r \in Transition(deal, Command("Cancel"), "buyer", Now) : deal' = r.deal
       \/ /\ deal.state = "PendingAgreement"
          /\ \E r \in Transition(deal, Command("Expire"), "system", Now) : deal' = r.deal
    /\ UNCHANGED <<labels, session, recordings, attested, pc, job, faults>>

-----------------------------------------------------------------------------
\* A request is dropped, its process dies or a statement of it fails.
Die(p) ==
    /\ faults < MaxFaults
    /\ pc[p] # "idle"
    /\ faults' = faults + 1
    /\ Done(p)
    /\ UNCHANGED rows

Init ==
    /\ deal = NewDeal
    /\ labels \in Names
    /\ session = NoSession
    /\ recordings = {}
    /\ attested = Nothing
    /\ pc = [p \in Procs |-> "idle"]
    /\ job = [p \in Procs |-> NoJob]
    /\ faults = 0

CaptureStep(p) ==
    \/ AppendUtterance(p) \/ WriteTranscript(p)
    \/ AttachAudio(p) \/ PutAudio(p) \/ PointAtAudio(p)
    \/ IdentifySpeakers(p) \/ ConfirmSpeakers(p) \/ SetSpeakers(p)
    \/ RenameParties(p) \/ RenameFails(p)
    \/ Propose(p) \/ Extract(p) \/ Close(p)

Next ==
    \/ OpenSession
    \/ \E p \in Procs : CaptureStep(p) \/ CorrectTermsOf(p) \/ Die(p)
    \/ \E party \in Parties : ConfirmTermsBy(party)
    \/ EndDeal

Spec == Init /\ [][Next]_vars

-----------------------------------------------------------------------------
(* Correctness.                                                            *)

SessionType ==
    [ open       : {TRUE},
      transcript : Seq(Phrases),
      audio      : Recordings \cup {NoRecording},
      closed     : BOOLEAN,
      speakers   : Names \cup {NoNames} ]

JobType ==
    [ transcript : Seq(Phrases),
      audio      : Recordings \cup {NoRecording},
      names      : Names \cup {NoNames},
      closes     : BOOLEAN ]

PcLabels == {"idle", "write", "put", "attach", "identify", "speakers", "rename",
             "extract", "close"}

\* Types of the rows and locals; in particular the labels of a deal always
\* name both parties: an incomplete identification never reaches them.
TypeOK ==
    /\ deal \in DealType /\ labels \in Names
    /\ session \in SessionType \cup {NoSession}
    /\ recordings \subseteq Recordings
    /\ attested.transcript \in Seq(Phrases)
    /\ attested.audio \in Recordings \cup {NoRecording}
    /\ pc \in [Procs -> PcLabels] /\ job \in [Procs -> JobType]
    /\ faults \in Nat

\* service.rs, append_utterances and attach_audio: a closed session takes no
\* more speech and no other recording, however late a request that read it
\* while it was open writes.
ClosedSessionStands ==
    [][(Open /\ session.closed) =>
         /\ session'.closed
         /\ session'.transcript = session.transcript
         /\ session'.audio = session.audio]_vars

\* pg.rs, rename_parties: "once terms are frozen the names are part of what was
\* hashed".  No request in flight moves the labels of a frozen deal.
FrozenLabelsStand == [][deal.termsHash # NoHash => labels' = labels]_vars

\* service.rs: racing or repeated proposals of a session put one reading before
\* the parties, and what its attestation commits to is never exchanged.
ReadingAttestedOnce ==
    [][attested # Nothing => attested' = attested]_vars

\* service.rs, propose_from_session: a session is closed only behind a proposal
\* the deal accepted, one that commits to something that was said.
ClosedIsProposed ==
    (Open /\ session.closed) => deal.version > 0 /\ attested.transcript # << >>

\* migrations/0002: the chain commits to the sound.  A recording the receipt or
\* the session refers to has been stored.
RecordingsAreStored ==
    \A a \in {attested.audio} \cup (IF Open THEN {session.audio} ELSE {}) :
        a # NoRecording => a \in recordings
=============================================================================
