----------------------------- MODULE CapturePage -----------------------------
(***************************************************************************)
(* The page two people talk to: web/src/routes/Witness.tsx with its hooks  *)
(* lib/recorder.ts and lib/speech.ts, and the rows the service keeps of    *)
(* the session.  The recorder tapes what is said, the recognizer writes it *)
(* down with a delay, and a press of "Have the witness read it" runs four  *)
(* awaits: stop the recorder, upload, append the lines, propose.  Between  *)
(* any two of them more may be said, a request may be lost on its way out  *)
(* or back, and the page may be reloaded.                                  *)
(*                                                                         *)
(* A phrase is the number it was said as, negative if it was typed.  Words *)
(* changed by hand in its line leave it that phrase, so editing a line is  *)
(* no step here.                                                           *)
(***************************************************************************)
EXTENDS Integers, Sequences, SequencesExt, FiniteSets

CONSTANTS
    MaxSaid,       \* bound: phrases said or typed
    MaxMishaps     \* bound: reloads, failed requests, answers lost

ASSUME CaptureBounds == MaxSaid \in Nat /\ MaxMishaps \in Nat

VARIABLES
    said,      \* how many phrases have been said or typed
    lines,     \* the lines on the screen
    draft,     \* the lines in localStorage
    kept,      \* history: phrases that got to the screen, less those deleted
    started,   \* whether this page has started listening
    speech,    \* the recognizer: "off", "on", or "stopping" with phrases to come
    pending,   \* phrases it heard and has not finalised
    recorder,  \* whether the recorder runs
    tape,      \* what it has recorded, in memory only
    step,      \* where readConversation() is; "left" when the page is gone
    toUpload,  \* the recording in its hands
    toSend,    \* the lines as they were when the button was pressed
    session,   \* rows of the session: recording, transcript, whether closed
    late,      \* a request whose page is gone, and which may yet be served
    mishaps    \* history: how many so far

page    == <<lines, draft, kept>>
hooks   == <<started, speech, pending, recorder, tape>>
request == <<step, toUpload, toSend>>
trouble == <<late, mishaps>>
captureVars == <<said, page, hooks, request, session, trouble>>

NoTape == {0}

NoRequest == [audio |-> NoTape, sent |-> << >>, closes |-> FALSE]

NewSession == [audio |-> NoTape, transcript |-> << >>, closed |-> FALSE]

CaptureInit ==
    /\ said = 0
    /\ lines = << >> /\ draft = << >> /\ kept = {}
    /\ started = FALSE
    /\ speech = "off" /\ pending = << >>
    /\ recorder = FALSE /\ tape = {}
    /\ step = "idle" /\ toUpload = NoTape /\ toSend = << >>
    /\ session = NewSession
    /\ late = NoRequest /\ mishaps = 0

\* Every change of the lines is written through to localStorage.
Show(newLines) == lines' = newLines /\ draft' = newLines

-----------------------------------------------------------------------------
(* Talking.                                                                *)

\* "Start listening": recorder, then recognizer.  The recorder may be denied.
StartListening ==
    /\ step = "idle" /\ ~started
    /\ started' = TRUE
    /\ recorder' \in BOOLEAN
    /\ tape' = {}
    /\ speech' = "on"
    /\ UNCHANGED <<said, page, pending, request, session, trouble>>

\* Mutation of ListenAgain: the recorder is started again too.
ListenAfresh ==
    /\ step # "left" /\ started /\ speech # "on"
    /\ speech' = "on" /\ tape' = {}
    /\ UNCHANGED <<said, page, started, pending, recorder, request, session, trouble>>

\* "Start listening again" restarts the recognizer alone.
ListenAgain ==
    /\ step # "left" /\ started /\ speech # "on"
    /\ speech' = "on"
    /\ UNCHANGED <<said, page, started, pending, recorder, tape, request, session, trouble>>

StopListening ==
    /\ step # "left" /\ speech = "on"
    /\ speech' = "stopping"
    /\ UNCHANGED <<said, page, started, pending, recorder, tape, request, session, trouble>>

\* Somebody speaks; the recognizer may miss it, between two of its runs say.
Speak ==
    /\ step # "left" /\ said < MaxSaid
    /\ said' = said + 1
    /\ tape' = IF recorder THEN tape \cup {said'} ELSE tape
    /\ \/ speech = "on" /\ pending' = Append(pending, said')
       \/ recorder /\ UNCHANGED pending
    /\ UNCHANGED <<page, started, speech, recorder, request, session, trouble>>

\* A final result: a line is added, whatever the rest of the page is doing.
Recognize ==
    /\ pending # << >>
    /\ Show(Append(lines, Head(pending)))
    /\ kept' = kept \cup {Head(pending)}
    /\ pending' = Tail(pending)
    /\ UNCHANGED <<said, started, speech, recorder, tape, request, session, trouble>>

\* onend after a stop; while it is wanted the recognizer is started again.
RecognizerEnds ==
    /\ speech = "stopping" /\ pending = << >>
    /\ speech' = "off"
    /\ UNCHANGED <<said, page, started, pending, recorder, tape, request, session, trouble>>

TypeLine ==
    /\ step # "left" /\ started /\ said < MaxSaid
    /\ said' = said + 1
    /\ Show(Append(lines, -said'))
    /\ kept' = kept \cup {-said'}
    /\ UNCHANGED <<hooks, request, session, trouble>>

DeleteLine ==
    /\ step # "left" /\ started
    /\ \E i \in DOMAIN lines :
          /\ Show(RemoveAt(lines, i))
          /\ kept' = kept \ {lines[i]}
    /\ UNCHANGED <<said, hooks, request, session, trouble>>

-----------------------------------------------------------------------------
(* readConversation().                                                     *)

\* The lines are those of this rendering of the page; the recognizer is told to
\* stop, and the recorder stops and hands its tape over, once.
Press ==
    /\ speech' = IF speech = "on" THEN "stopping" ELSE speech
    /\ recorder' = FALSE /\ tape' = {}
    /\ toUpload' = IF recorder THEN tape ELSE NoTape
    /\ toSend' = lines
    /\ step' = IF recorder THEN "upload" ELSE "append"
    /\ UNCHANGED <<said, page, started, pending, session, trouble>>

\* Mutation of PressRead: the button stays while the witness reads.
PressAgain == step # "left" /\ started /\ Len(lines) >= 2 /\ Press

\* The button, which gives way to a spinner during a reading.
PressRead == step = "idle" /\ started /\ Len(lines) >= 2 /\ Press

\* What a request does to the rows.
Uploaded == [session EXCEPT !.audio = toUpload]
Appended == [session EXCEPT !.transcript = @ \o toSend]
Closed   == [session EXCEPT !.closed = TRUE]

\* The request of this step, answered with success.
Answered(label, rows, next) ==
    /\ step = label /\ ~session.closed
    /\ session' = rows
    /\ step' = next
    /\ UNCHANGED <<said, page, hooks, toUpload, toSend, trouble>>

Upload == Answered("upload", Uploaded, "append")

\* Mutation of AppendLines: the draft is removed as soon as they are sent.
AppendAndForget ==
    /\ step = "append" /\ ~session.closed
    /\ session' = Appended /\ step' = "propose" /\ draft' = << >>
    /\ UNCHANGED <<said, lines, kept, hooks, toUpload, toSend, trouble>>

AppendLines == Answered("append", Appended, "propose")

\* The catch, after a refusal or a failure on the way out (nothing happened), or
\* on the way back (the service did it): the recording in hand is dropped.
Fail(rows) ==
    /\ mishaps < MaxMishaps /\ ~session.closed
    /\ session' \in {session, rows}
    /\ mishaps' = mishaps + 1
    /\ step' = "idle" /\ toUpload' = NoTape /\ toSend' = << >>
    /\ UNCHANGED <<said, page, hooks, late>>

\* A closed session refuses all three requests, for ever.
Refused ==
    /\ step \in {"upload", "append", "propose"} /\ session.closed
    /\ step' = "idle" /\ toUpload' = NoTape /\ toSend' = << >>
    /\ UNCHANGED <<said, page, hooks, session, trouble>>

UploadFails  == step = "upload" /\ Fail(Uploaded)
AppendFails  == step = "append" /\ Fail(Appended)
ProposeFails == step = "propose" /\ Fail(Closed)

\* Proposed: the draft is removed and the page gives way to the deal's.  What
\* it held in memory is gone; the closed session is of no use to it any more.
Propose ==
    /\ step = "propose" /\ ~session.closed
    /\ step' = "left"
    /\ session' = [NewSession EXCEPT !.closed = TRUE]
    /\ said' = 0 /\ lines' = << >> /\ draft' = << >> /\ kept' = {}
    /\ started' = FALSE
    /\ speech' = "off" /\ pending' = << >>
    /\ recorder' = FALSE /\ tape' = {}
    /\ toUpload' = NoTape /\ toSend' = << >>
    /\ late' = NoRequest /\ mishaps' = 0

\* The page is loaded anew, by the user or after a crash: the lines come back
\* from the draft, everything else is lost; the request under way may still be
\* served, at once or later (one such request at a time).
Reload ==
    /\ step # "left" /\ mishaps < MaxMishaps
    /\ lines' = draft
    /\ started' = FALSE
    /\ speech' = "off" /\ pending' = << >>
    /\ recorder' = FALSE /\ tape' = {}
    /\ late' \in {late, [audio  |-> IF step = "upload" THEN toUpload ELSE NoTape,
                        sent   |-> IF step = "append" THEN toSend ELSE << >>,
                        closes |-> step = "propose"]}
    /\ step' = "idle" /\ toUpload' = NoTape /\ toSend' = << >>
    /\ mishaps' = mishaps + 1
    /\ UNCHANGED <<said, draft, kept, session>>

\* The service gets to it, whatever the new page is doing.
LateRequest ==
    /\ late # NoRequest /\ ~session.closed
    /\ session' = [audio      |-> IF late.audio = NoTape THEN session.audio ELSE late.audio,
                   transcript |-> session.transcript \o late.sent,
                   closed     |-> late.closes]
    /\ late' = NoRequest
    /\ UNCHANGED <<said, page, hooks, request, mishaps>>

CaptureNext ==
    \/ StartListening \/ ListenAgain \/ StopListening
    \/ Speak \/ Recognize \/ RecognizerEnds
    \/ TypeLine \/ DeleteLine
    \/ PressRead \/ Upload \/ AppendLines \/ Propose
    \/ UploadFails \/ AppendFails \/ ProposeFails \/ Refused
    \/ Reload \/ LateRequest

-----------------------------------------------------------------------------
(* Correctness.                                                            *)

\* What got written down stays on the screen until somebody deletes it or the
\* deal is proposed: through pauses, failed readings and reloads of the page.
HeardIsKept == step # "left" => kept \subseteq ToSet(lines)

\* How often a phrase is in the transcript of the session.
Copies(x) == Cardinality({i \in DOMAIN session.transcript : session.transcript[i] = x})

\* A reading nothing went wrong with is of the lines on the screen at the press, no
\* more and no less; and since every retry sends the whole draft again, a phrase may be
\* read several times over, but no more often than once for each mishap and once more.
ReadOncePerAttempt ==
    /\ (step = "propose" /\ mishaps = 0) => session.transcript = toSend
    /\ ~session.closed =>
          \A x \in ToSet(session.transcript) : Copies(x) <= mishaps + 1

\* "The transcript came from this conversation": unless something went wrong on
\* the way, whatever spoken line is proposed is on the recording, if there is
\* one, whenever the recognizer was paused and resumed.
TapeHasTheTalk ==
    (step = "propose" /\ mishaps = 0 /\ session.audio # NoTape) =>
        \A i \in DOMAIN toSend : toSend[i] > 0 => toSend[i] \in session.audio
=============================================================================
