--------------------------- MODULE WebClientProofs ---------------------------
(***************************************************************************)
(* What holds of WebClient for any number of phrases, mishaps, phones,     *)
(* loads under way, prices and readings.                                   *)
(***************************************************************************)
EXTENDS WebClient, DealLemmas, FiniteSetTheorems

-----------------------------------------------------------------------------
(* What the capture page keeps.                                            *)

SessionRow == [audio : SUBSET Int, transcript : Seq(Int), closed : BOOLEAN]
LateOnes   == [audio : SUBSET Int, sent : Seq(Int), closes : BOOLEAN]

CaptureType ==
    /\ said \in Nat /\ mishaps \in Nat
    /\ lines \in Seq(Int) /\ pending \in Seq(Int) /\ toSend \in Seq(Int)
    /\ toUpload \in SUBSET Int /\ tape \in SUBSET Int
    /\ started \in BOOLEAN /\ recorder \in BOOLEAN
    /\ session \in SessionRow
    /\ late \in LateOnes

\* The draft is the screen, and a page that has not started has nothing running.
PageInStep ==
    /\ draft = lines
    /\ kept \subseteq ToSet(lines)
    /\ ~started => speech = "off" /\ ~recorder /\ pending = << >>
    /\ step = "left" => session.closed

\* What has been spoken, typed lines apart.
Talk(s) == {x \in ToSet(s) : x > 0}

\* While nothing has gone wrong, whatever is written down while the recorder
\* runs, or is still to come from the recognizer, is on the tape.
Undisturbed ==
    mishaps = 0 /\ step # "left" =>
        /\ ~session.closed /\ late = NoRequest
        /\ session.transcript = IF step = "propose" THEN toSend ELSE << >>
        /\ step = "idle" => session.audio = NoTape
        /\ ~started => lines = << >>
        /\ recorder => step = "idle" /\ Talk(lines) \cup Talk(pending) \subseteq tape
        /\ step = "upload" => Talk(toSend) \subseteq toUpload
        /\ step \in {"append", "propose"} /\ session.audio # NoTape =>
              Talk(toSend) \subseteq session.audio

Distinct(s) == \A i, j \in DOMAIN s : s[i] = s[j] => i = j

\* No phrase is on the screen twice, or still to come when it is there.
Numbered ==
    /\ Distinct(lines) /\ Distinct(pending) /\ Distinct(toSend) /\ Distinct(late.sent)
    /\ ToSet(lines) \cap ToSet(pending) = {}
    /\ \A x \in ToSet(lines) \cup ToSet(pending) : -said <= x /\ x <= said

CopySet(x, s) == {i \in DOMAIN s : s[i] = x}

One(b) == IF b THEN 1 ELSE 0

\* A late request may add a copy, and a reading that got to the proposal has.
Counted ==
    ~session.closed =>
        \A x \in Int :
           Cardinality(CopySet(x, session.transcript)) + One(late.sent # << >>)
              <= mishaps + One(step = "propose")

CaptureInv == CaptureType /\ PageInStep /\ Numbered /\ Counted /\ Undisturbed

LEMMA LineAdded ==
    ASSUME NEW s \in Seq(Int), NEW x \in Int
    PROVE  /\ Append(s, x) \in Seq(Int) /\ ToSet(Append(s, x)) = ToSet(s) \cup {x}
           /\ Distinct(s) /\ x \notin ToSet(s) => Distinct(Append(s, x))
<1>1. /\ Append(s, x) \in Seq(Int) /\ Len(Append(s, x)) = Len(s) + 1 /\ Len(s) \in Nat
      /\ \A i \in 1 .. Len(s) : Append(s, x)[i] = s[i]
      /\ Append(s, x)[Len(s) + 1] = x
  BY AppendProperties
<1>2. DOMAIN s = 1 .. Len(s) /\ DOMAIN Append(s, x) = 1 .. (Len(s) + 1)
  BY <1>1
<1>3. ToSet(Append(s, x)) \subseteq ToSet(s) \cup {x}
  BY <1>1, <1>2 DEF ToSet
<1>4. ToSet(s) \subseteq ToSet(Append(s, x))
  BY <1>1, <1>2 DEF ToSet
<1>5. x \in ToSet(Append(s, x))
  BY <1>1, <1>2 DEF ToSet
<1>6. ASSUME Distinct(s), x \notin ToSet(s) PROVE Distinct(Append(s, x))
  <2>1. PICK r : r = Append(s, x)
    OBVIOUS
  <2>2. PICK n \in Nat : n = Len(s)
    BY <1>1
  <2>3. DOMAIN r = 1 .. (n + 1) /\ r[n + 1] = x /\ \A i \in 1 .. n : r[i] = s[i] /\ r[i] # x
    BY <1>1, <1>2, <1>6, <2>1, <2>2 DEF ToSet
  <2>4. ASSUME NEW i \in 1 .. (n + 1), NEW j \in 1 .. (n + 1), r[i] = r[j] PROVE i = j
    <3>1. CASE i \in 1 .. n /\ j \in 1 .. n
      BY <1>2, <1>6, <2>2, <2>3, <2>4, <3>1 DEF Distinct
    <3>2. CASE i = n + 1 \/ j = n + 1
      <4>1. \A k \in 1 .. (n + 1) : k \in 1 .. n \/ k = n + 1
        OBVIOUS
      <4> QED
        BY <2>3, <2>4, <3>2, <4>1
    <3> QED
      BY <3>1, <3>2
  <2> QED
    BY <2>1, <2>3, <2>4 DEF Distinct
<1> QED
  BY <1>1, <1>3, <1>4, <1>5, <1>6

LEMMA LineTaken ==
    ASSUME NEW s \in Seq(Int), s # << >>
    PROVE  /\ Head(s) \in Int /\ Head(s) \in ToSet(s)
           /\ Tail(s) \in Seq(Int) /\ ToSet(Tail(s)) \subseteq ToSet(s)
           /\ Distinct(s) => Distinct(Tail(s)) /\ Head(s) \notin ToSet(Tail(s))
<1>1. Len(s) \in Nat /\ Len(s) # 0 /\ DOMAIN s = 1 .. Len(s)
  BY EmptySeq
<1>2. Head(s) = s[1] /\ s[1] \in Int
  BY <1>1
<1>3. Tail(s) \in Seq(Int) /\ Len(Tail(s)) = Len(s) - 1
      /\ \A i \in 1 .. (Len(s) - 1) : Tail(s)[i] = s[i + 1]
  BY <1>1
<1>4. DOMAIN Tail(s) = 1 .. (Len(s) - 1)
  BY <1>1, <1>3
<1>5. ASSUME Distinct(s) PROVE Distinct(Tail(s)) /\ Head(s) \notin ToSet(Tail(s))
  <2>1. PICK r : r = Tail(s)
    OBVIOUS
  <2>2. PICK n \in Nat : n = Len(s)
    BY <1>1
  <2>3. /\ DOMAIN r = 1 .. (n - 1) /\ DOMAIN s = 1 .. n
        /\ \A i \in 1 .. (n - 1) : r[i] = s[i + 1]
    BY <1>1, <1>3, <1>4, <2>1, <2>2
  <2>4. \A i, j \in 1 .. n : s[i] = s[j] => i = j
    BY <1>5, <2>3 DEF Distinct
  <2>5. ASSUME NEW i \in 1 .. (n - 1), NEW j \in 1 .. (n - 1), r[i] = r[j] PROVE i = j
    <3>1. i + 1 \in 1 .. n /\ j + 1 \in 1 .. n /\ (i + 1 = j + 1 => i = j)
      OBVIOUS
    <3> QED
      BY <2>3, <2>4, <2>5, <3>1
  <2>6. ASSUME NEW i \in 1 .. (n - 1) PROVE r[i] # s[1]
    <3>1. i + 1 \in 1 .. n /\ 1 \in 1 .. n /\ i + 1 # 1
      OBVIOUS
    <3> QED
      BY <2>3, <2>4, <3>1
  <2>7. Distinct(r)
    BY <2>3, <2>5 DEF Distinct
  <2>8. Head(s) \notin ToSet(r)
    BY <1>2, <2>3, <2>6 DEF ToSet
  <2> QED
    BY <2>1, <2>7, <2>8
<1> QED
  BY <1>1, <1>2, <1>3, <1>4, <1>5 DEF ToSet

LEMMA LineRemoved ==
    ASSUME NEW s \in Seq(Int), NEW i \in DOMAIN s
    PROVE  /\ RemoveAt(s, i) \in Seq(Int)
           /\ ToSet(RemoveAt(s, i)) \subseteq ToSet(s)
           /\ ToSet(s) \ {s[i]} \subseteq ToSet(RemoveAt(s, i))
           /\ Distinct(s) => Distinct(RemoveAt(s, i))
<1>1. PICK n \in Nat : n = Len(s)
  OBVIOUS
<1>2. DOMAIN s = 1 .. n /\ i \in 1 .. n /\ \A j \in 1 .. n : s[j] \in Int
  BY <1>1
<1>3. PICK a : a = SubSeq(s, 1, i - 1)
  OBVIOUS
<1>4. PICK b : b = SubSeq(s, i + 1, n)
  OBVIOUS
<1>5. a \in Seq(Int) /\ Len(a) = i - 1 /\ \A j \in 1 .. (i - 1) : a[j] = s[j]
  BY <1>1, <1>2, <1>3
<1>6. b \in Seq(Int) /\ Len(b) = n - i /\ \A j \in 1 .. (n - i) : b[j] = s[i + j]
  <2>1. \A j \in (i + 1) .. n : s[j] \in Int
    BY <1>2
  <2>2. /\ b \in Seq(Int)
        /\ Len(b) = IF i + 1 <= n THEN n - (i + 1) + 1 ELSE 0
        /\ \A j \in 1 .. (n - (i + 1) + 1) : b[j] = s[(i + 1) + j - 1]
    <3>1. i + 1 \in Int /\ n \in Int
      BY <1>2
    <3> QED
      BY <1>4, <2>1, <3>1, SubSeqProperties
  <2>3. n - (i + 1) + 1 = n - i /\ (i + 1 <= n \/ n - i = 0)
    BY <1>2
  <2>4. ASSUME NEW j \in 1 .. (n - i) PROVE b[j] = s[i + j]
    <3>1. (i + 1) + j - 1 = i + j
      BY <1>2
    <3> QED
      BY <2>2, <2>3, <3>1
  <2> QED
    BY <1>2, <2>2, <2>3, <2>4
<1>7. PICK r : r = a \o b
  OBVIOUS
<1>8. /\ r \in Seq(Int) /\ Len(r) = Len(a) + Len(b)
      /\ \A j \in 1 .. Len(a) + Len(b) : r[j] = IF j <= Len(a) THEN a[j] ELSE b[j - Len(a)]
  BY <1>5, <1>6, <1>7, ConcatProperties
<1>9. Len(r) = n - 1 /\ DOMAIN r = 1 .. (n - 1)
  BY <1>2, <1>5, <1>6, <1>8
<1>10. ASSUME NEW j \in 1 .. (i - 1) PROVE r[j] = s[j] /\ j \in 1 .. (n - 1)
  <2>1. j \in 1 .. (n - 1) /\ j <= i - 1
    BY <1>2
  <2>2. Len(a) = i - 1 /\ Len(a) + Len(b) = n - 1
    BY <1>2, <1>5, <1>6
  <2>3. r[j] = a[j]
    BY <1>8, <2>1, <2>2
  <2>4. a[j] = s[j]
    BY <1>5
  <2> QED
    BY <2>1, <2>3, <2>4
<1>11. ASSUME NEW j \in i .. (n - 1) PROVE r[j] = s[j + 1]
  <2>1. j - (i - 1) \in 1 .. (n - i) /\ i + (j - (i - 1)) = j + 1 /\ ~(j <= i - 1)
    BY <1>2
  <2>2. r[j] = b[j - (i - 1)]
    <3>1. Len(a) = i - 1 /\ Len(a) + Len(b) = n - 1 /\ j \in 1 .. (n - 1)
      BY <1>2, <1>5, <1>6
    <3> QED
      BY <1>8, <2>1, <3>1
  <2> QED
    BY <1>6, <2>1, <2>2
<1>12. ASSUME NEW j \in 1 .. (n - 1) PROVE \E k \in 1 .. n : r[j] = s[k]
  <2>1. CASE j <= i - 1
    BY <1>2, <1>10, <2>1
  <2>2. CASE ~(j <= i - 1)
    <3>1. j \in i .. (n - 1) /\ j + 1 \in 1 .. n
      BY <1>2, <2>2
    <3> QED
      BY <1>11, <3>1
  <2> QED
    BY <2>1, <2>2
<1>13. ASSUME NEW k \in 1 .. n, k # i PROVE \E j \in 1 .. (n - 1) : r[j] = s[k]
  <2>1. CASE k < i
    <3>1. k \in 1 .. (i - 1)
      BY <1>2, <2>1
    <3> QED
      BY <1>10, <3>1
  <2>2. CASE k > i
    <3>1. k - 1 \in i .. (n - 1) /\ (k - 1) + 1 = k /\ k - 1 \in 1 .. (n - 1)
      BY <1>2, <2>2
    <3> QED
      BY <1>11, <3>1
  <2> QED
    BY <1>2, <1>13, <2>1, <2>2
<1>14. ToSet(r) \subseteq ToSet(s)
  BY <1>2, <1>9, <1>12 DEF ToSet
<1>15. ToSet(s) \ {s[i]} \subseteq ToSet(r)
  BY <1>2, <1>9, <1>13 DEF ToSet
<1>16. RemoveAt(s, i) = r
  BY <1>1, <1>3, <1>4, <1>7 DEF RemoveAt
<1>17. ASSUME Distinct(s) PROVE Distinct(r)
  <2>1. \A j, k \in 1 .. n : s[j] = s[k] => j = k
    BY <1>2, <1>17 DEF Distinct
  <2>2. \A j \in 1 .. (n - 1) :
           \/ j < i /\ r[j] = s[j] /\ j \in 1 .. n
           \/ j >= i /\ r[j] = s[j + 1] /\ j + 1 \in 1 .. n
    <3> TAKE j \in 1 .. (n - 1)
    <3>1. CASE j < i
      <4>1. j \in 1 .. (i - 1) /\ j \in 1 .. n
        BY <1>2, <3>1
      <4> QED
        BY <1>10, <3>1, <4>1
    <3>2. CASE j >= i
      <4>1. j \in i .. (n - 1) /\ j + 1 \in 1 .. n
        BY <1>2, <3>2
      <4> QED
        BY <1>11, <3>2, <4>1
    <3> QED
      BY <1>2, <3>1, <3>2
  <2>3. ASSUME NEW j \in 1 .. (n - 1), NEW k \in 1 .. (n - 1), r[j] = r[k] PROVE j = k
    BY <1>2, <2>1, <2>2, <2>3
  <2> QED
    BY <1>9, <2>3 DEF Distinct
<1> QED
  BY <1>8, <1>14, <1>15, <1>16, <1>17

\* Lines that are sent once more add one copy of a phrase, if any.
LEMMA LinesAppended ==
    ASSUME NEW s \in Seq(Int), NEW t \in Seq(Int)
    PROVE  /\ t \o s \in Seq(Int)
           /\ \A x \in Int :
                 /\ Cardinality(CopySet(x, t)) \in Nat
                 /\ Distinct(s) => /\ Cardinality(CopySet(x, t \o s)) \in Nat
                                   /\ Cardinality(CopySet(x, t \o s))
                                         <= Cardinality(CopySet(x, t)) + One(s # << >>)
<1>1. PICK w : w = t \o s
  OBVIOUS
<1>2. PICK m \in Nat, n \in Nat : m = Len(t) /\ n = Len(s)
  BY LenProperties
<1>3. /\ w \in Seq(Int) /\ DOMAIN w = 1 .. (m + n) /\ DOMAIN t = 1 .. m /\ DOMAIN s = 1 .. n
      /\ \A j \in 1 .. m : w[j] = t[j]
      /\ \A j \in 1 .. n : w[m + j] = s[j]
  BY <1>1, <1>2, ConcatProperties, LenProperties
<1>4. ASSUME NEW x \in Int
      PROVE  IsFiniteSet(CopySet(x, t)) /\ Cardinality(CopySet(x, t)) \in Nat
  <2>1. IsFiniteSet(1 .. m)
    BY FS_Interval
  <2>2. CopySet(x, t) \subseteq 1 .. m
    BY <1>3 DEF CopySet
  <2> QED
    BY <2>1, <2>2, FS_Subset, FS_CardinalityType
<1>5. ASSUME NEW x \in Int, Distinct(s)
      PROVE  /\ Cardinality(CopySet(x, w)) \in Nat
             /\ Cardinality(CopySet(x, w)) <= Cardinality(CopySet(x, t)) + One(s # << >>)
  <2>1. PICK A : A = CopySet(x, t)
    OBVIOUS
  <2>2. IsFiniteSet(A) /\ Cardinality(A) \in Nat
    BY <1>4, <2>1
  <2>3. CASE \A j \in 1 .. n : s[j] # x
    <3>1. ASSUME NEW j \in 1 .. (m + n), w[j] = x PROVE j \in 1 .. m
      <4>1. CASE j \in 1 .. m
        BY <4>1
      <4>2. CASE j \notin 1 .. m
        <5>1. j - m \in 1 .. n /\ m + (j - m) = j
          BY <4>2
        <5> QED
          BY <1>3, <2>3, <3>1, <5>1
      <4> QED
        BY <4>1, <4>2
    <3>2. 1 .. m \subseteq 1 .. (m + n)
      OBVIOUS
    <3>3. CopySet(x, w) = A
      BY <1>3, <2>1, <3>1, <3>2 DEF CopySet
    <3>4. One(s # << >>) \in {0, 1}
      BY DEF One
    <3> QED
      BY <2>1, <2>2, <3>3, <3>4
  <2>4. CASE \E j \in 1 .. n : s[j] = x
    <3>1. PICK k \in 1 .. n : s[k] = x
      BY <2>4
    <3>2. \A j \in 1 .. n : s[j] = x => j = k
      BY <1>3, <1>5, <3>1 DEF Distinct
    <3>3. ASSUME NEW j \in 1 .. (m + n), w[j] = x PROVE j \in A \cup {m + k}
      <4>1. CASE j \in 1 .. m
        BY <1>3, <2>1, <3>3, <4>1 DEF CopySet
      <4>2. CASE j \notin 1 .. m
        <5>1. j - m \in 1 .. n /\ m + (j - m) = j
          BY <4>2
        <5>2. s[j - m] = x
          BY <1>3, <3>3, <5>1
        <5> QED
          BY <3>2, <5>1, <5>2
      <4> QED
        BY <4>1, <4>2
    <3>4. CopySet(x, w) \subseteq A \cup {m + k}
      BY <1>3, <3>3 DEF CopySet
    <3>5. /\ IsFiniteSet(A \cup {m + k})
          /\ Cardinality(A \cup {m + k}) \in Nat
          /\ Cardinality(A \cup {m + k}) <= Cardinality(A) + 1
      <4>1. /\ IsFiniteSet(A \cup {m + k})
            /\ Cardinality(A \cup {m + k})
                  = IF m + k \in A THEN Cardinality(A) ELSE Cardinality(A) + 1
        BY <2>2, FS_AddElement
      <4> QED
        BY <2>2, <4>1
    <3>6. /\ IsFiniteSet(CopySet(x, w))
          /\ Cardinality(CopySet(x, w)) <= Cardinality(A \cup {m + k})
      BY <3>4, <3>5, FS_Subset
    <3>7. Cardinality(CopySet(x, w)) \in Nat
      BY <3>6, FS_CardinalityType
    <3>8. One(s # << >>) = 1
      <4>1. s # << >>
        BY <1>3, <3>1
      <4> QED
        BY <4>1 DEF One
    <3> QED
      BY <2>1, <2>2, <3>5, <3>6, <3>7, <3>8
  <2> QED
    BY <2>3, <2>4
<1> QED
  BY <1>1, <1>3, <1>4, <1>5

LEMMA CaptureInitInv ==
    ASSUME CaptureInit
    PROVE  CaptureInv
<1>1. << >> \in Seq(Int) /\ ToSet(<< >>) = {}
  BY DEF ToSet
<1>2. CaptureType
  <2>1. NewSession \in SessionRow
    BY <1>1 DEF SessionRow, NewSession, NoTape
  <2>2. NoTape \in SUBSET Int
    BY DEF NoTape
  <2>3. NoRequest \in LateOnes
    BY <1>1, <2>2 DEF LateOnes, NoRequest
  <2> QED
    BY <1>1, <2>1, <2>2, <2>3 DEF CaptureInit, CaptureType
<1>3. PageInStep
  BY <1>1 DEF CaptureInit, PageInStep
<1>4. Numbered
  BY <1>1 DEF CaptureInit, Numbered, Distinct, NoRequest
<1>5. Undisturbed
  BY DEF CaptureInit, Undisturbed, NewSession
<1>6. Counted
  <2>1. \A x : CopySet(x, << >>) = {}
    BY DEF CopySet
  <2>2. NewSession.transcript = << >> /\ NoRequest.sent = << >> /\ Cardinality({}) = 0
    BY FS_EmptySet DEF NewSession, NoRequest
  <2>3. /\ session.transcript = << >> /\ late.sent = << >> /\ mishaps = 0
        /\ One(late.sent # << >>) = 0 /\ One(step = "propose") = 0
    BY <2>2 DEF CaptureInit, One
  <2>4. \A x \in Int : Cardinality(CopySet(x, session.transcript)) = 0
    BY <2>1, <2>2, <2>3
  <2> QED
    BY <2>3, <2>4 DEF Counted
<1> QED
  BY <1>2, <1>3, <1>4, <1>5, <1>6 DEF CaptureInv

-----------------------------------------------------------------------------
(* Talking leaves the session and the request under way alone.             *)

LEMMA TalkStep ==
    ASSUME CaptureInv, UNCHANGED <<session, request, trouble>>
    PROVE  Counted'
BY DEF CaptureInv, Counted, CopySet, request, trouble

LEMMA ListenKeeps ==
    ASSUME CaptureInv, StartListening \/ ListenAgain \/ StopListening \/ RecognizerEnds
    PROVE  CaptureInv'
<1>1. CaptureType'
  BY DEF CaptureInv, CaptureType, StartListening, ListenAgain, StopListening, RecognizerEnds,
         page, request, trouble
<1>2. PageInStep'
  BY DEF CaptureInv, PageInStep, StartListening, ListenAgain, StopListening, RecognizerEnds,
         page, request
<1>3. Undisturbed'
  <2>1. CASE StartListening
    <3>1. ~started => Talk(lines) = {} \/ lines # << >>
      BY DEF Talk, ToSet
    <3>2. ~started => Talk(pending) = {}
      BY DEF CaptureInv, PageInStep, Talk, ToSet
    <3>3. UNCHANGED <<lines, pending, session, step, toUpload, toSend, late, mishaps>>
      BY <2>1 DEF StartListening, page, request, trouble
    <3>4. Talk(lines)' = Talk(lines) /\ Talk(pending)' = Talk(pending) /\ Talk(toSend)' = Talk(toSend)
      BY <3>3 DEF Talk
    <3> QED
      BY <2>1, <3>1, <3>2, <3>3, <3>4 DEF CaptureInv, Undisturbed, StartListening
  <2>2. CASE ListenAgain \/ StopListening \/ RecognizerEnds
    BY <2>2 DEF CaptureInv, Undisturbed, Talk, ListenAgain, StopListening, RecognizerEnds,
                page, request, trouble
  <2> QED
    BY <2>1, <2>2
<1>4. Counted'
  BY TalkStep DEF StartListening, ListenAgain, StopListening, RecognizerEnds
<1>5. Numbered'
  BY DEF CaptureInv, Numbered, Distinct, StartListening, ListenAgain, StopListening,
         RecognizerEnds, page, request, trouble
<1> QED
  BY <1>1, <1>2, <1>3, <1>4, <1>5 DEF CaptureInv

LEMMA SpeakKeeps ==
    ASSUME CaptureInv, Speak
    PROVE  CaptureInv'
<1>1. /\ said' \in Int /\ said' > 0 /\ said' \in Nat
      /\ pending \in Seq(Int) /\ tape \in SUBSET Int
  BY DEF CaptureInv, CaptureType, Speak
<1>2. PICK n \in Int : n = said'
  BY <1>1
<1>0. n = said + 1 /\ said \in Nat /\ n \notin ToSet(lines) \cup ToSet(pending)
  BY <1>2 DEF CaptureInv, CaptureType, Numbered, Speak
<1>3. /\ pending' \in Seq(Int) /\ ToSet(pending') \subseteq ToSet(pending) \cup {n}
      /\ Distinct(pending')
  BY <1>0, <1>1, <1>2, LineAdded DEF CaptureInv, Numbered, Speak
<1>4. tape' = IF recorder THEN tape \cup {n} ELSE tape
  BY <1>2 DEF Speak
<1>5. UNCHANGED <<lines, draft, kept, started, speech, recorder, session, step, toUpload,
                  toSend, late, mishaps>>
  BY DEF Speak, page, request, trouble
<1>6. CaptureType'
  BY <1>1, <1>3, <1>4, <1>5 DEF CaptureInv, CaptureType
<1>7. PageInStep'
  BY <1>5 DEF CaptureInv, PageInStep, Speak
<1>8. Undisturbed'
  BY <1>3, <1>4, <1>5 DEF CaptureInv, Undisturbed, Talk
<1>9. Counted'
  BY TalkStep DEF Speak
<1>10. Numbered'
  <2>1. /\ Distinct(lines') /\ Distinct(toSend') /\ Distinct(late'.sent)
        /\ ToSet(lines') = ToSet(lines)
    BY <1>5 DEF CaptureInv, Numbered
  <2>2. ToSet(lines) \cap ToSet(pending') = {}
    BY <1>0, <1>3 DEF CaptureInv, Numbered
  <2>3. ToSet(lines) \in SUBSET Int /\ ToSet(pending) \in SUBSET Int
    BY DEF CaptureInv, CaptureType, ToSet
  <2>4. \A x \in ToSet(lines) \cup ToSet(pending') : -n <= x /\ x <= n
    BY <1>0, <1>3, <2>3 DEF CaptureInv, Numbered
  <2> QED
    BY <1>2, <1>3, <2>1, <2>2, <2>4 DEF Numbered
<1> QED
  BY <1>6, <1>7, <1>8, <1>9, <1>10 DEF CaptureInv

LEMMA RecognizeKeeps ==
    ASSUME CaptureInv, Recognize
    PROVE  CaptureInv'
<1>1. pending \in Seq(Int) /\ lines \in Seq(Int) /\ pending # << >>
  BY DEF CaptureInv, CaptureType, Recognize
<1>2. PICK n : n = Head(pending)
  OBVIOUS
<1>3. /\ n \in Int /\ n \in ToSet(pending)
      /\ pending' \in Seq(Int) /\ ToSet(pending') \subseteq ToSet(pending)
      /\ Distinct(pending') /\ n \notin ToSet(pending')
  BY <1>1, <1>2, LineTaken DEF CaptureInv, Numbered, Recognize
<1>4. lines' \in Seq(Int) /\ ToSet(lines') = ToSet(lines) \cup {n} /\ Distinct(lines')
  BY <1>1, <1>2, <1>3, LineAdded DEF CaptureInv, Numbered, Recognize, Show
<1>5. kept' = kept \cup {n} /\ draft' = lines'
  BY <1>2 DEF Recognize, Show
<1>6. UNCHANGED <<said, started, speech, recorder, tape, session, step, toUpload, toSend,
                  late, mishaps>>
  BY DEF Recognize, request, trouble
<1>7. CaptureType'
  BY <1>3, <1>4, <1>6 DEF CaptureInv, CaptureType
<1>8. PageInStep'
  BY <1>1, <1>4, <1>5, <1>6 DEF CaptureInv, PageInStep
<1>9. Undisturbed'
  <2>1. started
    BY <1>1 DEF CaptureInv, PageInStep, CaptureType
  <2> QED
    BY <2>1, <1>3, <1>4, <1>6 DEF CaptureInv, Undisturbed, Talk
<1>10. Counted'
  BY TalkStep DEF Recognize
<1>11. Numbered'
  BY <1>3, <1>4, <1>6 DEF CaptureInv, Numbered
<1> QED
  BY <1>7, <1>8, <1>9, <1>10, <1>11 DEF CaptureInv

LEMMA TypeLineKeeps ==
    ASSUME CaptureInv, TypeLine
    PROVE  CaptureInv'
<1>1. said' \in Nat /\ -said' \in Int /\ ~(-said' > 0) /\ lines \in Seq(Int)
  BY DEF CaptureInv, CaptureType, TypeLine
<1>2. PICK n \in Int : n = -said'
  BY <1>1
<1>0. said' = said + 1 /\ said \in Nat /\ n \notin ToSet(lines) \cup ToSet(pending)
  BY <1>2 DEF CaptureInv, CaptureType, Numbered, TypeLine
<1>3. lines' \in Seq(Int) /\ ToSet(lines') = ToSet(lines) \cup {n} /\ Distinct(lines')
  BY <1>0, <1>1, <1>2, LineAdded DEF CaptureInv, Numbered, TypeLine, Show
<1>4. kept' = kept \cup {n} /\ draft' = lines' /\ started
  BY <1>2 DEF TypeLine, Show
<1>5. UNCHANGED <<started, speech, pending, recorder, tape, session, step, toUpload, toSend,
                  late, mishaps>>
  BY DEF TypeLine, hooks, request, trouble
<1>6. CaptureType'
  BY <1>1, <1>3, <1>5 DEF CaptureInv, CaptureType
<1>7. PageInStep'
  BY <1>3, <1>4, <1>5 DEF CaptureInv, PageInStep
<1>8. Undisturbed'
  BY <1>1, <1>2, <1>3, <1>4, <1>5 DEF CaptureInv, Undisturbed, Talk
<1>9. Counted'
  BY TalkStep DEF TypeLine
<1>10. Numbered'
  <2>1. ToSet(lines) \in SUBSET Int /\ ToSet(pending) \in SUBSET Int
    BY DEF CaptureInv, CaptureType, ToSet
  <2>2. ToSet(lines') \cap ToSet(pending) = {}
    BY <1>0, <1>3 DEF CaptureInv, Numbered
  <2>3. \A x \in ToSet(lines') \cup ToSet(pending) : -said' <= x /\ x <= said'
    BY <1>0, <1>2, <1>3, <2>1 DEF CaptureInv, Numbered
  <2> QED
    BY <1>3, <1>5, <2>2, <2>3 DEF CaptureInv, Numbered
<1> QED
  BY <1>6, <1>7, <1>8, <1>9, <1>10 DEF CaptureInv

LEMMA DeleteLineKeeps ==
    ASSUME CaptureInv, DeleteLine
    PROVE  CaptureInv'
<1>1. PICK i \in DOMAIN lines : Show(RemoveAt(lines, i)) /\ kept' = kept \ {lines[i]}
  BY DEF DeleteLine
<1>2. lines \in Seq(Int)
  BY DEF CaptureInv, CaptureType
<1>3. /\ lines' \in Seq(Int) /\ ToSet(lines') \subseteq ToSet(lines)
      /\ ToSet(lines) \ {lines[i]} \subseteq ToSet(lines') /\ draft' = lines'
      /\ Distinct(lines')
  BY <1>1, <1>2, LineRemoved DEF CaptureInv, Numbered, Show
<1>4. started /\ UNCHANGED <<said, started, speech, pending, recorder, tape, session, step,
                             toUpload, toSend, late, mishaps>>
  BY DEF DeleteLine, hooks, request, trouble
<1>5. CaptureType'
  BY <1>3, <1>4 DEF CaptureInv, CaptureType
<1>6. PageInStep'
  BY <1>1, <1>3, <1>4 DEF CaptureInv, PageInStep
<1>7. Undisturbed'
  BY <1>3, <1>4 DEF CaptureInv, Undisturbed, Talk
<1>8. Counted'
  BY TalkStep DEF DeleteLine
<1>9. Numbered'
  BY <1>3, <1>4 DEF CaptureInv, Numbered
<1> QED
  BY <1>5, <1>6, <1>7, <1>8, <1>9 DEF CaptureInv

-----------------------------------------------------------------------------
(* A reading.                                                              *)

LEMMA PressKeeps ==
    ASSUME CaptureInv, PressRead
    PROVE  CaptureInv'
<1>1. /\ UNCHANGED <<said, lines, draft, kept, started, pending, session, late, mishaps>>
      /\ step = "idle" /\ step' \in {"upload", "append"} /\ toSend' = lines
  BY DEF PressRead, Press, page, trouble
<1>2. CaptureType'
  <2>1. NoTape \in SUBSET Int
    BY DEF NoTape
  <2> QED
    BY <1>1, <2>1 DEF CaptureInv, CaptureType, PressRead, Press
<1>3. PageInStep'
  BY <1>1 DEF CaptureInv, PageInStep, PressRead, Press
<1>4. Undisturbed'
  BY <1>1 DEF CaptureInv, Undisturbed, Talk, PressRead, Press
<1>5. Numbered'
  BY <1>1 DEF CaptureInv, Numbered
<1>6. Counted'
  <2>1. One(step' = "propose") = One(step = "propose")
    BY <1>1 DEF One
  <2> QED
    BY <1>1, <2>1 DEF CaptureInv, Counted
<1> QED
  BY <1>2, <1>3, <1>4, <1>5, <1>6 DEF CaptureInv

\* What a request may leave of the rows.
LEMMA RowsLeft ==
    ASSUME CaptureType
    PROVE  /\ Uploaded \in SessionRow /\ Appended \in SessionRow /\ Closed \in SessionRow
           /\ Uploaded.audio = toUpload /\ Uploaded.closed = session.closed
           /\ Uploaded.transcript = session.transcript
           /\ Appended.audio = session.audio /\ Appended.closed = session.closed
           /\ Appended.transcript = session.transcript \o toSend
           /\ Closed.closed /\ Closed.transcript = session.transcript
<1>1. PICK r \in SessionRow : r = session
  BY DEF CaptureType
<1>2. toSend \in Seq(Int) /\ toUpload \in SUBSET Int
  BY DEF CaptureType
<1>3. r.transcript \o toSend \in Seq(Int)
  BY <1>2, LinesAppended DEF SessionRow
<1> QED
  BY <1>1, <1>2, <1>3 DEF Uploaded, Appended, Closed, SessionRow

LEMMA AnsweredKeeps ==
    ASSUME CaptureInv, Upload \/ AppendLines
    PROVE  CaptureInv'
<1>1. PICK rows \in {Uploaded, Appended} :
         /\ step \in {"upload", "append"} /\ ~session.closed /\ session' = rows
         /\ IF step = "upload" THEN rows = Uploaded /\ step' = "append"
                               ELSE rows = Appended /\ step' = "propose"
  BY DEF Upload, AppendLines, Answered
<1>2. UNCHANGED <<said, lines, draft, kept, started, speech, pending, recorder, tape,
                  toUpload, toSend, late, mishaps>>
  BY DEF Upload, AppendLines, Answered, page, hooks, trouble
<1>3. /\ session' \in SessionRow /\ session'.closed = session.closed
      /\ session'.audio = IF step = "upload" THEN toUpload ELSE session.audio
      /\ session'.transcript = IF step = "append" THEN session.transcript \o toSend
                               ELSE session.transcript
  BY <1>1, RowsLeft DEF CaptureInv
<1>4. CaptureType'
  BY <1>2, <1>3 DEF CaptureInv, CaptureType
<1>5. PageInStep'
  BY <1>1, <1>2 DEF CaptureInv, PageInStep
<1>6. toSend \in Seq(Int) /\ session.transcript \in Seq(Int) /\ << >> \o toSend = toSend
  BY ConcatEmptySeq DEF CaptureInv, CaptureType, SessionRow
<1>7. Undisturbed'
  BY <1>1, <1>2, <1>3, <1>6 DEF CaptureInv, Undisturbed, Talk
<1>8. Numbered'
  BY <1>2 DEF CaptureInv, Numbered
<1>9. Counted'
  <2> SUFFICES ASSUME NEW x \in Int
               PROVE  Cardinality(CopySet(x, session'.transcript)) + One(late'.sent # << >>)
                         <= mishaps' + One(step' = "propose")
    BY DEF Counted
  <2>1. /\ Cardinality(CopySet(x, session.transcript)) + One(late.sent # << >>) <= mishaps
        /\ One(late.sent # << >>) \in {0, 1} /\ mishaps \in Nat
    <3>1. One(step = "propose") = 0 /\ One(late.sent # << >>) \in {0, 1}
      BY <1>1 DEF One
    <3> QED
      BY <1>1, <3>1 DEF CaptureInv, Counted, CaptureType
  <2>2. /\ Cardinality(CopySet(x, session.transcript)) \in Nat
        /\ Cardinality(CopySet(x, session.transcript \o toSend)) \in Nat
        /\ Cardinality(CopySet(x, session.transcript \o toSend))
              <= Cardinality(CopySet(x, session.transcript)) + 1
    <3>1. PICK s \in Seq(Int), t \in Seq(Int) : s = toSend /\ t = session.transcript
      BY <1>6
    <3>2. Distinct(s) /\ One(s # << >>) \in {0, 1}
      BY <3>1 DEF CaptureInv, Numbered, One
    <3>3. PICK c, d : c = Cardinality(CopySet(x, t)) /\ d = Cardinality(CopySet(x, t \o s))
      OBVIOUS
    <3>4. c \in Nat /\ d \in Nat /\ d <= c + One(s # << >>)
      BY <3>2, <3>3, LinesAppended
    <3>5. d <= c + 1
      BY <3>2, <3>4
    <3> QED
      BY <3>1, <3>3, <3>4, <3>5
  <2>3. CASE step = "upload"
    <3>1. One(step' = "propose") = 0
      BY <1>1, <2>3 DEF One
    <3>2. session'.transcript = session.transcript
      BY <1>3, <2>3
    <3> QED
      BY <1>2, <2>1, <2>2, <3>1, <3>2
  <2>4. CASE step = "append"
    <3>1. One(step' = "propose") = 1
      BY <1>1, <2>4 DEF One
    <3>2. session'.transcript = session.transcript \o toSend
      BY <1>3, <2>4
    <3> QED
      BY <1>2, <2>1, <2>2, <3>1, <3>2
  <2> QED
    BY <1>1, <2>3, <2>4
<1> QED
  BY <1>4, <1>5, <1>7, <1>8, <1>9 DEF CaptureInv

\* A request that is answered late, by an error or not at all may add a copy, and
\* the mishap allows for it.
LEMMA MishapCounted ==
    ASSUME CaptureInv, mishaps' = mishaps + 1, step' = "idle",
           \/ /\ session' \in {session, Uploaded, Closed}
              /\ late'.sent \in {late.sent, << >>}
           \/ step = "append" /\ session' = Appended /\ late'.sent = late.sent
           \/ step = "append" /\ session' = session
    PROVE  Counted'
<1> SUFFICES ASSUME NEW x \in Int, ~session'.closed
             PROVE  Cardinality(CopySet(x, session'.transcript)) + One(late'.sent # << >>)
                       <= mishaps' + One(step' = "propose")
  BY DEF Counted
<1>1. toSend \in Seq(Int) /\ session.transcript \in Seq(Int) /\ mishaps \in Nat
  BY DEF CaptureInv, CaptureType, SessionRow
<1>2. Distinct(toSend)
  BY DEF CaptureInv, Numbered
<1>3. PICK c, d : /\ c = Cardinality(CopySet(x, session.transcript)) /\ c \in Nat
                  /\ d = Cardinality(CopySet(x, session'.transcript))
  BY <1>1, LinesAppended
<1>4. PICK l, k, p : /\ l = One(late.sent # << >>) /\ k = One(late'.sent # << >>)
                     /\ p = One(step = "propose")
  OBVIOUS
<1>5. /\ l \in {0, 1} /\ k \in {0, 1} /\ p \in {0, 1} /\ One(step' = "propose") = 0
      /\ (step = "append") => p = 0
      /\ (late'.sent = late.sent) => k = l
      /\ (late'.sent = << >>) => k = 0
  BY <1>4 DEF One
<1>6. /\ (session' = Appended) =>
            ~session.closed /\ session'.transcript = session.transcript \o toSend
      /\ (session' \in {session, Uploaded}) =>
            ~session.closed /\ session'.transcript = session.transcript
      /\ session' # Closed
  BY RowsLeft DEF CaptureInv
<1>7. c + l <= mishaps + p
  BY <1>3, <1>4, <1>6 DEF CaptureInv, Counted
<1>8. CASE session' \in {session, Uploaded} /\ late'.sent \in {late.sent, << >>}
  <2>1. d = c
    BY <1>3, <1>6, <1>8
  <2>2. k <= l
    BY <1>5, <1>8
  <2>3. d + k <= mishaps + 1
    BY <1>1, <1>3, <1>5, <1>7, <2>1, <2>2
  <2> QED
    BY <1>1, <1>3, <1>4, <1>5, <2>3
<1>9. CASE step = "append" /\ session' = Appended /\ late'.sent = late.sent
  <2>1. d \in Nat /\ d <= c + 1
    <3>1. PICK s \in Seq(Int), t \in Seq(Int) : s = toSend /\ t = session.transcript
      BY <1>1
    <3>2. Distinct(s) /\ One(s # << >>) \in {0, 1}
      BY <1>2, <3>1 DEF One
    <3>3. c = Cardinality(CopySet(x, t)) /\ d = Cardinality(CopySet(x, t \o s))
      BY <1>3, <1>6, <1>9, <3>1
    <3>4. d \in Nat /\ d <= c + One(s # << >>)
      BY <3>2, <3>3, LinesAppended
    <3> QED
      BY <1>3, <3>2, <3>4
  <2>2. k = l /\ p = 0
    BY <1>5, <1>9
  <2>3. d + k <= mishaps + 1
    BY <1>1, <1>3, <1>5, <1>7, <2>1, <2>2
  <2> QED
    BY <1>1, <1>3, <1>4, <1>5, <2>3
<1>10. CASE step = "append" /\ session' = session
  <2>1. d = c /\ p = 0
    BY <1>3, <1>5, <1>10
  <2>2. d + k <= mishaps + 1
    BY <1>1, <1>3, <1>5, <1>7, <2>1
  <2> QED
    BY <1>1, <1>3, <1>4, <1>5, <2>2
<1> QED
  BY <1>6, <1>8, <1>9, <1>10

LEMMA GivenUpKeeps ==
    ASSUME CaptureInv, UploadFails \/ AppendFails \/ ProposeFails \/ Refused
    PROVE  CaptureInv'
<1>1. /\ UNCHANGED <<said, lines, draft, kept, started, speech, pending, recorder, tape, late>>
      /\ step' = "idle" /\ toUpload' = NoTape /\ toSend' = << >>
  BY DEF UploadFails, AppendFails, ProposeFails, Refused, Fail, page, hooks, trouble
<1>2. \/ session.closed /\ session' = session /\ mishaps' = mishaps /\ step # "left"
      \/ /\ mishaps' = mishaps + 1
         /\ \/ session' \in {session, Uploaded, Closed}
            \/ step = "append" /\ session' = Appended
  BY DEF UploadFails, AppendFails, ProposeFails, Refused, Fail, trouble
<1>3. session' \in SessionRow /\ mishaps \in Nat
  BY <1>2, RowsLeft DEF CaptureInv, CaptureType
<1>4. NoTape \in SUBSET Int
  BY DEF NoTape
<1>5. CaptureType'
  BY <1>1, <1>2, <1>3, <1>4 DEF CaptureInv, CaptureType
<1>6. PageInStep'
  BY <1>1 DEF CaptureInv, PageInStep
<1>7. mishaps' # 0
  BY <1>2, <1>3 DEF CaptureInv, Undisturbed
<1>8. Undisturbed' /\ Numbered'
  <2>1. Undisturbed'
    BY <1>7 DEF Undisturbed
  <2>2. Numbered'
    BY <1>1 DEF CaptureInv, Numbered, Distinct
  <2> QED
    BY <2>1, <2>2
<1>9. Counted'
  <2>1. CASE session.closed /\ session' = session
    BY <2>1 DEF Counted
  <2>2. CASE mishaps' = mishaps + 1
    <3>1. late'.sent = late.sent
      BY <1>1
    <3> QED
      BY <1>1, <1>2, <1>3, <2>2, <3>1, MishapCounted
  <2> QED
    BY <1>2, <2>1, <2>2
<1> QED
  BY <1>5, <1>6, <1>8, <1>9 DEF CaptureInv

LEMMA ReloadKeeps ==
    ASSUME CaptureInv, Reload
    PROVE  CaptureInv'
<1>1. /\ lines' = draft /\ draft' = draft /\ kept' = kept /\ said' = said
      /\ started' = FALSE /\ speech' = "off" /\ pending' = << >>
      /\ recorder' = FALSE /\ tape' = {} /\ session' = session
      /\ step' = "idle" /\ toUpload' = NoTape /\ toSend' = << >> /\ mishaps' = mishaps + 1
  BY DEF Reload
<1>2. PICK r : r = [audio  |-> IF step = "upload" THEN toUpload ELSE NoTape,
                    sent   |-> IF step = "append" THEN toSend ELSE << >>,
                    closes |-> step = "propose"]
  OBVIOUS
<1>3. late' \in {late, r} /\ r.sent = IF step = "append" THEN toSend ELSE << >>
  BY <1>2 DEF Reload
<1>4. NoTape \in SUBSET Int /\ {} \in SUBSET Int /\ << >> \in Seq(Int)
  BY DEF NoTape
<1>5. CaptureType'
  <2>1. said \in Nat /\ lines' \in Seq(Int) /\ mishaps' \in Nat /\ session' \in SessionRow
    BY <1>1 DEF CaptureInv, CaptureType, PageInStep
  <2>2. late' \in LateOnes
    <3>1. r \in LateOnes
      BY <1>2, <1>4 DEF CaptureInv, CaptureType, LateOnes
    <3> QED
      BY <1>3, <3>1 DEF CaptureInv, CaptureType
  <2> QED
    BY <1>1, <1>4, <2>1, <2>2 DEF CaptureType
<1>6. PageInStep'
  BY <1>1 DEF CaptureInv, PageInStep
<1>7. Undisturbed'
  BY <1>1 DEF CaptureInv, CaptureType, Undisturbed
<1>8. Numbered'
  <2>1. lines' = lines /\ ToSet(pending') = {} /\ Distinct(pending') /\ Distinct(toSend')
    BY <1>1 DEF CaptureInv, PageInStep, Distinct, ToSet
  <2>2. Distinct(late'.sent)
    BY <1>3 DEF CaptureInv, Numbered, Distinct
  <2> QED
    BY <1>1, <2>1, <2>2 DEF CaptureInv, Numbered
<1>9. Counted'
  <2>1. CASE step = "append"
    BY <1>1, <2>1, MishapCounted
  <2>2. CASE step # "append"
    <3>1. late'.sent \in {late.sent, << >>}
      BY <1>3, <2>2
    <3> QED
      BY <1>1, <3>1, MishapCounted
  <2> QED
    BY <2>1, <2>2
<1> QED
  BY <1>5, <1>6, <1>7, <1>8, <1>9 DEF CaptureInv

LEMMA LateKeeps ==
    ASSUME CaptureInv, LateRequest
    PROVE  CaptureInv'
<1>1. /\ UNCHANGED <<said, lines, draft, kept, started, speech, pending, recorder, tape,
                    step, toUpload, toSend, mishaps>>
      /\ late # NoRequest /\ ~session.closed /\ late' = NoRequest
  BY DEF LateRequest, page, hooks, request
<1>2. PICK a : a = IF late.audio = NoTape THEN session.audio ELSE late.audio
  OBVIOUS
<1>3. PICK w : w = session.transcript \o late.sent
  OBVIOUS
<1>4. session' = [audio |-> a, transcript |-> w, closed |-> late.closes]
  BY <1>2, <1>3 DEF LateRequest
<1>5. /\ late.sent \in Seq(Int) /\ session.transcript \in Seq(Int)
      /\ a \in SUBSET Int /\ late.closes \in BOOLEAN /\ mishaps \in Nat
  BY <1>2 DEF CaptureInv, CaptureType, SessionRow, LateOnes
<1>6. w \in Seq(Int)
  BY <1>3, <1>5, LinesAppended
<1>7. CaptureType'
  <2>1. session' \in SessionRow
    BY <1>4, <1>5, <1>6 DEF SessionRow
  <2>2. NoRequest \in LateOnes
    BY DEF NoRequest, LateOnes, NoTape
  <2> QED
    BY <1>1, <2>1, <2>2 DEF CaptureInv, CaptureType
<1>8. step # "left"
  BY <1>1 DEF CaptureInv, PageInStep
<1>9. PageInStep'
  BY <1>1, <1>8 DEF CaptureInv, PageInStep
<1>10. Undisturbed'
  BY <1>1, <1>8 DEF CaptureInv, Undisturbed
<1>11. Numbered'
  BY <1>1 DEF CaptureInv, Numbered, Distinct, NoRequest
<1>12. Counted'
  <2> SUFFICES ASSUME NEW x \in Int
               PROVE  Cardinality(CopySet(x, session'.transcript)) + One(late'.sent # << >>)
                         <= mishaps' + One(step' = "propose")
    BY DEF Counted
  <2>1. session'.transcript = w /\ Distinct(late.sent)
    BY <1>4 DEF CaptureInv, Numbered
  <2>2. One(late'.sent # << >>) = 0
    BY <1>1 DEF NoRequest, One
  <2>3. /\ Cardinality(CopySet(x, session.transcript)) \in Nat
        /\ Cardinality(CopySet(x, w)) \in Nat
        /\ Cardinality(CopySet(x, w))
              <= Cardinality(CopySet(x, session.transcript)) + One(late.sent # << >>)
    BY <1>3, <1>5, <2>1, LinesAppended
  <2>4. Cardinality(CopySet(x, session.transcript)) + One(late.sent # << >>)
           <= mishaps + One(step = "propose")
    BY <1>1 DEF CaptureInv, Counted
  <2>5. One(late.sent # << >>) \in {0, 1} /\ One(step = "propose") \in {0, 1}
    BY DEF One
  <2>6. One(step' = "propose") = One(step = "propose") /\ mishaps' = mishaps
    BY <1>1
  <2> QED
    BY <1>5, <2>1, <2>2, <2>3, <2>4, <2>5, <2>6
<1> QED
  BY <1>7, <1>9, <1>10, <1>11, <1>12 DEF CaptureInv

LEMMA ProposeKeeps ==
    ASSUME CaptureInv, Propose
    PROVE  CaptureInv'
<1>1. /\ said' = 0 /\ lines' = << >> /\ draft' = << >> /\ kept' = {}
      /\ started' = FALSE /\ speech' = "off" /\ pending' = << >>
      /\ recorder' = FALSE /\ tape' = {}
      /\ step' = "left" /\ toUpload' = NoTape /\ toSend' = << >>
      /\ late' = NoRequest /\ mishaps' = 0
  BY DEF Propose
<1>2. session' \in SessionRow /\ session'.closed
  <2>1. PICK r : r = NewSession
    OBVIOUS
  <2>2. r \in SessionRow
    BY <2>1 DEF NewSession, SessionRow, NoTape
  <2>3. session' = [r EXCEPT !.closed = TRUE]
    BY <2>1 DEF Propose
  <2> QED
    BY <2>2, <2>3 DEF SessionRow
<1>3. /\ NoTape \in SUBSET Int /\ {} \in SUBSET Int /\ 0 \in Nat /\ << >> \in Seq(Int)
      /\ NoRequest \in LateOnes
  BY DEF NoTape, NoRequest, LateOnes
<1>4. CaptureType'
  BY <1>1, <1>2, <1>3 DEF CaptureType
<1>5. PageInStep'
  BY <1>1, <1>2 DEF PageInStep
<1>6. Undisturbed' /\ Counted'
  BY <1>1, <1>2 DEF Undisturbed, Counted
<1>7. Numbered'
  BY <1>1 DEF Numbered, Distinct, ToSet, NoRequest
<1> QED
  BY <1>4, <1>5, <1>6, <1>7 DEF CaptureInv

LEMMA CaptureStepKeeps ==
    ASSUME CaptureInv, CaptureNext
    PROVE  CaptureInv'
<1>1. CASE StartListening \/ ListenAgain \/ StopListening \/ RecognizerEnds
  BY <1>1, ListenKeeps
<1>2. CASE Speak
  BY <1>2, SpeakKeeps
<1>3. CASE Recognize
  BY <1>3, RecognizeKeeps
<1>4. CASE TypeLine
  BY <1>4, TypeLineKeeps
<1>5. CASE DeleteLine
  BY <1>5, DeleteLineKeeps
<1>6. CASE PressRead
  BY <1>6, PressKeeps
<1>7. CASE Upload \/ AppendLines
  BY <1>7, AnsweredKeeps
<1>8. CASE UploadFails \/ AppendFails \/ ProposeFails \/ Refused
  BY <1>8, GivenUpKeeps
<1>9. CASE Propose
  BY <1>9, ProposeKeeps
<1>10. CASE Reload
  BY <1>10, ReloadKeeps
<1>11. CASE LateRequest
  BY <1>11, LateKeeps
<1> QED
  BY <1>1, <1>2, <1>3, <1>4, <1>5, <1>6, <1>7, <1>8, <1>9, <1>10, <1>11 DEF CaptureNext

-----------------------------------------------------------------------------
(* What the phones keep.                                                   *)

Roles == Parties \cup {NoRole}

Views ==
    [ role : Parties, state : States, terms : Terms \cup {NoTerms}, revision : Nat,
      you : BOOLEAN, they : BOOLEAN ]

Answers == [view : Views, busy : BOOLEAN, handover : Roles]

Pages ==
    [ url : Roles, role : Roles, held : SUBSET Parties, view : Views \cup {NoView},
      handover : Roles, coming : SUBSET Answers ]

Confirmation == [device : Phones, role : Parties, shown : Parties, terms : Terms \cup {NoTerms}]

DevicesType ==
    /\ deal \in DealType
    /\ stored \in [Phones -> SUBSET Parties]
    /\ pages \in [Phones -> Pages]
    /\ accepted \in SUBSET Confirmation

\* A view is never ahead of the deal, and one of its revision has its terms.
Current(v, row) ==
    /\ v.revision <= row.termsRevision
    /\ v.revision = row.termsRevision => v.terms = row.terms

\* A page that shows something is that party's, and it knows all the tokens its
\* device holds.
Shows(pg, tokens, row) ==
    /\ pg.view # NoView =>
          /\ pg.role = pg.view.role
          /\ pg.held = tokens /\ pg.role \in tokens
          /\ Current(pg.view, row)
    /\ \A c \in pg.coming : Current(c.view, row)

\* The buyer's token is on the first phone only, together with the seller's.
Holds(d, pg, tokens) ==
    IF d = FirstPhone THEN tokens = Parties
    ELSE /\ tokens \subseteq {"seller"}
         /\ pg.url \in {NoRole, "seller"}
         /\ \A c \in pg.coming : c.view.role = "seller"

\* Until the freeze, the confirmations accepted are those that stand.
Standing ==
    /\ \A a \in accepted :
          /\ a.role = a.shown /\ a.terms = deal.terms
          /\ a.role = "buyer" => a.device = FirstPhone
    /\ deal.state = "Draft" => accepted = {}
    /\ deal.state = "PendingAgreement" =>
          {a.role : a \in accepted} = {p \in Parties : ConfirmedBy(deal, p)}

\* The phones have only ever seen a negotiation that the witness opened.
Negotiation ==
    /\ deal.state \in {"Draft", "PendingAgreement", "Agreed"}
    /\ deal.state = "PendingAgreement" => ~BothConfirmed(deal)
    /\ step = "left" => deal.state # "Draft"
    /\ step # "left" => pages = [d \in Phones |-> NoPage]

FrozenAsSaid ==
    frozenAs = "independent" => deal.state = "Agreed" /\ OneDeviceIsLabelled

DevicesInv ==
    /\ DevicesType /\ Negotiation /\ Standing /\ FrozenAsSaid
    /\ \A d \in Phones : Shows(pages[d], stored[d], deal) /\ Holds(d, pages[d], stored[d])

-----------------------------------------------------------------------------
(* The commands of a negotiation.                                          *)

\* The deal with something new on it: a party's confirmation, or other terms.
LEMMA ConfirmEffect ==
    ASSUME NEW d \in DealType, NEW r, NEW actor \in Parties,
           NEW t \in Transition(d, [name |-> "ConfirmTerms", revision |-> r], actor, 0)
    PROVE  /\ d.state = "PendingAgreement" /\ r = d.termsRevision
           /\ t.deal \in DealType /\ t.deal # d
           /\ t.deal.terms = d.terms /\ t.deal.termsRevision = d.termsRevision
           /\ t.deal.confirmed = [d.confirmed EXCEPT ![actor] = r]
           /\ t.deal.state = IF BothConfirmed(t.deal) THEN "Agreed" ELSE "PendingAgreement"
<1>1. PICK cmd : cmd = [name |-> "ConfirmTerms", revision |-> r]
  OBVIOUS
<1>2. cmd.name = "ConfirmTerms" /\ cmd.revision = r
  BY <1>1
<1>3. t \in ConfirmTerms(d, cmd, actor, 0)
  BY <1>1, <1>2 DEF Transition, When, ProposeExtraction, CorrectTerms, Fund, SubmitHandoffProof,
     ConfirmReceipt, AutoConfirmReceipt, ReleaseFunds, OpenDispute, ResolveDispute, Cancel,
     ExpireUnfunded, RefundExpired
<1>4. t.deal \in DealType /\ t.deal.version = d.version + 1
  <2>1. actor \in Actors /\ WellFormed(cmd) /\ 0 \in Nat
    BY <1>2 DEF Actors, WellFormed
  <2> QED
    BY <1>1, <2>1, TransitionTyped
<1>5. PICK marked : marked = [d EXCEPT !.version = @ + 1, !.confirmed[actor] = cmd.revision]
  OBVIOUS
<1>6. d.state = "PendingAgreement" /\ r = d.termsRevision
  BY <1>2, <1>3 DEF ConfirmTerms, When
<1>7. /\ marked.state = d.state /\ marked.terms = d.terms
      /\ marked.termsRevision = d.termsRevision
      /\ marked.confirmed = [d.confirmed EXCEPT ![actor] = r]
      /\ DOMAIN marked = DOMAIN d
  BY <1>2, <1>5 DEF DealType
<1>8. PICK frozen : frozen = [marked EXCEPT !.state = "Agreed",
                                            !.termsHash = CanonicalHash(d.terms),
                                            !.frozenAt = 0]
  OBVIOUS
<1>9. t.deal = IF BothConfirmed(marked) THEN frozen ELSE marked
  BY <1>3, <1>5, <1>8 DEF ConfirmTerms, When
<1>10. /\ frozen.state = "Agreed" /\ frozen.terms = marked.terms
       /\ frozen.termsRevision = marked.termsRevision /\ frozen.confirmed = marked.confirmed
  BY <1>7, <1>8 DEF DealType
<1>11. BothConfirmed(t.deal) <=> BothConfirmed(marked)
  BY <1>9, <1>10 DEF BothConfirmed, ConfirmedBy
<1>12. t.deal # d
  BY <1>4 DEF DealType
<1> QED
  BY <1>4, <1>6, <1>7, <1>9, <1>10, <1>11, <1>12

LEMMA CorrectEffect ==
    ASSUME NEW d \in DealType, NEW x, NEW actor \in Parties,
           NEW t \in Transition(d, [name |-> "CorrectTerms", terms |-> x], actor, 0)
    PROVE  /\ d.state = "PendingAgreement"
           /\ t.deal \in DealType /\ t.deal # d /\ t.deal.state = "PendingAgreement"
           /\ t.deal.termsRevision = d.termsRevision + 1
           /\ t.deal.confirmed = Nobody
<1>1. PICK cmd : cmd = [name |-> "CorrectTerms", terms |-> x]
  OBVIOUS
<1>2. cmd.name = "CorrectTerms"
  BY <1>1
<1>3. t \in CorrectTerms(d, cmd, actor, 0)
  BY <1>1, <1>2 DEF Transition, When, ProposeExtraction, ConfirmTerms, Fund, SubmitHandoffProof,
     ConfirmReceipt, AutoConfirmReceipt, ReleaseFunds, OpenDispute, ResolveDispute, Cancel,
     ExpireUnfunded, RefundExpired
<1>4. t.deal \in DealType /\ t.deal.version = d.version + 1
  <2>1. actor \in Actors /\ WellFormed(cmd) /\ 0 \in Nat
    BY <1>2 DEF Actors, WellFormed
  <2> QED
    BY <1>1, <2>1, TransitionTyped
<1>5. /\ d.state = "PendingAgreement"
      /\ t.deal = [d EXCEPT !.version = @ + 1, !.terms = cmd.terms,
                            !.termsRevision = @ + 1, !.confirmed = Nobody]
  BY <1>3 DEF CorrectTerms, When
<1>6. /\ t.deal.state = d.state /\ t.deal.termsRevision = d.termsRevision + 1
      /\ t.deal.confirmed = Nobody
  BY <1>5 DEF DealType
<1>7. t.deal # d
  BY <1>4 DEF DealType
<1> QED
  BY <1>4, <1>5, <1>6, <1>7

LEMMA ProposeEffect ==
    ASSUME NEW d \in DealType, NEW cmd, NEW t \in ProposeExtraction(d, cmd, "system", 0),
           cmd.name = "ProposeExtraction"
    PROVE  /\ d.state = "Draft"
           /\ t.deal \in DealType /\ t.deal.state = "PendingAgreement"
           /\ t.deal.termsRevision = 0 /\ t.deal.confirmed = Nobody
<1>1. t.deal \in DealType
  <2>1. t \in Transition(d, cmd, "system", 0) /\ "system" \in Actors /\ WellFormed(cmd) /\ 0 \in Nat
    BY DEF Transition, Actors, WellFormed
  <2> QED
    BY <2>1, TransitionTyped
<1>2. /\ d.state = "Draft"
      /\ t.deal = [d EXCEPT !.version = @ + 1, !.state = "PendingAgreement",
                            !.terms = cmd.terms, !.termsRevision = 0, !.confirmed = Nobody]
  BY DEF ProposeExtraction, When
<1>3. PICK moved : moved = [d EXCEPT !.version = @ + 1]
  OBVIOUS
<1>4. DOMAIN moved = DOMAIN d
  BY <1>3 DEF DealType
<1>5. t.deal = [moved EXCEPT !.state = "PendingAgreement", !.terms = cmd.terms,
                             !.termsRevision = 0, !.confirmed = Nobody]
  BY <1>2, <1>3
<1> QED
  BY <1>1, <1>2, <1>4, <1>5 DEF DealType

-----------------------------------------------------------------------------
(* Steps of one page that leave the deal alone.                            *)

LEMMA PageTyped ==
    ASSUME DevicesInv, NEW d \in Phones
    PROVE  /\ pages[d] \in Pages /\ stored[d] \in SUBSET Parties /\ deal \in DealType
           /\ Shows(pages[d], stored[d], deal) /\ Holds(d, pages[d], stored[d])
           /\ DOMAIN pages = Phones /\ DOMAIN stored = Phones
BY DEF DevicesInv, DevicesType

LEMMA OnePage ==
    ASSUME DevicesInv, step = "left", step' = "left", NEW d \in Phones,
           NEW new \in Pages, NEW tokens \in SUBSET Parties,
           pages' = [pages EXCEPT ![d] = new],
           stored' = [stored EXCEPT ![d] = tokens],
           UNCHANGED <<deal, frozenAs, accepted>>,
           Shows(new, tokens, deal), Holds(d, new, tokens)
    PROVE  DevicesInv'
<1>1. DevicesType'
  BY DEF DevicesInv, DevicesType
<1>2. Negotiation'
  BY DEF DevicesInv, Negotiation
<1>3. Standing'
  BY DEF DevicesInv, Standing
<1>4. FrozenAsSaid'
  BY DEF DevicesInv, FrozenAsSaid, OneDeviceIsLabelled
<1>5. ASSUME NEW e \in Phones
      PROVE  Shows(pages'[e], stored'[e], deal) /\ Holds(e, pages'[e], stored'[e])
  <2>1. CASE e = d
    <3>1. pages'[e] = new /\ stored'[e] = tokens
      BY <2>1, PageTyped
    <3> QED
      BY <2>1, <3>1
  <2>2. CASE e # d
    <3>1. pages'[e] = pages[e] /\ stored'[e] = stored[e]
      BY <2>2, PageTyped
    <3> QED
      BY <3>1, PageTyped
  <2> QED
    BY <2>1, <2>2
<1>6. \A e \in Phones : Shows(pages'[e], stored'[e], deal') /\ Holds(e, pages'[e], stored'[e])
  BY <1>5
<1> QED
  BY <1>1, <1>2, <1>3, <1>4, <1>6 DEF DevicesInv

\* The same for a step that files no token.
LEMMA OnePageOnly ==
    ASSUME DevicesInv, step = "left", step' = "left", NEW d \in Phones,
           NEW new \in Pages,
           pages' = [pages EXCEPT ![d] = new],
           UNCHANGED <<stored, deal, frozenAs, accepted>>,
           Shows(new, stored[d], deal), Holds(d, new, stored[d])
    PROVE  DevicesInv'
<1>1. PICK tokens \in SUBSET Parties : tokens = stored[d]
  BY PageTyped
<1>2. stored' = [stored EXCEPT ![d] = tokens]
  BY <1>1, PageTyped DEF DevicesInv, DevicesType
<1> QED
  BY <1>1, <1>2, OnePage

LEMMA NothingShown ==
    /\ NoRole \in Roles /\ NoRole \notin Parties /\ NoView \notin Views
    /\ NoPage \in Pages /\ NoPage.view = NoView /\ NoPage.coming = {}
    /\ NoPage.url = NoRole
<1>1. NoRole \in Roles /\ NoRole \notin Parties
  BY DEF NoRole, Roles, Parties
<1>2. NoView \notin Views
  <2>1. NoView.role = NoRole
    BY DEF NoView
  <2> QED
    BY <1>1, <2>1 DEF Views
<1>3. NoPage \in Pages
  BY <1>1 DEF NoPage, Pages
<1> QED
  BY <1>1, <1>2, <1>3 DEF NoPage

LEMMA OthersRole ==
    ASSUME NEW p \in Parties
    PROVE  Other(p) \in Parties /\ Other(p) # p
BY DEF Other, Parties

LEMMA OpenKeeps ==
    ASSUME DevicesInv, step = "left", step' = "left", NEW d \in Phones, OpenPage(d)
    PROVE  DevicesInv'
<1>1. PICK role : role = ActiveRole(d)
  OBVIOUS
<1>2. role \in Roles
  <2>1. CASE active[d] \in stored[d]
    BY <1>1, <2>1, PageTyped DEF ActiveRole, Roles
  <2>2. CASE active[d] \notin stored[d] /\ stored[d] = {}
    BY <1>1, <2>2 DEF ActiveRole, Roles
  <2>3. CASE active[d] \notin stored[d] /\ stored[d] # {}
    <3>1. \E p \in stored[d] : p = "buyer" \/ "buyer" \notin stored[d]
      BY <2>3
    <3> QED
      BY <1>1, <2>3, <3>1, PageTyped DEF ActiveRole, Roles
  <2> QED
    BY <2>1, <2>2, <2>3
<1>3. PICK url \in Roles : url = IF d = FirstPhone THEN NoRole ELSE "seller"
  BY DEF Roles, Parties
<1>4. PICK tokens \in SUBSET Parties : tokens = stored[d]
  BY PageTyped
<1>5. PICK new : new = [NoPage EXCEPT !.url = url, !.role = role, !.held = tokens]
  OBVIOUS
<1>6. pages' = [pages EXCEPT ![d] = new]
  BY <1>1, <1>3, <1>4, <1>5 DEF OpenPage, HeldRoles
<1>7. PICK blank \in Pages : blank = NoPage
  BY NothingShown
<1>8. /\ new \in Pages /\ new.url = url /\ new.view = NoView /\ new.coming = {}
  BY <1>2, <1>5, <1>7, NothingShown DEF Pages
<1>9. Shows(new, stored[d], deal)
  BY <1>8 DEF Shows
<1>10. Holds(d, new, stored[d])
  BY <1>3, <1>8, PageTyped DEF Holds
<1>11. UNCHANGED <<stored, deal, frozenAs, accepted>>
  BY DEF OpenPage
<1> QED
  BY <1>6, <1>8, <1>9, <1>10, <1>11, OnePageOnly

LEMMA CloseKeeps ==
    ASSUME DevicesInv, step = "left", step' = "left", NEW d \in Phones, ClosePage(d)
    PROVE  DevicesInv'
<1>1. Shows(NoPage, stored[d], deal)
  BY NothingShown DEF Shows
<1>2. Holds(d, NoPage, stored[d])
  BY NothingShown, PageTyped DEF Holds
<1>3. UNCHANGED <<stored, deal, frozenAs, accepted>> /\ pages' = [pages EXCEPT ![d] = NoPage]
  BY DEF ClosePage
<1> QED
  BY <1>1, <1>2, <1>3, NothingShown, OnePageOnly

\* A page with another set of answers on their way.
LEMMA ComingKeeps ==
    ASSUME NEW pg \in Pages, NEW more \in SUBSET Answers, NEW new,
           new = [pg EXCEPT !.coming = more], NEW d, NEW tokens, NEW row,
           Shows(pg, tokens, row), Holds(d, pg, tokens),
           \A c \in more : Current(c.view, row),
           \A c \in more : d # FirstPhone => c.view.role = "seller"
    PROVE  new \in Pages /\ Shows(new, tokens, row) /\ Holds(d, new, tokens)
<1>1. /\ new \in Pages /\ new.coming = more /\ new.url = pg.url /\ new.view = pg.view
      /\ new.role = pg.role /\ new.held = pg.held
  BY DEF Pages
<1> QED
  BY <1>1 DEF Shows, Holds

\* The view a page gets of a deal, with the token it uses.
LEMMA ViewTyped ==
    ASSUME NEW row \in DealType, NEW p \in Parties
    PROVE  /\ ViewFor(row, p) \in Views /\ ViewFor(row, p).role = p
           /\ Current(ViewFor(row, p), row)
<1>1. ConfirmedBy(row, p) \in BOOLEAN /\ ConfirmedBy(row, Other(p)) \in BOOLEAN
  BY DEF ConfirmedBy
<1> QED
  BY <1>1 DEF ViewFor, Views, Current, DealType

\* Only the first phone has the buyer's token.
LEMMA TokenIsHeld ==
    ASSUME DevicesInv, NEW d \in Phones, TokenOf(d) # NoRole
    PROVE  TokenOf(d) \in Parties /\ (d # FirstPhone => TokenOf(d) = "seller")
<1>1. pages[d].url \in Roles
  BY PageTyped DEF Pages
<1>2. TokenOf(d) \in Parties
  BY <1>1, PageTyped DEF TokenOf, Roles
<1>3. d # FirstPhone => TokenOf(d) = "seller"
  BY PageTyped DEF TokenOf, Holds
<1> QED
  BY <1>2, <1>3

LEMMA LoadKeeps ==
    ASSUME DevicesInv, step = "left", step' = "left", NEW d \in Phones, Load(d)
    PROVE  DevicesInv'
<1>1. PICK p \in Parties : p = TokenOf(d)
  BY TokenIsHeld DEF Load
<1>2. PICK c : c = Coming(ViewFor(deal, p), FALSE, NoRole)
  OBVIOUS
<1>3. c \in Answers /\ Current(c.view, deal) /\ (d # FirstPhone => c.view.role = "seller")
  <2>1. ViewFor(deal, p) \in Views /\ ViewFor(deal, p).role = p /\ Current(ViewFor(deal, p), deal)
    BY ViewTyped, PageTyped
  <2>2. c.view = ViewFor(deal, p) /\ c \in Answers
    BY <1>2, <2>1, NothingShown DEF Coming, Answers
  <2>3. d # FirstPhone => p = "seller"
    BY <1>1, TokenIsHeld DEF Load
  <2> QED
    BY <2>1, <2>2, <2>3
<1>4. PICK pg \in Pages : pg = pages[d]
  BY PageTyped
<1>5. PICK more : more = pg.coming \cup {c}
  OBVIOUS
<1>6. more \in SUBSET Answers
  BY <1>3, <1>4, <1>5 DEF Pages
<1>7. PICK new : new = [pg EXCEPT !.coming = more]
  OBVIOUS
<1>8. pages' = [pages EXCEPT ![d] = new] /\ UNCHANGED <<stored, deal, frozenAs, accepted>>
  BY <1>1, <1>2, <1>4, <1>5, <1>7, PageTyped DEF Load
<1>9. Shows(pg, stored[d], deal) /\ Holds(d, pg, stored[d])
  BY <1>4, PageTyped
<1>10. \A x \in more : Current(x.view, deal) /\ (d # FirstPhone => x.view.role = "seller")
  BY <1>3, <1>5, <1>9 DEF Shows, Holds
<1>11. new \in Pages /\ Shows(new, stored[d], deal) /\ Holds(d, new, stored[d])
  BY <1>6, <1>7, <1>9, <1>10, ComingKeeps
<1> QED
  BY <1>8, <1>11, OnePageOnly

LEMMA PassedTyped ==
    ASSUME NEW pg \in Pages, NEW c \in pg.coming
    PROVE  /\ Passed(pg, c) \in Pages /\ Passed(pg, c).coming = pg.coming \ {c}
           /\ Passed(pg, c).url = pg.url /\ Passed(pg, c).view = pg.view
           /\ Passed(pg, c).role = pg.role /\ Passed(pg, c).held = pg.held
<1>1. c.handover \in Roles
  BY DEF Pages, Answers
<1> QED
  BY <1>1 DEF Passed, Pages

LEMMA LoadedKeeps ==
    ASSUME DevicesInv, step = "left", step' = "left", NEW d \in Phones, Loaded(d)
    PROVE  DevicesInv'
<1>1. PICK c \in pages[d].coming :
         /\ stored' = [stored EXCEPT ![d] = @ \cup {c.view.role}]
         /\ pages' = [pages EXCEPT ![d] =
                         [Passed(@, c) EXCEPT !.role = c.view.role, !.view = c.view,
                                              !.held = stored'[d]]]
  BY DEF Loaded, HeldRoles
<1>2. PICK pg \in Pages : pg = pages[d]
  BY PageTyped
<1>3. PICK tokens : tokens = stored[d] \cup {c.view.role}
  OBVIOUS
<1>4. /\ Shows(pg, stored[d], deal) /\ Holds(d, pg, stored[d]) /\ c \in pg.coming
      /\ c \in Answers
  BY <1>1, <1>2, PageTyped DEF Pages
<1>5. c.view \in Views /\ c.view.role \in Parties
  BY <1>4 DEF Answers, Views
<1>6. tokens \in SUBSET Parties /\ stored' = [stored EXCEPT ![d] = tokens] /\ stored'[d] = tokens
  BY <1>1, <1>3, <1>5, PageTyped
<1>7. PICK left \in Pages :
         left = Passed(pg, c) /\ left.coming = pg.coming \ {c} /\ left.url = pg.url
  BY <1>4, PassedTyped
<1>8. PICK new : new = [left EXCEPT !.role = c.view.role, !.view = c.view, !.held = tokens]
  OBVIOUS
<1>9. pages' = [pages EXCEPT ![d] = new]
  BY <1>1, <1>2, <1>6, <1>7, <1>8
<1>10. /\ new \in Pages /\ new.role = c.view.role /\ new.held = tokens /\ new.view = c.view
       /\ new.coming = left.coming /\ new.url = left.url
  BY <1>5, <1>6, <1>8 DEF Pages, Roles
<1>11. Shows(new, tokens, deal)
  BY <1>3, <1>4, <1>7, <1>10 DEF Shows
<1>12. Holds(d, new, tokens)
  <2>1. CASE d = FirstPhone
    BY <1>3, <1>4, <1>5, <2>1 DEF Holds
  <2>2. CASE d # FirstPhone
    BY <1>3, <1>4, <1>7, <1>10, <2>2 DEF Holds
  <2> QED
    BY <2>1, <2>2
<1>13. UNCHANGED <<deal, frozenAs, accepted>>
  BY DEF Loaded
<1> QED
  BY <1>6, <1>9, <1>10, <1>11, <1>12, <1>13, OnePage

\* A page whose view, tokens and answers are those it had, or fewer.
LEMMA LessKeeps ==
    ASSUME NEW pg \in Pages, NEW new, NEW d, NEW tokens, NEW row,
           Shows(pg, tokens, row), Holds(d, pg, tokens),
           new.url = pg.url, new.coming \subseteq pg.coming,
           \/ new.view = NoView
           \/ new.view = pg.view /\ new.role = pg.role /\ new.held = pg.held
    PROVE  Shows(new, tokens, row) /\ Holds(d, new, tokens)
BY DEF Shows, Holds

LEMMA LoadFailsKeeps ==
    ASSUME DevicesInv, step = "left", step' = "left", NEW d \in Phones, LoadFails(d)
    PROVE  DevicesInv'
<1>1. PICK pg \in Pages : pg = pages[d]
  BY PageTyped
<1>2. PICK c \in pg.coming : pages' = [pages EXCEPT ![d] = Passed(pg, c)]
  BY <1>1 DEF LoadFails
<1>3. PICK new \in Pages :
         /\ new = Passed(pg, c) /\ new.url = pg.url /\ new.coming = pg.coming \ {c}
         /\ new.view = pg.view /\ new.role = pg.role /\ new.held = pg.held
  BY PassedTyped
<1>4. Shows(new, stored[d], deal) /\ Holds(d, new, stored[d])
  BY <1>1, <1>3, LessKeeps, PageTyped
<1>5. UNCHANGED <<stored, deal, frozenAs, accepted>> /\ pages' = [pages EXCEPT ![d] = new]
  BY <1>2, <1>3 DEF LoadFails
<1> QED
  BY <1>4, <1>5, OnePageOnly

LEMMA SwitchKeeps ==
    ASSUME DevicesInv, step = "left", step' = "left", NEW d \in Phones, Switch(d)
    PROVE  DevicesInv'
<1>1. PICK pg \in Pages : pg = pages[d]
  BY PageTyped
<1>2. PICK p \in Parties : SwitchTo(d, p)
  <2>1. CASE pages[d].handover # NoRole /\ SwitchTo(d, pages[d].handover)
    BY <1>1, <2>1 DEF Pages, Roles
  <2>2. CASE SwitchTo(d, Other(pages[d].view.role))
    <3>1. pages[d].view.role \in Parties
      BY <1>1 DEF Switch, Showing, Pages, Views
    <3> QED
      BY <2>2, <3>1, OthersRole
  <2> QED
    BY <2>1, <2>2 DEF Switch
<1>3. PICK new : new = [pg EXCEPT !.role = p, !.handover = NoRole, !.view = NoView]
  OBVIOUS
<1>4. pages' = [pages EXCEPT ![d] = new] /\ UNCHANGED <<stored, deal, frozenAs, accepted>>
  BY <1>1, <1>2, <1>3, PageTyped DEF SwitchTo
<1>5. /\ new \in Pages /\ new.url = pg.url /\ new.coming \subseteq pg.coming
      /\ new.view = NoView
  BY <1>3, NothingShown DEF Pages, Roles
<1>6. Shows(new, stored[d], deal) /\ Holds(d, new, stored[d])
  BY <1>1, <1>5, LessKeeps, PageTyped
<1> QED
  BY <1>4, <1>5, <1>6, OnePageOnly

LEMMA NotYetKeeps ==
    ASSUME DevicesInv, step = "left", step' = "left", NEW d \in Phones, NotYet(d)
    PROVE  DevicesInv'
<1>1. PICK pg \in Pages : pg = pages[d]
  BY PageTyped
<1>2. PICK new : new = [pg EXCEPT !.handover = NoRole]
  OBVIOUS
<1>3. pages' = [pages EXCEPT ![d] = new] /\ UNCHANGED <<stored, deal, frozenAs, accepted>>
  BY <1>1, <1>2, PageTyped DEF NotYet
<1>4. /\ new \in Pages /\ new.url = pg.url /\ new.coming \subseteq pg.coming
      /\ new.view = pg.view /\ new.role = pg.role /\ new.held = pg.held
  BY <1>2, NothingShown DEF Pages
<1>5. Shows(new, stored[d], deal) /\ Holds(d, new, stored[d])
  BY <1>1, <1>4, LessKeeps, PageTyped
<1> QED
  BY <1>3, <1>4, <1>5, OnePageOnly

-----------------------------------------------------------------------------
(* Taps, which may move the deal.                                          *)

\* A later row: another revision, or the same with its terms.
Later(row, new) ==
    \/ new.termsRevision = row.termsRevision /\ new.terms = row.terms
    \/ new.termsRevision > row.termsRevision

LEMMA LaterShows ==
    ASSUME NEW pg \in Pages, NEW tokens, NEW row \in DealType, NEW new \in DealType,
           Shows(pg, tokens, row), Later(row, new)
    PROVE  Shows(pg, tokens, new)
<1>1. ASSUME NEW v \in Views, Current(v, row)
      PROVE  Current(v, new)
  BY <1>1 DEF Current, Later, Views, DealType
<1>2. pg.view # NoView => pg.view \in Views
  BY DEF Pages
<1>3. \A c \in pg.coming : c.view \in Views
  BY DEF Pages, Answers
<1> QED
  BY <1>1, <1>2, <1>3 DEF Shows

\* The pages after a tap: everybody's views lag behind the deal, and the answer on
\* its way is of the deal as it is now.
LEMMA ActKeepsPages ==
    ASSUME DevicesInv, NEW d \in Phones, NEW cmd, NEW handover \in Roles,
           Showing(d), Act(d, cmd, handover),
           deal' \in DealType, Later(deal, deal')
    PROVE  /\ pages' \in [Phones -> Pages]
           /\ \A e \in Phones : Shows(pages'[e], stored[e], deal') /\ Holds(e, pages'[e], stored[e])
<1>1. pages[d].role \in Parties /\ TokenOf(d) = pages[d].role
  <2>1. pages[d].role \in stored[d]
    BY PageTyped DEF Showing, Shows
  <2> QED
    BY <2>1, PageTyped DEF TokenOf
<1>2. PICK p \in Parties : p = TokenOf(d)
  BY <1>1
<1>3. d # FirstPhone => p = "seller"
  BY <1>2, NothingShown, TokenIsHeld
<1>4. PICK row \in DealType : row = deal'
  OBVIOUS
<1>5. PICK c : c = Coming(ViewFor(row, p), TRUE, handover)
  OBVIOUS
<1>6. c \in Answers /\ Current(c.view, row) /\ (d # FirstPhone => c.view.role = "seller")
  <2>1. ViewFor(row, p) \in Views /\ ViewFor(row, p).role = p /\ Current(ViewFor(row, p), row)
    BY ViewTyped
  <2>2. c.view = ViewFor(row, p) /\ c \in Answers
    BY <1>5, <2>1 DEF Coming, Answers
  <2> QED
    BY <1>3, <2>1, <2>2
<1>7. PICK pg \in Pages : pg = pages[d]
  BY PageTyped
<1>8. PICK more : more = pg.coming \cup {c}
  OBVIOUS
<1>9. more \in SUBSET Answers
  BY <1>6, <1>7, <1>8 DEF Pages
<1>10. PICK new : new = [pg EXCEPT !.coming = more]
  OBVIOUS
<1>11. pages' = [pages EXCEPT ![d] = new]
  BY <1>2, <1>4, <1>5, <1>7, <1>8, <1>10, PageTyped DEF Act
<1>12. ASSUME NEW e \in Phones PROVE Shows(pages[e], stored[e], row)
  BY <1>4, LaterShows, PageTyped
<1>13. Holds(d, pg, stored[d]) /\ Shows(pg, stored[d], row)
  BY <1>7, <1>12, PageTyped
<1>14. \A x \in more : Current(x.view, row) /\ (d # FirstPhone => x.view.role = "seller")
  BY <1>6, <1>8, <1>13 DEF Shows, Holds
<1>15. new \in Pages /\ Shows(new, stored[d], row) /\ Holds(d, new, stored[d])
  <2>1. (\A x \in more : Current(x.view, row))
        /\ (\A x \in more : d # FirstPhone => x.view.role = "seller")
    BY <1>14
  <2> QED
    BY <1>9, <1>10, <1>13, <2>1, ComingKeeps
<1>16. pages' \in [Phones -> Pages]
  BY <1>11, <1>15 DEF DevicesInv, DevicesType
<1>17. ASSUME NEW e \in Phones
       PROVE  Shows(pages'[e], stored[e], row) /\ Holds(e, pages'[e], stored[e])
  <2>1. CASE e = d
    BY <1>11, <1>15, <2>1, PageTyped
  <2>2. CASE e # d
    <3>1. pages'[e] = pages[e]
      BY <1>11, <2>2, PageTyped
    <3> QED
      BY <1>12, <3>1, PageTyped
  <2> QED
    BY <2>1, <2>2
<1> QED
  BY <1>4, <1>16, <1>17

\* A page that shows the deal sends the token of the party it shows it to.
LEMMA ActsInItsName ==
    ASSUME DevicesInv, NEW d \in Phones, Showing(d)
    PROVE  /\ pages[d].view \in Views /\ pages[d].view.role \in Parties
           /\ TokenOf(d) = pages[d].view.role
           /\ TokenOf(d) = "buyer" => d = FirstPhone
           /\ pages[d].held # Parties => d # FirstPhone
           /\ Current(pages[d].view, deal)
<1>1. PICK pg \in Pages : pg = pages[d]
  BY PageTyped
<1>2. /\ pg.view # NoView /\ pg.role = pg.view.role /\ pg.held = stored[d]
      /\ pg.role \in stored[d] /\ Current(pg.view, deal)
  BY <1>1, PageTyped DEF Showing, Shows
<1>3. pg.view \in Views /\ pg.view.role \in Parties
  BY <1>2 DEF Pages, Views
<1>4. TokenOf(d) = pg.role
  BY <1>1, <1>2 DEF TokenOf
<1>5. d # FirstPhone => pg.role # "buyer"
  BY <1>2, PageTyped DEF Holds
<1>6. d = FirstPhone => pg.held = Parties
  BY <1>2, PageTyped DEF Holds
<1> QED
  BY <1>1, <1>2, <1>3, <1>4, <1>5, <1>6

LEMMA LostTapKeeps ==
    ASSUME DevicesInv, step = "left", step' = "left", NEW d \in Phones,
           NEW cmd, NEW handover \in Roles, Showing(d), Act(d, cmd, handover),
           UNCHANGED <<deal, accepted, frozenAs>>
    PROVE  DevicesInv'
<1>1. deal \in DealType /\ deal' = deal /\ Later(deal, deal')
  BY PageTyped DEF Later
<1>2. /\ pages' \in [Phones -> Pages]
      /\ \A e \in Phones : Shows(pages'[e], stored[e], deal') /\ Holds(e, pages'[e], stored[e])
  BY <1>1, ActKeepsPages
<1>3. stored' = stored
  BY DEF Act
<1>4. DevicesType'
  BY <1>1, <1>2, <1>3 DEF DevicesInv, DevicesType
<1>5. Negotiation' /\ Standing' /\ FrozenAsSaid'
  BY DEF DevicesInv, Negotiation, Standing, FrozenAsSaid, OneDeviceIsLabelled
<1> QED
  BY <1>2, <1>3, <1>4, <1>5 DEF DevicesInv

LEMMA TwoDevices ==
    ASSUME NEW a, NEW b, a # b
    PROVE  Cardinality({a, b}) = 2
<1>1. IsFiniteSet({a}) /\ Cardinality({a}) = 1
  BY FS_Singleton
<1>2. Cardinality({a} \cup {b}) = 2
  BY <1>1, FS_AddElement
<1>3. {a, b} = {a} \cup {b}
  OBVIOUS
<1> QED
  BY <1>2, <1>3

\* The second confirmation, from a device without both tokens: it is the seller's,
\* and those that stand are all the buyer's, from the first phone.
LEMMA IndependentMeansTwo ==
    ASSUME NEW old \in SUBSET Confirmation, NEW a \in Confirmation, NEW earlier,
           earlier = {p \in Parties : \E c \in old : c.role = p},
           \A c \in old : c.role = "buyer" => c.device = FirstPhone,
           earlier # Parties, earlier \cup {a.role} = Parties,
           a.role # "buyer", a.device # FirstPhone
    PROVE  /\ {c.role : c \in old \cup {a}} = Parties
           /\ Cardinality({c.device : c \in old \cup {a}}) = 2
<1>1. a.role = "seller" /\ "buyer" \in earlier /\ "seller" \notin earlier
  BY DEF Confirmation, Parties
<1>2. \A c \in old : c.role = "buyer" /\ c.device = FirstPhone
  BY <1>1 DEF Confirmation, Parties
<1>3. PICK b \in old : b.role = "buyer"
  BY <1>1
<1>4. {c.role : c \in old \cup {a}} = Parties
  BY <1>1, <1>2, <1>3 DEF Parties
<1>5. {c.device : c \in old \cup {a}} = {FirstPhone, a.device}
  BY <1>2, <1>3
<1>6. Cardinality({FirstPhone, a.device}) = 2
  <2>1. PICK x : x = a.device
    OBVIOUS
  <2>2. FirstPhone # x
    BY <2>1
  <2>3. Cardinality({FirstPhone, x}) = 2
    BY <2>2, TwoDevices, Zenon
  <2> QED
    BY <2>1, <2>3
<1> QED
  BY <1>4, <1>5, <1>6

LEMMA ConfirmKeeps ==
    ASSUME DevicesInv, step = "left", step' = "left", NEW d \in Phones, Confirm(d)
    PROVE  DevicesInv'
<1>1. PICK v \in Views : v = pages[d].view
  BY ActsInItsName DEF Confirm, MayTap
<1>2. PICK p \in Parties : p = TokenOf(d)
  BY ActsInItsName DEF Confirm, MayTap
<1>3. /\ Showing(d) /\ v.role = p /\ Current(v, deal) /\ (p = "buyer" => d = FirstPhone)
      /\ (~SameDevice(d) => d # FirstPhone)
  BY <1>1, <1>2, ActsInItsName DEF Confirm, MayTap, SameDevice
<1>4. PICK handover \in Roles :
         Act(d, [name |-> "ConfirmTerms", revision |-> v.revision], handover)
  <2>1. PICK to : to = IF SameDevice(d) /\ ~v.they THEN Other(v.role) ELSE NoRole
    OBVIOUS
  <2>2. to \in Roles
    BY <1>3, <2>1, OthersRole, NothingShown DEF Roles
  <2>3. Act(d, [name |-> "ConfirmTerms", revision |-> v.revision], to)
    BY <1>1, <2>1, Zenon DEF Confirm
  <2> QED
    BY <2>2, <2>3
<1>5. CASE deal' = deal
  BY <1>3, <1>4, <1>5, LostTapKeeps DEF Confirm, Moved
<1>6. CASE deal' # deal
  <2>1. PICK t \in Transition(deal, [name |-> "ConfirmTerms", revision |-> v.revision], p, 0) :
           deal' = t.deal
    BY <1>2, <1>4, <1>6 DEF Act
  <2>2. /\ deal.state = "PendingAgreement" /\ v.revision = deal.termsRevision
        /\ deal' \in DealType /\ deal'.terms = deal.terms
        /\ deal'.termsRevision = deal.termsRevision
        /\ deal'.confirmed = [deal.confirmed EXCEPT ![p] = v.revision]
        /\ deal'.state = IF BothConfirmed(deal') THEN "Agreed" ELSE "PendingAgreement"
    BY <2>1, ConfirmEffect, PageTyped
  <2>3. PICK a : a = [device |-> d, role |-> p, shown |-> v.role, terms |-> v.terms]
    OBVIOUS
  <2>4. /\ a \in Confirmation /\ a.role = p /\ a.shown = p /\ a.device = d
        /\ a.terms = deal.terms
    BY <1>3, <2>2, <2>3 DEF Confirmation, Views, Current
  <2>5. accepted' = accepted \cup {a}
    BY <1>1, <1>2, <1>6, <2>3 DEF Confirm, Moved
  <2>6. frozenAs' = IF deal'.state = "Agreed"
                    THEN (IF SameDevice(d) THEN "one device" ELSE "independent")
                    ELSE frozenAs
    BY <1>6 DEF Confirm, Moved
  <2>7. stored' = stored
    BY <1>4 DEF Act
  <2>8. /\ pages' \in [Phones -> Pages]
        /\ \A e \in Phones : Shows(pages'[e], stored[e], deal') /\ Holds(e, pages'[e], stored[e])
    BY <1>3, <1>4, <2>2, ActKeepsPages DEF Later
  <2>9. DevicesType'
    BY <2>2, <2>4, <2>5, <2>7, <2>8 DEF DevicesInv, DevicesType
  <2>10. Negotiation'
    BY <2>2 DEF Negotiation
  <2>11. \A q \in Parties : ConfirmedBy(deal', q) <=> q = p \/ ConfirmedBy(deal, q)
    BY <2>2, PageTyped DEF ConfirmedBy, DealType
  <2>12. {c.role : c \in accepted} = {q \in Parties : ConfirmedBy(deal, q)}
    BY <2>2 DEF DevicesInv, Standing
  <2>13. {c.role : c \in accepted'} = {q \in Parties : ConfirmedBy(deal', q)}
    BY <2>4, <2>5, <2>11, <2>12
  <2>14. Standing'
    <3>1. ASSUME NEW c \in accepted'
          PROVE  /\ c.role = c.shown /\ c.terms = deal'.terms
                 /\ c.role = "buyer" => c.device = FirstPhone
      BY <1>3, <2>2, <2>4, <2>5 DEF DevicesInv, Standing
    <3> QED
      BY <2>2, <2>13, <3>1 DEF Standing
  <2>15. FrozenAsSaid'
    <3>1. CASE deal'.state # "Agreed"
      BY <2>2, <2>6, <3>1 DEF DevicesInv, FrozenAsSaid
    <3>2. CASE deal'.state = "Agreed" /\ ~SameDevice(d)
      <4>1. PICK earlier : earlier = {q \in Parties : \E c \in accepted : c.role = q}
        OBVIOUS
      <4>2. earlier = {q \in Parties : ConfirmedBy(deal, q)}
        BY <2>12, <4>1
      <4>3. earlier # Parties
        BY <2>2, <4>2 DEF DevicesInv, Negotiation, BothConfirmed
      <4>4. earlier \cup {a.role} = Parties
        BY <2>2, <2>4, <2>11, <3>2, <4>2 DEF BothConfirmed
      <4>5. a.role # "buyer" /\ a.device # FirstPhone
        BY <1>3, <2>4, <3>2
      <4>6. accepted \in SUBSET Confirmation
            /\ \A c \in accepted : c.role = "buyer" => c.device = FirstPhone
        BY DEF DevicesInv, DevicesType, Standing
      <4>7. /\ {c.role : c \in accepted \cup {a}} = Parties
            /\ Cardinality({c.device : c \in accepted \cup {a}}) = 2
        BY <2>4, <4>1, <4>3, <4>4, <4>5, <4>6, IndependentMeansTwo
      <4> QED
        BY <2>5, <3>2, <4>7 DEF FrozenAsSaid, OneDeviceIsLabelled
    <3>3. CASE deal'.state = "Agreed" /\ SameDevice(d)
      BY <2>6, <3>3 DEF FrozenAsSaid
    <3> QED
      BY <3>1, <3>2, <3>3
  <2> QED
    BY <2>7, <2>8, <2>9, <2>10, <2>14, <2>15 DEF DevicesInv
<1> QED
  BY <1>5, <1>6

LEMMA CorrectKeeps ==
    ASSUME DevicesInv, step = "left", step' = "left", NEW d \in Phones, Correct(d)
    PROVE  DevicesInv'
<1>1. PICK p \in Parties : p = TokenOf(d)
  BY ActsInItsName DEF Correct, MayTap
<1>2. PICK x : Act(d, [name |-> "CorrectTerms", terms |-> x], NoRole)
  BY DEF Correct
<1>3. Showing(d) /\ NoRole \in Roles
  BY NothingShown DEF Correct, MayTap
<1>4. CASE deal' = deal
  BY <1>2, <1>3, <1>4, LostTapKeeps DEF Correct, Moved
<1>5. CASE deal' # deal
  <2>1. PICK t \in Transition(deal, [name |-> "CorrectTerms", terms |-> x], p, 0) :
           deal' = t.deal
    BY <1>1, <1>2, <1>5 DEF Act
  <2>2. /\ deal.state = "PendingAgreement" /\ deal' \in DealType
        /\ deal'.state = "PendingAgreement"
        /\ deal'.termsRevision = deal.termsRevision + 1 /\ deal'.confirmed = Nobody
    BY <2>1, CorrectEffect, PageTyped
  <2>3. accepted' = {} /\ frozenAs' = frozenAs /\ stored' = stored
    BY <1>2, <1>5 DEF Correct, Moved, Act
  <2>4. deal.termsRevision \in Nat
    BY PageTyped DEF DealType
  <2>5. /\ pages' \in [Phones -> Pages]
        /\ \A e \in Phones : Shows(pages'[e], stored[e], deal') /\ Holds(e, pages'[e], stored[e])
    BY <1>2, <1>3, <2>2, <2>4, ActKeepsPages DEF Later
  <2>6. \A q \in Parties : ~ConfirmedBy(deal', q)
    BY <2>2, <2>4 DEF ConfirmedBy, Nobody, None
  <2>7. DevicesType'
    BY <2>2, <2>3, <2>5 DEF DevicesInv, DevicesType
  <2>8. Negotiation'
    BY <2>2, <2>6 DEF Negotiation, BothConfirmed, Parties
  <2>9. Standing'
    BY <2>2, <2>3, <2>6 DEF Standing
  <2>10. FrozenAsSaid'
    BY <2>2, <2>3 DEF DevicesInv, FrozenAsSaid
  <2> QED
    BY <2>3, <2>5, <2>7, <2>8, <2>9, <2>10 DEF DevicesInv
<1> QED
  BY <1>4, <1>5

-----------------------------------------------------------------------------
(* The whole client.                                                       *)

LEMMA InitKeeps == Init => CaptureInv /\ DevicesInv
<1> SUFFICES ASSUME Init PROVE CaptureInv /\ DevicesInv
  OBVIOUS
<1>1. CaptureInv
  BY CaptureInitInv DEF Init
<1>2. deal = NewDeal /\ accepted = {} /\ frozenAs = "unfrozen" /\ step = "idle"
      /\ pages = [d \in Phones |-> NoPage]
      /\ stored = [d \in Phones |-> IF d = FirstPhone THEN Parties ELSE {}]
  BY DEF Init, DevicesInit, CaptureInit
<1>3. NewDeal \in DealType /\ NewDeal.state = "Draft"
  <2>1. Nobody \in [Parties -> MaybeNat] /\ None \in MaybeNat /\ "Draft" \in States
    BY DEF Nobody, MaybeNat, None, States
  <2>2. NoHash \in [sha256 : Terms \cup {NoTerms}]
    BY DEF NoHash, CanonicalHash
  <2> QED
    BY <2>1, <2>2 DEF NewDeal, DealType
<1>4. DevicesType
  BY <1>2, <1>3, NothingShown DEF DevicesType
<1>5. Negotiation /\ Standing /\ FrozenAsSaid
  BY <1>2, <1>3 DEF Negotiation, Standing, FrozenAsSaid
<1>6. ASSUME NEW d \in Phones PROVE Shows(pages[d], stored[d], deal) /\ Holds(d, pages[d], stored[d])
  BY <1>2, NothingShown DEF Shows, Holds
<1> QED
  BY <1>1, <1>4, <1>5, <1>6 DEF DevicesInv

\* A page that has been left stays left, and is left by a proposal only.
LEMMA CaptureLeaves ==
    ASSUME CaptureInv, CaptureNext
    PROVE  /\ step = "left" => step' = "left" /\ session.closed
           /\ step' = "left" => step = "left" \/ (session'.closed /\ ~session.closed)
<1>1. step = "left" => session.closed
  BY DEF CaptureInv, PageInStep
<1>2. CASE StartListening \/ ListenAgain \/ StopListening \/ Speak \/ Recognize
           \/ RecognizerEnds \/ TypeLine \/ DeleteLine
  <2>1. step' = step
    BY <1>2 DEF StartListening, ListenAgain, StopListening, Speak, Recognize, RecognizerEnds,
                TypeLine, DeleteLine, request
  <2> QED
    BY <1>1, <2>1
<1>3. CASE PressRead \/ Upload \/ AppendLines \/ UploadFails \/ AppendFails \/ ProposeFails
           \/ Refused \/ Reload \/ LateRequest
  BY <1>1, <1>3 DEF PressRead, Press, Upload, AppendLines, Answered, UploadFails, AppendFails,
                    ProposeFails, Fail, Refused, Reload, LateRequest, request
<1>4. CASE Propose
  BY <1>4, ProposeKeeps DEF Propose, CaptureInv, PageInStep
<1> QED
  BY <1>2, <1>3, <1>4 DEF CaptureNext

LEMMA CaptureKeeps ==
    ASSUME CaptureInv, DevicesInv, Capture
    PROVE  CaptureInv' /\ DevicesInv'
<1>1. CaptureInv'
  BY CaptureStepKeeps DEF Capture
<1>2. /\ step = "left" => step' = "left" /\ session.closed
      /\ step' = "left" => step = "left" \/ (session'.closed /\ ~session.closed)
  BY CaptureLeaves DEF Capture
<1>3. UNCHANGED <<stored, pages, frozenAs, accepted>>
  BY DEF Capture
<1>4. CASE UNCHANGED deal /\ ~(session'.closed /\ ~session.closed)
  <2>1. DevicesType' /\ Standing' /\ FrozenAsSaid'
    BY <1>3, <1>4 DEF DevicesInv, DevicesType, Standing, FrozenAsSaid, OneDeviceIsLabelled
  <2>2. Negotiation'
    BY <1>2, <1>3, <1>4 DEF DevicesInv, Negotiation
  <2>3. \A d \in Phones : Shows(pages'[d], stored'[d], deal') /\ Holds(d, pages'[d], stored'[d])
    BY <1>3, <1>4 DEF DevicesInv
  <2> QED
    BY <1>1, <2>1, <2>2, <2>3 DEF DevicesInv
<1>5. CASE session'.closed /\ ~session.closed
  <2>1. /\ deal.state = "Draft" /\ deal' \in DealType /\ deal'.state = "PendingAgreement"
        /\ deal'.termsRevision = 0 /\ deal'.confirmed = Nobody
    <3>1. PICK x \in Terms :
             \E t \in ProposeExtraction(deal, [name |-> "ProposeExtraction", terms |-> x],
                                        "system", 0) : deal' = t.deal
      BY <1>5 DEF Capture, DealFollows
    <3>2. PICK cmd : cmd = [name |-> "ProposeExtraction", terms |-> x]
      OBVIOUS
    <3>3. PICK t \in ProposeExtraction(deal, cmd, "system", 0) : deal' = t.deal
      BY <3>1, <3>2
    <3>4. cmd.name = "ProposeExtraction"
      BY <3>2
    <3> QED
      BY <3>3, <3>4, ProposeEffect DEF DevicesInv, DevicesType
  <2>2. pages = [d \in Phones |-> NoPage] /\ accepted = {} /\ frozenAs # "independent"
    BY <1>2, <1>5, <2>1 DEF DevicesInv, Negotiation, Standing, FrozenAsSaid
  <2>3. \A q \in Parties : ~ConfirmedBy(deal', q)
    BY <2>1 DEF ConfirmedBy, Nobody, None
  <2>4. DevicesType'
    BY <1>3, <2>1 DEF DevicesInv, DevicesType
  <2>5. Negotiation'
    BY <1>3, <2>1, <2>2, <2>3 DEF Negotiation, BothConfirmed, Parties
  <2>6. Standing' /\ FrozenAsSaid'
    BY <1>3, <2>1, <2>2, <2>3 DEF Standing, FrozenAsSaid
  <2>7. ASSUME NEW d \in Phones
        PROVE  Shows(pages'[d], stored'[d], deal') /\ Holds(d, pages'[d], stored'[d])
    <3>1. Holds(d, pages[d], stored[d]) /\ pages[d] = NoPage
      BY <2>2 DEF DevicesInv
    <3> QED
      BY <1>3, <3>1, NothingShown DEF Shows, Holds
  <2> QED
    BY <1>1, <2>4, <2>5, <2>6, <2>7 DEF DevicesInv
<1> QED
  BY <1>4, <1>5 DEF Capture, DealFollows

LEMMA PhoneKeeps ==
    ASSUME CaptureInv, DevicesInv, Phone
    PROVE  CaptureInv' /\ DevicesInv'
<1>1. UNCHANGED captureVars
  BY DEF Phone
<1>2. CaptureInv'
  BY <1>1 DEF CaptureInv, CaptureType, PageInStep, Numbered, Counted, CopySet, Undisturbed,
              Talk, captureVars, page, hooks, request, trouble
<1>3. step = "left" /\ step' = "left"
  BY <1>1 DEF Phone, captureVars, request
<1>4. PICK d \in Phones :
         \/ OpenPage(d) \/ ClosePage(d) \/ Load(d) \/ Loaded(d) \/ LoadFails(d)
         \/ Switch(d) \/ NotYet(d) \/ Confirm(d) \/ Correct(d)
  BY DEF Phone, DevicesNext
<1>5. DevicesInv'
  BY <1>3, <1>4, OpenKeeps, CloseKeeps, LoadKeeps, LoadedKeeps, LoadFailsKeeps, SwitchKeeps,
     NotYetKeeps, ConfirmKeeps, CorrectKeeps
<1> QED
  BY <1>2, <1>5

LEMMA StutterKeeps ==
    ASSUME CaptureInv, DevicesInv, UNCHANGED vars
    PROVE  CaptureInv' /\ DevicesInv'
<1>1. CaptureInv'
  BY DEF CaptureInv, CaptureType, PageInStep, Numbered, Counted, CopySet, Undisturbed, Talk,
         vars, captureVars, page, hooks, request, trouble
<1>2. UNCHANGED <<deal, stored, pages, frozenAs, accepted, step>>
  BY DEF vars, captureVars, deviceVars, request
<1>3. DevicesType' /\ Negotiation' /\ Standing' /\ FrozenAsSaid'
  BY <1>2 DEF DevicesInv, DevicesType, Negotiation, Standing, FrozenAsSaid, OneDeviceIsLabelled
<1>4. \A d \in Phones : Shows(pages'[d], stored'[d], deal') /\ Holds(d, pages'[d], stored'[d])
  BY <1>2 DEF DevicesInv
<1> QED
  BY <1>1, <1>3, <1>4 DEF DevicesInv

LEMMA Inductive == Spec => [](CaptureInv /\ DevicesInv)
<1>1. CaptureInv /\ DevicesInv /\ [Next]_vars => (CaptureInv /\ DevicesInv)'
  BY CaptureKeeps, PhoneKeeps, StutterKeeps DEF Next
<1> QED
  BY <1>1, InitKeeps, PTL DEF Spec

\* HeardIsKept: no pause, failed reading or reload loses a phrase that got to the
\* screen, however many phrases and mishaps there are.
THEOREM HeardStays == Spec => []HeardIsKept
<1>1. CaptureInv => HeardIsKept
  BY DEF CaptureInv, PageInStep, HeardIsKept
<1> QED
  BY <1>1, Inductive, PTL

\* ReadOncePerAttempt: however many requests fail, are answered late or outlive their
\* page, every retry adds at most one copy of a line to what is read, and a reading
\* without mishaps is of the lines of the press.
THEOREM ReadsArePaidFor == Spec => []ReadOncePerAttempt
<1>1. CaptureInv => ReadOncePerAttempt
  <2> SUFFICES ASSUME CaptureInv PROVE ReadOncePerAttempt
    OBVIOUS
  <2>1. step = "propose" /\ mishaps = 0 => session.transcript = toSend
    BY DEF CaptureInv, Undisturbed
  <2>2. session.transcript \in Seq(Int) /\ mishaps \in Nat
    BY DEF CaptureInv, CaptureType, SessionRow
  <2>3. ASSUME ~session.closed, NEW x \in ToSet(session.transcript) PROVE Copies(x) <= mishaps + 1
    <3>1. x \in Int
      BY <2>2 DEF ToSet
    <3>2. Copies(x) = Cardinality(CopySet(x, session.transcript))
      BY DEF Copies, CopySet
    <3>3. Copies(x) \in Nat
      BY <2>2, <3>1, <3>2, LinesAppended
    <3>4. Copies(x) + One(late.sent # << >>) <= mishaps + One(step = "propose")
      BY <2>3, <3>1, <3>2 DEF CaptureInv, Counted
    <3>5. One(late.sent # << >>) \in {0, 1} /\ One(step = "propose") \in {0, 1}
      BY DEF One
    <3> QED
      BY <2>2, <3>3, <3>4, <3>5
  <2> QED
    BY <2>1, <2>3 DEF ReadOncePerAttempt
<1> QED
  BY <1>1, Inductive, PTL

\* TapeHasTheTalk: however the recognizer is paused and resumed, an undisturbed
\* reading is of nothing spoken that the recording does not have.
THEOREM SpokenIsTaped == Spec => []TapeHasTheTalk
<1>1. CaptureInv => TapeHasTheTalk
  BY DEF CaptureInv, CaptureType, Undisturbed, TapeHasTheTalk, Talk, ToSet
<1> QED
  BY <1>1, Inductive, PTL

\* ActsAsShown: on any number of phones, whatever loads, switches and taps cross,
\* nobody confirms in the other's name or other terms than the screen showed.
THEOREM NobodyElsesName == Spec => []ActsAsShown
<1>1. DevicesInv => ActsAsShown
  BY DEF DevicesInv, Standing, ActsAsShown
<1> QED
  BY <1>1, Inductive, PTL

\* OneDeviceIsLabelled: a receipt that calls the confirmations independent has two
\* of them, by both parties, from two devices.
THEOREM IndependentIsTwoDevices == Spec => []OneDeviceIsLabelled
<1>1. DevicesInv => OneDeviceIsLabelled
  BY DEF DevicesInv, FrozenAsSaid, OneDeviceIsLabelled
<1> QED
  BY <1>1, Inductive, PTL
=============================================================================
