---------------------------- MODULE RedactStream ----------------------------
(***************************************************************************)
(* The redactor of a text that arrives in chunks: a registry of sensitive  *)
(* segments (redact/registry.go) and the Stream that holds back the end of *)
(* the text until no segment can begin in it (redact/stream.go), as        *)
(* DrainStderr (appserver/process.go) uses them on an app server's         *)
(* standard error while responses register what the users answer.          *)
(*                                                                         *)
(* The text is not spelled out.  A position is an offset from its          *)
(* beginning, and occurrences says which segment is found at which         *)
(* position; a segment is a model value with a length.  Redaction by       *)
(* regular expressions, which only masks more, is left out.                *)
(***************************************************************************)
EXTENDS Naturals, FiniteSets

CONSTANTS
  Segments,     \* values that may be registered
  Length,       \* segment -> its bytes
  MinSegment,   \* minSensitiveValueBytes: shorter values are not registered
  MaxSegment,   \* maxSensitiveSegmentBytes: longer values are split
  MaxCarry,     \* maxStreamingCarryBytes
  TextLength    \* bound: the bytes of the text

ASSUME LengthAssumption == Length \in [Segments -> 1..MaxSegment]
ASSUME CarryAssumption == /\ MinSegment \in Nat /\ MinSegment >= 2
                          /\ MaxSegment \in Nat
                          /\ MaxCarry \in Nat
                          /\ MaxSegment <= MaxCarry
ASSUME TextAssumption == TextLength \in Nat

VARIABLES
  registered,   \* the segments of the registry
  since,        \* segment -> where the text was when it was registered
  occurrences,  \* <<segment, position>>: where the text received has a segment
  received,     \* bytes received
  base,         \* where the carry begins
  published,    \* base + carryPublished: where publishing goes on
  raw,          \* positions published unmasked
  pc,           \* "idle", "writing" (between the two reads of the registry), "closed"
  hold          \* bytes Write decided to hold back

registryVars == <<registered, since>>
textVars     == <<occurrences, received, base, published, raw, pc, hold>>
redactVars   == <<registryVars, textVars>>

Occurrences == Segments \X (0..TextLength)

RedactTypeOK ==
  /\ registered \subseteq Segments
  /\ since \in [Segments -> 0..TextLength]
  /\ occurrences \subseteq Occurrences
  /\ received \in 0..TextLength
  /\ base \in 0..TextLength
  /\ published \in 0..TextLength
  /\ raw \subseteq 0..TextLength
  /\ pc \in {"idle", "writing", "closed"}
  /\ hold \in 0..MaxCarry

RedactInit == /\ registered = {}
              /\ since = [s \in Segments |-> 0]
              /\ occurrences = {}
              /\ received = 0
              /\ base = 0
              /\ published = 0
              /\ raw = {}
              /\ pc = "idle"
              /\ hold = 0

-----------------------------------------------------------------------------
\* An occurrence is <<segment, position>>; Covered are the positions it takes.
End(o)     == o[2] + Length[o[1]]
Covered(o) == o[2]..(End(o) - 1)

\* Registry.Add.  A segment that is known keeps its place.
Sensitive(values) == {s \in values \cap Segments : Length[s] >= MinSegment}
Register(values) ==
  LET added == Sensitive(values) \ registered
  IN /\ registered' = registered \cup added
     /\ since' = [s \in Segments |-> IF s \in added THEN received ELSE since[s]]

-----------------------------------------------------------------------------
\* holdBytes: one byte less than the longest segment, capped; nothing when
\* nothing is registered.
HoldBytes ==
  IF registered = {} THEN 0
  ELSE LET longest == CHOOSE n \in {Length[s] : s \in registered} :
                        \A s \in registered : Length[s] <= n
       IN IF longest - 1 <= MaxCarry THEN longest - 1 ELSE MaxCarry

\* sensitiveIntervals: what of the registry, as it is now, the window
\* base..received-1 contains.
SensitiveIntervals ==
  {o \in occurrences : o[1] \in registered /\ base <= o[2] /\ End(o) <= received}

\* A mutant of SafePublishEnd: whatever straddles it.
PlainPublishEnd(intervals, end) == end

\* safePublishEnd: the first position from end on that no interval straddles.
Straddled(intervals, end) == \E o \in intervals : o[2] < end /\ end < End(o)
SafePublishEnd(intervals, end) ==
  CHOOSE e \in end..received :
    /\ ~ Straddled(intervals, e)
    /\ \A x \in end..received : x < e => Straddled(intervals, x)

\* redactRange: from first to last - 1, an interval is replaced by a marker.
RedactRange(intervals, first, last) ==
  {p \in 0..TextLength : /\ first <= p /\ p < last
                         /\ \A o \in intervals : p \notin Covered(o)}

-----------------------------------------------------------------------------
\* Stream.Write, its first step: the chunk is appended to the carry and the
\* longest registered segment is read.  new are the occurrences the chunk
\* completes.
WriteStarts(n, new) ==
  /\ pc = "idle"
  /\ received + n <= TextLength
  /\ \A o \in new : received < End(o) /\ End(o) <= received + n
  /\ received' = received + n
  /\ occurrences' = occurrences \cup new
  /\ hold' = HoldBytes
  /\ pc' = "writing"
  /\ UNCHANGED <<registryVars, base, published, raw>>

\* Nothing registered: the window is published as it is.
PublishAll ==
  /\ hold = 0
  /\ raw' = raw \cup RedactRange({}, base, received)
  /\ base' = received
  /\ published' = received

\* Less than what must be held back: the window is kept.
KeepAll ==
  /\ hold # 0
  /\ hold >= received - base
  /\ UNCHANGED <<raw, base, published>>

\* Otherwise all but the carry is published, and more if a segment straddles.
PublishSafely ==
  LET intervals  == SensitiveIntervals
      carryStart == received - hold
      publishEnd == SafePublishEnd(intervals, carryStart)
  IN /\ hold # 0
     /\ hold < received - base
     /\ raw' = raw \cup RedactRange(intervals, published, publishEnd)
     /\ base' = carryStart
     /\ published' = IF published <= publishEnd THEN publishEnd ELSE published

WritePublishes ==
  /\ pc = "writing"
  /\ PublishAll \/ KeepAll \/ PublishSafely
  /\ pc' = "idle"
  /\ UNCHANGED <<registryVars, occurrences, received, hold>>

\* Stream.Flush, at the end of the text or when the connection ends.
Flush ==
  /\ pc = "idle"
  /\ raw' = raw \cup RedactRange(SensitiveIntervals, published, received)
  /\ base' = received
  /\ published' = received
  /\ pc' = "closed"
  /\ UNCHANGED <<registryVars, occurrences, received, hold>>

-----------------------------------------------------------------------------
\* A text in which a secret occurs only where it has been registered before:
\* what a process writes that learns secrets from responses which register them
\* first.  Values that are too short to be registered may occur anywhere.
Secret(o)  == Length[o[1]] >= MinSegment
Known(new) == \A o \in new : Secret(o) => o[1] \in registered /\ since[o[1]] <= o[2]

Add(values) == Register(values) /\ UNCHANGED textVars

RedactNext ==
  \/ \E values \in SUBSET Segments : Add(values)
  \/ \E n \in 1..TextLength, new \in SUBSET Occurrences :
       Known(new) /\ WriteStarts(n, new)
  \/ WritePublishes
  \/ Flush

RedactSpec == RedactInit /\ [][RedactNext]_redactVars

-----------------------------------------------------------------------------
\* No byte of a secret is published: wherever the text has a secret that is
\* long enough to be registered, all of it is masked, however the text is cut
\* into chunks, whatever else occurs across it and whenever it was registered
\* (Stream.Write and Flush, redact/stream.go).
SecretsStayHidden ==
  \A o \in occurrences : Secret(o) => raw \cap Covered(o) = {}
=============================================================================
