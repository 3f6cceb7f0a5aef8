------------------------- MODULE PendingSessionProofs -------------------------
(***************************************************************************)
(* Theorems of RedactStream, for every text, and of PendingSession, for    *)
(* every request and every response. A secret that a user answers with is  *)
(* registered before the app server is told: what it may repeat is what    *)
(* the first part assumes of a text, so that no secret reaches the log.    *)
(* And every request can be refused, what is written is what was shown,    *)
(* nothing blocked is granted, and the gateway takes what the SDK builds.  *)
(***************************************************************************)
EXTENDS PendingSession, TLAPS, WellFoundedInduction, FiniteSetTheorems

-----------------------------------------------------------------------------
(***************************************************************************)
(* The redacting writer: no secret of a text that only repeats what was    *)
(* registered before is ever published, whatever the segments, their       *)
(* lengths and the chunks.                                                 *)
(*                                                                         *)
(* A secret that lies before the carry is published as a whole, masked     *)
(* (its end is not beyond the published part); one that is still to come   *)
(* cannot begin before the carry, as the carry is one byte less than the   *)
(* longest segment, or the segment was registered after the carry began.   *)
(***************************************************************************)
\* The carry begins before what is published ends, and is masked so far.
Window == /\ base <= published /\ published <= received
          /\ \A x \in raw : x < base

\* A registered segment is long enough and was registered at some point.
RegisteredOnce == \A s \in registered :
  Length[s] >= MinSegment /\ since[s] <= received

\* Every secret of the text was registered before it was written, is masked,
\* and published to its end if it begins before the carry.
Masked(o) == /\ o[1] \in registered /\ since[o[1]] <= o[2]
             /\ End(o) <= received
             /\ raw \cap Covered(o) = {}
             /\ o[2] < base => End(o) <= published
AllMasked == \A o \in occurrences : Secret(o) => Masked(o)

\* No secret that ends beyond the text received can begin before the carry.
CarryLongEnough ==
  pc # "closed" => \A s \in registered :
                     base + Length[s] <= received + 1 \/ base <= since[s]

\* What Write decided to hold back is enough for what was registered before.
HoldLongEnough ==
  pc = "writing" => \A s \in registered :
                      Length[s] - 1 <= hold \/ since[s] = received

StreamInv == /\ RedactTypeOK
             /\ Window
             /\ RegisteredOnce
             /\ AllMasked
             /\ CarryLongEnough
             /\ HoldLongEnough

-----------------------------------------------------------------------------

\* A nonempty set of naturals has a least element.
LEMMA LeastNatural ==
  ASSUME NEW S, S \subseteq Nat, S # {}
  PROVE  \E x \in S : \A y \in S : x <= y
<1> DEFINE Below == {p \in Nat \X Nat : p[1] < p[2]}
<1>1. OpToRel(<, Nat) = Below
  BY Zenon DEF OpToRel
<1>2. IsWellFoundedOn(Below, Nat)
  BY <1>1, NatLessThanWellFounded, Zenon
<1>3. \E x \in S : \A y \in S : ~ (<<y, x>> \in Below)
  BY <1>2, WFMin, Zenon
<1>4. PICK x \in S : \A y \in S : ~ (<<y, x>> \in Below)
  BY <1>3, Zenon
<1>5. ASSUME NEW y \in S PROVE x <= y
  <2>1. x \in Nat /\ y \in Nat
    BY SMT
  <2>2. y < x => <<y, x>> \in Below
    BY <2>1, Zenon
  <2>3. ~ (y < x)
    BY <1>4, <2>2, Zenon
  <2> QED BY <2>1, <2>3, SMT
<1> QED BY <1>5, Zenon

\* A nonempty, bounded set of naturals has a greatest element.
LEMMA GreatestNatural ==
  ASSUME NEW S, S \subseteq Nat, S # {}, NEW bound \in Nat, \A x \in S : x <= bound
  PROVE  \E x \in S : \A y \in S : y <= x
<1> DEFINE T == {bound - x : x \in S}
<1>1. T \subseteq Nat /\ T # {}
  <2>1. \A x \in S : bound - x \in Nat
    BY SMT
  <2> QED BY <2>1, Zenon
<1>2. PICK t \in T : \A u \in T : t <= u
  BY <1>1, LeastNatural, Zenon
<1>3. PICK x \in S : t = bound - x
  BY <1>2, Zenon
<1>4. \A y \in S : bound - y \in T
  BY Zenon
<1>5. \A y \in S : y <= x
  BY <1>2, <1>3, <1>4, SMT
<1> QED BY <1>5, Zenon

\* The bytes of an occurrence.
LEMMA OccurrenceBounds ==
  ASSUME NEW o \in Occurrences
  PROVE  /\ o[1] \in Segments
         /\ o[2] \in Nat
         /\ Length[o[1]] \in Nat \ {0}
         /\ End(o) \in Nat
         /\ End(o) = o[2] + Length[o[1]]
         /\ \A x \in Nat : x \in Covered(o) <=> o[2] <= x /\ x < End(o)
<1>1. o[1] \in Segments /\ o[2] \in 0..TextLength
  BY SMT DEF Occurrences
<1>2. Length[o[1]] \in 1..MaxSegment
  BY <1>1, LengthAssumption, Zenon
<1>3. o[2] \in Nat /\ Length[o[1]] \in Nat \ {0}
  BY <1>1, <1>2, CarryAssumption, TextAssumption, SMT
<1> QED BY <1>1, <1>3, SMT DEF End, Covered

\* holdBytes holds back one byte less than any registered segment.
LEMMA HoldBytesEnough ==
  ASSUME registered \subseteq Segments
  PROVE  /\ HoldBytes \in 0..MaxCarry
         /\ \A s \in registered : Length[s] - 1 <= HoldBytes
<1> DEFINE Lengths == {Length[s] : s \in registered}
           longest == CHOOSE n \in Lengths : \A s \in registered : Length[s] <= n
<1>1. CASE registered = {}
  BY <1>1, CarryAssumption, SMT DEF HoldBytes
<1>2. CASE registered # {}
  <2>1. \A s \in registered : Length[s] \in 1..MaxSegment
    BY LengthAssumption, Zenon
  <2>2. Lengths \subseteq Nat /\ Lengths # {} /\ \A n \in Lengths : n <= MaxSegment
    BY <1>2, <2>1, CarryAssumption, SMT
  <2>3. PICK m \in Lengths : \A n \in Lengths : n <= m
    BY <2>2, CarryAssumption, GreatestNatural, Zenon
  <2>4. \A s \in registered : Length[s] <= m
    BY <2>3, Zenon
  <2>5. longest \in Lengths /\ \A s \in registered : Length[s] <= longest
    BY <2>4, Zenon
  <2>6. longest \in 1..MaxSegment
    BY <2>1, <2>5, Zenon
  <2>7. HoldBytes = IF longest - 1 <= MaxCarry THEN longest - 1 ELSE MaxCarry
    BY <1>2, Zenon DEF HoldBytes
  <2>8. HoldBytes = longest - 1 /\ HoldBytes \in 0..MaxCarry
    BY <2>6, <2>7, CarryAssumption, SMT
  <2>9. ASSUME NEW s \in registered PROVE Length[s] - 1 <= HoldBytes
    <3>1. Length[s] <= longest /\ Length[s] \in 1..MaxSegment
      BY <2>1, <2>5, <2>9, Zenon
    <3> HIDE DEF longest
    <3> QED BY <3>1, <2>6, <2>8, CarryAssumption, SMT
  <2> QED BY <2>8, <2>9, Zenon
<1> QED BY <1>1, <1>2, Zenon

\* safePublishEnd ends, at the first position that no interval straddles.
LEMMA SafePublishEndIsSafe ==
  ASSUME received \in Nat, NEW end \in Nat, end <= received,
         NEW intervals, \A o \in intervals : End(o) \in Nat /\ End(o) <= received
  PROVE  /\ SafePublishEnd(intervals, end) \in end..received
         /\ ~ Straddled(intervals, SafePublishEnd(intervals, end))
         /\ \A x \in end..received :
              x < SafePublishEnd(intervals, end) => Straddled(intervals, x)
<1> DEFINE Safe == {e \in end..received : ~ Straddled(intervals, e)}
           First(e) == /\ ~ Straddled(intervals, e)
                       /\ \A x \in end..received : x < e => Straddled(intervals, x)
<1>1. ~ Straddled(intervals, received)
  BY SMT DEF Straddled
<1>2. received \in Safe
  BY <1>1, SMT
<1>3. Safe \subseteq Nat /\ Safe # {}
  BY <1>2, SMT
<1>4. PICK e \in Safe : \A y \in Safe : e <= y
  BY <1>3, LeastNatural, Zenon
<1>5. First(e)
  <2>1. ASSUME NEW x \in end..received, x < e PROVE Straddled(intervals, x)
    <3>1. ~ (e <= x)
      BY <1>3, <2>1, SMT
    <3> QED BY <1>4, <2>1, <3>1, Zenon
  <2> QED BY <1>4, <2>1, Zenon
<1>6. \E x \in end..received : First(x)
  BY <1>4, <1>5, Zenon
<1>7. SafePublishEnd(intervals, end) = CHOOSE x \in end..received : First(x)
  BY Zenon DEF SafePublishEnd
<1> QED BY <1>6, <1>7, Zenon

-----------------------------------------------------------------------------
\* Initially nothing is registered, and there is no text.
LEMMA InitStreamInv == RedactInit => StreamInv
<1> SUFFICES ASSUME RedactInit PROVE StreamInv
  OBVIOUS
<1>1. RedactTypeOK
  BY CarryAssumption, TextAssumption, SMT DEF RedactInit, RedactTypeOK
<1>2. Window /\ RegisteredOnce /\ AllMasked /\ CarryLongEnough /\ HoldLongEnough
  BY SMT DEF RedactInit, Window, RegisteredOnce, AllMasked, CarryLongEnough,
             HoldLongEnough
<1> QED BY <1>1, <1>2, Zenon DEF StreamInv

\* A segment that is registered now has its place at the end of the text.
LEMMA AddKeepsInv ==
  ASSUME StreamInv, NEW values, Add(values)
  PROVE  StreamInv'
<1> DEFINE added == Sensitive(values) \ registered
<1> USE DEF StreamInv
<1>1. /\ registered' = registered \cup added
      /\ since' = [s \in Segments |-> IF s \in added THEN received ELSE since[s]]
      /\ UNCHANGED textVars
  BY Zenon DEF Add, Register
<1>2. added \subseteq Segments /\ \A s \in added : Length[s] >= MinSegment
  BY Zenon DEF Sensitive
<1>3. UNCHANGED <<occurrences, received, base, published, raw, pc, hold>>
  BY <1>1, Zenon DEF textVars
<1>4. /\ \A s \in added : since'[s] = received
      /\ \A s \in registered : since'[s] = since[s]
  BY <1>1, <1>2, Zenon DEF RedactTypeOK
<1>5. RedactTypeOK'
  BY <1>1, <1>2, <1>3, SMT DEF RedactTypeOK
<1>6. Window'
  BY <1>3, Zenon DEF Window
<1>7. RegisteredOnce'
  <2>1. received <= received
    BY TextAssumption, SMT DEF RedactTypeOK
  <2> QED BY <1>1, <1>2, <1>3, <1>4, <2>1, Zenon DEF RegisteredOnce
<1>8. AllMasked'
  BY <1>1, <1>3, <1>4, Zenon DEF AllMasked, Masked, End, Covered, Secret
<1>9. CarryLongEnough'
  <2>1. base <= received
    BY TextAssumption, SMT DEF RedactTypeOK, Window
  <2> QED BY <1>1, <1>3, <1>4, <2>1, Zenon DEF CarryLongEnough
<1>10. HoldLongEnough'
  BY <1>1, <1>3, <1>4, Zenon DEF HoldLongEnough
<1> QED BY <1>5, <1>6, <1>7, <1>8, <1>9, <1>10, Zenon

\* A secret that arrives does not begin before the carry.
LEMMA WriteStartsKeepsInv ==
  ASSUME StreamInv, NEW n \in 1..TextLength, NEW new \in SUBSET Occurrences,
         Known(new), WriteStarts(n, new)
  PROVE  StreamInv'
<1> USE DEF StreamInv
<1>1. /\ pc = "idle" /\ pc' = "writing"
      /\ received' = received + n /\ received' <= TextLength
      /\ occurrences' = occurrences \cup new
      /\ hold' = HoldBytes
      /\ \A o \in new : received < End(o) /\ End(o) <= received'
  BY Zenon DEF WriteStarts
<1>2. UNCHANGED <<registered, since, base, published, raw>>
  BY Zenon DEF WriteStarts, registryVars
<1>3. /\ received \in Nat /\ received' \in Nat /\ received < received'
      /\ base \in Nat /\ published \in Nat /\ TextLength \in Nat
  BY <1>1, TextAssumption, SMT DEF RedactTypeOK
<1>4. HoldBytes \in 0..MaxCarry /\ \A s \in registered : Length[s] - 1 <= HoldBytes
  BY HoldBytesEnough, Zenon DEF RedactTypeOK
<1>5. \A s \in registered : Length[s] \in Nat /\ since[s] \in Nat
  <2>1. \A s \in registered : Length[s] \in 1..MaxSegment /\ since[s] \in 0..TextLength
    BY LengthAssumption, Zenon DEF RedactTypeOK
  <2> QED BY <2>1, CarryAssumption, TextAssumption, SMT
<1>6. RedactTypeOK'
  <2>1. received' \in 0..TextLength
    BY <1>1, <1>3, SMT
  <2> QED BY <1>1, <1>2, <1>4, <2>1, Zenon DEF RedactTypeOK
<1>7. Window'
  BY <1>2, <1>3, SMT DEF Window
<1>8. RegisteredOnce'
  BY <1>2, <1>3, <1>5, SMT DEF RegisteredOnce
<1>9. AllMasked'
  <2>1. ASSUME NEW o \in occurrences, Secret(o) PROVE Masked(o)'
    <3>1. Masked(o) /\ End(o) \in Nat
      BY <2>1, OccurrenceBounds, Zenon DEF AllMasked, RedactTypeOK
    <3>2. End(o) <= received'
      BY <3>1, <1>3, SMT DEF Masked
    <3> QED BY <1>2, <3>1, <3>2, Zenon DEF Masked, End, Covered
  <2>2. ASSUME NEW o \in new, Secret(o) PROVE Masked(o)'
    <3>1. /\ o[1] \in registered /\ since[o[1]] <= o[2]
          /\ received < End(o) /\ End(o) <= received'
      BY <1>1, <2>2, Zenon DEF Known
    <3>2. /\ o[2] \in Nat /\ Length[o[1]] \in Nat /\ End(o) = o[2] + Length[o[1]]
          /\ \A x \in Nat : x \in Covered(o) <=> o[2] <= x /\ x < End(o)
      BY OccurrenceBounds, Zenon
    <3>3. base <= o[2]
      <4>1. base + Length[o[1]] <= received + 1 \/ base <= since[o[1]]
        BY <1>1, <3>1, Zenon DEF CarryLongEnough
      <4> QED BY <1>3, <1>5, <3>1, <3>2, <4>1, SMT
    <3>4. raw \cap Covered(o) = {}
      <4>1. ASSUME NEW x \in raw PROVE x \notin Covered(o)
        <5>1. x \in Nat /\ x < base
          BY TextAssumption, SMT DEF RedactTypeOK, Window
        <5>2. ~ (o[2] <= x)
          BY <1>3, <3>2, <3>3, <5>1, SMT
        <5> QED BY <3>2, <5>1, <5>2, Zenon
      <4> QED BY <4>1, Zenon
    <3>5. ~ (o[2] < base)
      BY <1>3, <3>2, <3>3, SMT
    <3> QED BY <1>2, <3>1, <3>4, <3>5, Zenon DEF Masked, End, Covered
  <2> QED BY <1>1, <2>1, <2>2, Zenon DEF AllMasked, Secret
<1>10. CarryLongEnough'
  <2>1. ASSUME NEW s \in registered
        PROVE  base + Length[s] <= received' + 1 \/ base <= since[s]
    <3>1. base + Length[s] <= received + 1 \/ base <= since[s]
      BY <1>1, Zenon DEF CarryLongEnough
    <3> QED BY <1>3, <1>5, <3>1, SMT
  <2> QED BY <1>2, <2>1, Zenon DEF CarryLongEnough
<1>11. HoldLongEnough'
  BY <1>1, <1>2, <1>4, Zenon DEF HoldLongEnough
<1> QED BY <1>6, <1>7, <1>8, <1>9, <1>10, <1>11, Zenon

-----------------------------------------------------------------------------
\* What is published of the window, from where publishing goes on, has no byte
\* of any secret.
LEMMA PublishedIsMasked ==
  ASSUME StreamInv, NEW last \in Nat, NEW o \in occurrences, Secret(o),
         NEW x \in RedactRange(SensitiveIntervals, published, last)
  PROVE  x \notin Covered(o)
<1> USE DEF StreamInv
<1>1. x \in 0..TextLength /\ published <= x /\ \A i \in SensitiveIntervals : x \notin Covered(i)
  BY Zenon DEF RedactRange
<1>2. /\ o[2] \in Nat /\ End(o) \in Nat
      /\ \A y \in Nat : y \in Covered(o) <=> o[2] <= y /\ y < End(o)
  BY OccurrenceBounds, Zenon DEF RedactTypeOK
<1>3. x \in Nat /\ base \in Nat /\ published \in Nat
  BY <1>1, TextAssumption, SMT DEF RedactTypeOK
<1>4. CASE o[2] < base
  <2>1. End(o) <= published
    BY <1>4, Zenon DEF AllMasked, Masked
  <2>2. ~ (x < End(o))
    BY <1>1, <1>2, <1>3, <2>1, SMT
  <2> QED BY <1>2, <1>3, <2>2, Zenon
<1>5. CASE ~ (o[2] < base)
  <2>1. base <= o[2]
    BY <1>2, <1>3, <1>5, SMT
  <2>2. o[1] \in registered /\ End(o) <= received
    BY Zenon DEF AllMasked, Masked
  <2>3. o \in SensitiveIntervals
    BY <2>1, <2>2, Zenon DEF SensitiveIntervals
  <2> QED BY <1>1, <2>3, Zenon
<1> QED BY <1>4, <1>5, Zenon

\* With nothing to hold back nothing is registered but what was registered
\* after the chunk came: there is no secret in the text.
LEMMA PublishAllKeepsInv ==
  ASSUME StreamInv, pc = "writing", PublishAll, pc' = "idle",
         UNCHANGED <<registryVars, occurrences, received, hold>>
  PROVE  StreamInv'
<1> USE DEF StreamInv
<1>1. /\ hold = 0 /\ base' = received /\ published' = received
      /\ raw' = raw \cup RedactRange({}, base, received)
      /\ UNCHANGED <<registered, since, occurrences, received, hold>>
  BY Zenon DEF PublishAll, registryVars
<1>2. received \in Nat /\ base \in Nat /\ base <= received
  BY TextAssumption, SMT DEF RedactTypeOK, Window
<1>3. ASSUME NEW s \in registered PROVE since[s] = received
  <2>1. Length[s] >= MinSegment /\ (Length[s] - 1 <= hold \/ since[s] = received)
    BY Zenon DEF RegisteredOnce, HoldLongEnough
  <2>2. Length[s] \in 1..MaxSegment
    BY LengthAssumption, Zenon DEF RedactTypeOK
  <2> QED BY <1>1, <2>1, <2>2, CarryAssumption, SMT
<1>4. \A o \in occurrences : ~ Secret(o)
  <2>1. ASSUME NEW o \in occurrences, Secret(o) PROVE FALSE
    <3>1. o[1] \in registered /\ since[o[1]] <= o[2] /\ End(o) <= received
      BY <2>1, Zenon DEF AllMasked, Masked
    <3>2. o[2] \in Nat /\ Length[o[1]] \in Nat \ {0} /\ End(o) = o[2] + Length[o[1]]
      BY OccurrenceBounds, Zenon DEF RedactTypeOK
    <3>3. received <= o[2]
      BY <1>3, <3>1, Zenon
    <3> QED BY <1>2, <3>1, <3>2, <3>3, SMT
  <2> QED BY <2>1, Zenon
<1>5. RedactRange({}, base, received) \subseteq 0..TextLength
  BY Zenon DEF RedactRange
<1>6. RedactTypeOK'
  BY <1>1, <1>5, Zenon DEF RedactTypeOK
<1>7. Window'
  <2>1. ASSUME NEW x \in raw' PROVE x < received
    <3>1. CASE x \in raw
      BY <1>2, <3>1, TextAssumption, SMT DEF Window, RedactTypeOK
    <3>2. CASE x \in RedactRange({}, base, received)
      BY <3>2, Zenon DEF RedactRange
    <3> QED BY <1>1, <3>1, <3>2, Zenon
  <2>2. received <= received
    BY <1>2, SMT
  <2> QED BY <1>1, <2>1, <2>2, Zenon DEF Window
<1>8. RegisteredOnce' /\ AllMasked' /\ HoldLongEnough'
  <2>1. pc' # "writing"
    OBVIOUS
  <2> QED BY <1>1, <1>4, <2>1, Zenon DEF RegisteredOnce, AllMasked, HoldLongEnough, Secret
<1>9. CarryLongEnough'
  <2>1. \A s \in registered : received <= since[s]
    BY <1>2, <1>3, SMT
  <2> QED BY <1>1, <2>1, Zenon DEF CarryLongEnough
<1> QED BY <1>6, <1>7, <1>8, <1>9, Zenon

\* A window that is kept stays as it is.
LEMMA KeepAllKeepsInv ==
  ASSUME StreamInv, pc = "writing", KeepAll, pc' = "idle",
         UNCHANGED <<registryVars, occurrences, received, hold>>
  PROVE  StreamInv'
<1> USE DEF StreamInv
<1>1. UNCHANGED <<registered, since, occurrences, received, base, published, raw, hold>>
  BY Zenon DEF KeepAll, registryVars
<1>2. pc \notin {"closed"} /\ pc' \notin {"writing"} /\ pc' \in {"idle", "writing", "closed"}
  OBVIOUS
<1>3. RedactTypeOK' /\ Window' /\ RegisteredOnce'
  BY <1>1, <1>2, Zenon DEF RedactTypeOK, Window, RegisteredOnce
<1>4. AllMasked'
  BY <1>1, Zenon DEF AllMasked, Masked, End, Covered, Secret
<1>5. CarryLongEnough' /\ HoldLongEnough'
  BY <1>1, <1>2, Zenon DEF CarryLongEnough, HoldLongEnough
<1> QED BY <1>3, <1>4, <1>5, Zenon

\* The carry is cut off; a secret that begins before it has been published to
\* its end, and of what is published beyond its beginning all is masked.
LEMMA PublishSafelyKeepsInv ==
  ASSUME StreamInv, pc = "writing", PublishSafely, pc' = "idle",
         UNCHANGED <<registryVars, occurrences, received, hold>>
  PROVE  StreamInv'
<1> USE DEF StreamInv
<1> DEFINE carryStart == received - hold
           publishEnd == SafePublishEnd(SensitiveIntervals, carryStart)
           fresh      == RedactRange(SensitiveIntervals, published, publishEnd)
<1>1. /\ hold # 0 /\ hold < received - base
      /\ raw' = raw \cup fresh
      /\ base' = carryStart
      /\ published' = IF published <= publishEnd THEN publishEnd ELSE published
      /\ UNCHANGED <<registered, since, occurrences, received, hold>>
  BY Zenon DEF PublishSafely, registryVars
<1>2. /\ received \in Nat /\ base \in Nat /\ published \in Nat /\ hold \in Nat
      /\ received <= TextLength /\ published <= received /\ TextLength \in Nat
  BY TextAssumption, CarryAssumption, SMT DEF RedactTypeOK, Window
<1>3. carryStart \in Nat /\ base < carryStart /\ carryStart <= received
  BY <1>1, <1>2, SMT
<1> HIDE DEF carryStart
<1>4. /\ publishEnd \in carryStart..received
      /\ ~ Straddled(SensitiveIntervals, publishEnd)
      /\ \A x \in carryStart..received :
           x < publishEnd => Straddled(SensitiveIntervals, x)
  <2>1. \A o \in SensitiveIntervals : End(o) \in Nat /\ End(o) <= received
    <3>1. \A o \in SensitiveIntervals : o \in Occurrences /\ End(o) <= received
      BY Zenon DEF SensitiveIntervals, RedactTypeOK
    <3> QED BY <3>1, OccurrenceBounds, Zenon
  <2> QED BY <1>2, <1>3, <2>1, SafePublishEndIsSafe, Zenon
<1> HIDE DEF publishEnd
<1>5. publishEnd \in Nat /\ carryStart <= publishEnd /\ publishEnd <= received
  BY <1>2, <1>3, <1>4, SMT
<1>6. /\ published' \in Nat /\ published' <= received
      /\ publishEnd <= published' /\ published <= published'
  BY <1>1, <1>2, <1>5, SMT
<1>7. \A o \in occurrences : Secret(o) => \A x \in fresh : x \notin Covered(o)
  BY <1>5, PublishedIsMasked, Zenon
<1>8. ASSUME NEW x \in fresh PROVE x \in 0..TextLength /\ x < carryStart
  <2>1. /\ x \in 0..TextLength /\ published <= x /\ x < publishEnd
        /\ \A o \in SensitiveIntervals : x \notin Covered(o)
    BY Zenon DEF RedactRange
  <2>2. SUFFICES ASSUME ~ (x < carryStart) PROVE FALSE
    BY <2>1, Zenon
  <2>3. x \in carryStart..received
    BY <1>2, <1>3, <1>5, <2>1, <2>2, SMT
  <2>4. PICK o \in SensitiveIntervals : o[2] < x /\ x < End(o)
    BY <1>4, <2>1, <2>3, Zenon DEF Straddled
  <2>5. o \in Occurrences
    BY <2>4, Zenon DEF SensitiveIntervals, RedactTypeOK
  <2>6. o[2] \in Nat /\ x \in Nat /\ (x \in Covered(o) <=> o[2] <= x /\ x < End(o))
    <3>1. x \in Nat
      BY <1>2, <2>1, SMT
    <3> QED BY <2>5, <3>1, OccurrenceBounds, Zenon
  <2>7. o[2] <= x
    BY <2>4, <2>6, SMT
  <2> QED BY <2>1, <2>4, <2>6, <2>7, Zenon
<1>9. RedactTypeOK'
  <2>1. base' \in 0..TextLength /\ published' \in 0..TextLength
    BY <1>1, <1>2, <1>3, <1>6, SMT
  <2> QED BY <1>1, <1>8, <2>1, Zenon DEF RedactTypeOK
<1>10. Window'
  <2>1. ASSUME NEW x \in raw' PROVE x < carryStart
    <3>1. CASE x \in raw
      <4>1. x \in Nat /\ x < base
        BY <1>2, <3>1, SMT DEF Window, RedactTypeOK
      <4> QED BY <1>2, <1>3, <4>1, SMT
    <3> QED BY <1>1, <1>8, <3>1, Zenon
  <2>2. carryStart <= published'
    BY <1>3, <1>5, <1>6, SMT
  <2> QED BY <1>1, <1>6, <2>1, <2>2, Zenon DEF Window
<1>11. RegisteredOnce' /\ HoldLongEnough'
  <2>1. pc' # "writing"
    OBVIOUS
  <2> QED BY <1>1, <2>1, Zenon DEF RegisteredOnce, HoldLongEnough
<1>12. AllMasked'
  <2>1. ASSUME NEW o \in occurrences, Secret(o) PROVE Masked(o)'
    <3>1. Masked(o)
      BY <2>1, Zenon DEF AllMasked
    <3>2. o[2] \in Nat /\ End(o) \in Nat
      BY OccurrenceBounds, Zenon DEF RedactTypeOK
    <3>3. raw' \cap Covered(o) = {}
      BY <1>1, <1>7, <2>1, <3>1, Zenon DEF Masked
    <3>4. ASSUME o[2] < carryStart PROVE End(o) <= published'
      <4>1. CASE o[2] < base
        <5>1. End(o) <= published
          BY <3>1, <4>1, Zenon DEF Masked
        <5> QED BY <1>2, <1>6, <3>2, <5>1, SMT
      <4>2. CASE ~ (o[2] < base)
        <5>1. base <= o[2] /\ o[2] < publishEnd
          BY <1>2, <1>3, <1>5, <3>2, <3>4, <4>2, SMT
        <5>2. o \in SensitiveIntervals
          BY <3>1, <5>1, Zenon DEF SensitiveIntervals, Masked
        <5>3. ~ (publishEnd < End(o))
          BY <1>4, <5>1, <5>2, Zenon DEF Straddled
        <5> QED BY <1>5, <1>6, <3>2, <5>3, SMT
      <4> QED BY <4>1, <4>2, Zenon
    <3> QED BY <1>1, <3>1, <3>3, <3>4, Zenon DEF Masked, End, Covered
  <2> QED BY <1>1, <2>1, Zenon DEF AllMasked, Secret
<1>13. CarryLongEnough'
  <2>1. ASSUME NEW s \in registered
        PROVE  carryStart + Length[s] <= received + 1 \/ carryStart <= since[s]
    <3>1. Length[s] - 1 <= hold \/ since[s] = received
      BY Zenon DEF HoldLongEnough
    <3>2. Length[s] \in 1..MaxSegment
      BY LengthAssumption, Zenon DEF RedactTypeOK
    <3>3. CASE since[s] = received
      BY <1>3, <3>3, Zenon
    <3>4. CASE Length[s] - 1 <= hold
      BY <1>2, <3>2, <3>4, CarryAssumption, SMT DEF carryStart
    <3> QED BY <3>1, <3>3, <3>4, Zenon
  <2> QED BY <1>1, <2>1, Zenon DEF CarryLongEnough
<1> QED BY <1>9, <1>10, <1>11, <1>12, <1>13, Zenon

\* The rest is published with every secret in it masked.
LEMMA FlushKeepsInv ==
  ASSUME StreamInv, Flush
  PROVE  StreamInv'
<1> USE DEF StreamInv
<1> DEFINE fresh == RedactRange(SensitiveIntervals, published, received)
<1>1. /\ raw' = raw \cup fresh /\ base' = received /\ published' = received
      /\ pc' = "closed"
      /\ UNCHANGED <<registered, since, occurrences, received, hold>>
  BY Zenon DEF Flush, registryVars
<1>2. received \in Nat /\ base \in Nat /\ base <= received /\ TextLength \in Nat
  BY TextAssumption, SMT DEF RedactTypeOK, Window
<1>3. \A x \in fresh : x \in 0..TextLength /\ x < received
  BY Zenon DEF RedactRange
<1>4. \A o \in occurrences : Secret(o) => \A x \in fresh : x \notin Covered(o)
  BY <1>2, PublishedIsMasked, Zenon
<1> HIDE DEF fresh
<1>5. RedactTypeOK'
  BY <1>1, <1>3, Zenon DEF RedactTypeOK
<1>6. Window'
  <2>1. ASSUME NEW x \in raw' PROVE x < received
    <3>1. CASE x \in raw
      BY <1>2, <3>1, SMT DEF Window, RedactTypeOK
    <3> QED BY <1>1, <1>3, <3>1, Zenon
  <2>2. received <= received
    BY <1>2, SMT
  <2> QED BY <1>1, <2>1, <2>2, Zenon DEF Window
<1>7. AllMasked'
  <2>1. ASSUME NEW o \in occurrences, Secret(o) PROVE Masked(o)'
    <3>1. Masked(o)
      BY <2>1, Zenon DEF AllMasked
    <3>2. raw' \cap Covered(o) = {}
      BY <1>1, <1>4, <2>1, <3>1, Zenon DEF Masked
    <3> QED BY <1>1, <3>1, <3>2, Zenon DEF Masked, End, Covered
  <2> QED BY <1>1, <2>1, Zenon DEF AllMasked, Secret
<1>8. RegisteredOnce' /\ CarryLongEnough' /\ HoldLongEnough'
  <2>1. pc' # "writing"
    BY <1>1, Zenon
  <2> QED BY <1>1, <2>1, Zenon DEF RegisteredOnce, CarryLongEnough, HoldLongEnough
<1> QED BY <1>5, <1>6, <1>7, <1>8, Zenon

-----------------------------------------------------------------------------
\* Every step keeps the invariant.
LEMMA StreamStep ==
  ASSUME StreamInv, [RedactNext]_redactVars
  PROVE  StreamInv'
<1>1. CASE \E values \in SUBSET Segments : Add(values)
  BY <1>1, AddKeepsInv, Zenon
<1>2. CASE \E n \in 1..TextLength, new \in SUBSET Occurrences :
             Known(new) /\ WriteStarts(n, new)
  BY <1>2, WriteStartsKeepsInv, Zenon
<1>3. CASE WritePublishes
  <2>1. /\ pc = "writing" /\ pc' = "idle"
        /\ UNCHANGED <<registryVars, occurrences, received, hold>>
        /\ PublishAll \/ KeepAll \/ PublishSafely
    BY <1>3, Zenon DEF WritePublishes
  <2> QED BY <2>1, PublishAllKeepsInv, KeepAllKeepsInv, PublishSafelyKeepsInv, Zenon
<1>4. CASE Flush
  BY <1>4, FlushKeepsInv, Zenon
<1>5. CASE UNCHANGED redactVars
  <2>1. UNCHANGED <<registered, since, occurrences, received, base, published, raw, pc, hold>>
    BY <1>5, Zenon DEF redactVars, registryVars, textVars
  <2> QED BY <2>1, Zenon DEF StreamInv, RedactTypeOK, Window, RegisteredOnce,
             AllMasked, Masked, Secret, End, Covered, CarryLongEnough, HoldLongEnough
<1> QED BY <1>1, <1>2, <1>3, <1>4, <1>5, Zenon DEF RedactNext

\* The invariant holds of every text that repeats only what was registered.
THEOREM StreamInvariant == RedactSpec => []StreamInv
<1>1. RedactInit => StreamInv
  BY InitStreamInv
<1>2. StreamInv /\ [RedactNext]_redactVars => StreamInv'
  BY StreamStep
<1> QED BY <1>1, <1>2, PTL DEF RedactSpec

\* No byte of a secret that was registered before the text repeats it is ever
\* published (Stream.Write and Flush, redact/stream.go).
THEOREM RedactedStream == RedactSpec => []SecretsStayHidden
<1>1. StreamInv => SecretsStayHidden
  BY Zenon DEF StreamInv, AllMasked, Masked, SecretsStayHidden
<1> QED BY <1>1, StreamInvariant, PTL

\* The state of the redactor stays well typed.
THEOREM RedactTypeCorrect == RedactSpec => []RedactTypeOK
<1>1. StreamInv => RedactTypeOK
  BY Zenon DEF StreamInv
<1> QED BY <1>1, StreamInvariant, PTL

-----------------------------------------------------------------------------
(***************************************************************************)
(* The session: what the app server was told, and what the user answers.   *)
(***************************************************************************)

\* Whatever the app server has been told is registered, since no later.
ToldIsRegistered ==
  /\ DOMAIN told \subseteq Segments
  /\ \A s \in DOMAIN told :
       /\ told[s] \in Nat
       /\ Length[s] >= MinSegment => s \in registered /\ since[s] <= told[s]

\* A response that is being written has registered its secrets.
ClaimRegistered ==
  phase = "writing" =>
    \A s \in SecretsOf(request, answer.response) :
      Length[s] >= MinSegment => s \in registered

SessionInv == /\ StreamInv
              /\ request \in Requests
              /\ ToldIsRegistered
              /\ ClaimRegistered

-----------------------------------------------------------------------------
\* ValidateResponse registers the secrets of every response it accepts.
LEMMA ValidRegisters ==
  ASSUME NEW r \in Requests, NEW a, Valid(Record(r), a)
  PROVE  SecretsOf(r, a) \subseteq Registers(Record(r), a)
<1>1. a.type = Record(r).type
  BY Zenon DEF Valid
<1>2. CASE r.type \in {"command", "file"}
  <2>1. a.type = "approval"
    BY <1>1, <1>2, SMT DEF Record
  <2> QED BY <2>1, SMT DEF SecretsOf
<1>3. CASE r.type = "permissions"
  <2>1. a.type = "permissions"
    BY <1>1, <1>3, SMT DEF Record
  <2> QED BY <2>1, SMT DEF SecretsOf
<1>4. CASE r.type = "elicitation"
  <2>1. Record(r) = [type |-> "elicitation", sensitive |-> r.sensitive]
    BY <1>4, SMT DEF Record
  <2>2. a.type = "elicitation"
    BY <1>1, <2>1, SMT
  <2>3. ASSUME NEW s \in SecretsOf(r, a) PROVE s \in Registers(Record(r), a)
    <3>1. r.sensitive /\ a.action = "accept" /\ s = a.content
      BY <2>2, <2>3, SMT DEF SecretsOf
    <3>2. Record(r).sensitive
      BY <2>1, <3>1, SMT
    <3> QED BY <1>1, <2>2, <3>1, <3>2, SMT DEF Registers
  <2> QED BY <2>3, Zenon
<1>5. CASE r.type = "questions"
  <2>1. Record(r) = [type |-> "questions", questions |-> r.questions]
    BY <1>5, SMT DEF Record
  <2>2. a.type = "questions" /\ Record(r).questions = r.questions
    BY <1>1, <2>1, SMT
  <2>3. \A i \in DOMAIN a.answers : AnswerValid(Record(r), a, i)
    BY <2>2, SMT DEF Valid
  <2>4. ASSUME NEW s \in SecretsOf(r, a) PROVE s \in Registers(Record(r), a)
    <3>1. PICK i \in DOMAIN a.answers :
            /\ QuestionByID(r.questions, a.answers[i].id).secret
            /\ s \in Range(a.answers[i].values)
      BY <2>2, <2>4, SMT DEF SecretsOf
    <3>2. i \in {k \in DOMAIN a.answers :
                   /\ \A j \in DOMAIN a.answers : j <= k => AnswerValid(Record(r), a, j)
                   /\ QuestionByID(Record(r).questions, a.answers[k].id).secret}
      BY <2>2, <2>3, <3>1, Zenon
    <3> QED BY <1>1, <2>2, <3>1, <3>2, SMT DEF Registers
  <2> QED BY <2>4, Zenon
<1> QED BY <1>2, <1>3, <1>4, <1>5, RequestsAssumption, Zenon

\* What is registered stays so, since the same point of the text; what is added
\* is registered from then on.
LEMMA RegisterAdds ==
  ASSUME NEW values, Register(values), registered \subseteq Segments
  PROVE  /\ \A s \in registered : s \in registered' /\ since'[s] = since[s]
         /\ \A s \in values \cap Segments : Length[s] >= MinSegment => s \in registered'
         /\ Register(values \cap Segments)
<1> DEFINE added == Sensitive(values) \ registered
<1>1. /\ registered' = registered \cup added
      /\ since' = [s \in Segments |-> IF s \in added THEN received ELSE since[s]]
  BY Zenon DEF Register
<1>2. \A s \in registered : s \in registered' /\ since'[s] = since[s]
  BY <1>1, SMT
<1>3. \A s \in values \cap Segments : Length[s] >= MinSegment => s \in registered'
  BY <1>1, SMT DEF Sensitive
<1>4. Sensitive(values \cap Segments) = Sensitive(values)
  BY Zenon DEF Sensitive
<1>5. Register(values \cap Segments)
  BY <1>1, <1>4, Zenon DEF Register
<1> QED BY <1>2, <1>3, <1>5, Zenon

\* What the app server may repeat was registered before.
LEMMA RepeatableIsKnown ==
  ASSUME SessionInv, NEW n \in 1..MaxChunk, NEW new \in SUBSET Repeatable(n),
         received + n <= TextLength
  PROVE  /\ n \in 1..TextLength
         /\ new \in SUBSET Occurrences
         /\ Known(new)
<1>1. received \in Nat /\ TextLength \in Nat
  BY TextAssumption, SMT DEF SessionInv, StreamInv, RedactTypeOK
<1>2. n \in 1..TextLength
  BY <1>1, BoundsAssumption, SMT
<1>3. ASSUME NEW o \in new
      PROVE  /\ o[1] \in DOMAIN told /\ o[2] \in 0..TextLength
             /\ o = <<o[1], o[2]>> /\ told[o[1]] <= o[2]
  BY <1>3, SMT DEF Repeatable
<1>4. new \in SUBSET Occurrences
  <2>1. \A o \in new : o[1] \in Segments /\ o[2] \in 0..TextLength /\ o = <<o[1], o[2]>>
    BY <1>3, Zenon DEF SessionInv, ToldIsRegistered
  <2> QED BY <2>1, SMT DEF Occurrences
<1>5. ASSUME NEW o \in new, Secret(o) PROVE o[1] \in registered /\ since[o[1]] <= o[2]
  <2>1. /\ o[1] \in Segments /\ told[o[1]] \in Nat
        /\ o[1] \in registered /\ since[o[1]] <= told[o[1]]
    BY <1>3, <1>5, Zenon DEF SessionInv, ToldIsRegistered, Secret
  <2>2. since[o[1]] \in 0..TextLength
    BY <2>1, Zenon DEF SessionInv, StreamInv, RedactTypeOK
  <2> QED BY <1>1, <1>3, <2>1, <2>2, SMT
<1> QED BY <1>2, <1>4, <1>5, Zenon DEF Known

-----------------------------------------------------------------------------
\* A step of the session is, for the redactor, a registration, a chunk of a text
\* that repeats only what was registered, or nothing.
LEMMA SessionStepRedacts ==
  ASSUME SessionInv, [PendingNext]_pendingVars
  PROVE  [RedactNext]_redactVars
<1>1. CASE \E a \in Sent(Display(request)) : Respond(a)
  <2>1. PICK a : Respond(a)
    BY <1>1, Zenon
  <2>2. CASE RespondMalformed(a)
    BY <2>2, Zenon DEF RespondMalformed
  <2>3. CASE RespondInvalid(a) \/ RespondClaims(a)
    <3>1. PICK values : Register(values) /\ UNCHANGED textVars
      BY <2>3, Zenon DEF RespondInvalid, RespondClaims
    <3>2. Add(values \cap Segments)
      BY <3>1, RegisterAdds, Zenon DEF Add, SessionInv, StreamInv, RedactTypeOK
    <3> QED BY <3>2, SMT DEF RedactNext
  <2> QED BY <2>1, <2>2, <2>3, Zenon DEF Respond
<1>2. CASE CodexWrites
  <2>1. PICK n \in 1..MaxChunk : \E new \in SUBSET Repeatable(n) : WriteStarts(n, new)
    BY <1>2, Zenon DEF CodexWrites
  <2>2. PICK new \in SUBSET Repeatable(n) : WriteStarts(n, new)
    BY <2>1, Zenon
  <2>3. received + n <= TextLength
    BY <2>2, Zenon DEF WriteStarts
  <2> QED BY <2>2, <2>3, RepeatableIsKnown, Zenon DEF RedactNext
<1>3. CASE StderrPublishes \/ StderrEnds
  BY <1>3, Zenon DEF StderrPublishes, StderrEnds, RedactNext
<1>4. CASE CodexAsks \/ StreamSends \/ WriteResponse \/ WriteFails
  BY <1>4, Zenon DEF CodexAsks, StreamSends, WriteResponse, WriteFails
<1>5. CASE UNCHANGED pendingVars
  BY <1>5, Zenon DEF pendingVars
<1> QED BY <1>1, <1>2, <1>3, <1>4, <1>5, Zenon DEF PendingNext

\* The app server learns of a response when it is written, not before its
\* secrets are registered.
LEMMA TellKeepsTold ==
  ASSUME SessionInv, phase = "writing", Tell, UNCHANGED <<registered, since, received>>
  PROVE  ToldIsRegistered'
<1> DEFINE secrets == SecretsOf(request, answer.response)
<1>1. /\ DOMAIN told' = DOMAIN told \cup secrets
      /\ \A s \in DOMAIN told : told'[s] = told[s]
      /\ \A s \in secrets \ DOMAIN told : told'[s] = received
  BY SMT DEF Tell
<1>2. secrets \subseteq Segments
  BY Zenon DEF SecretsOf
<1> HIDE DEF secrets
<1>3. DOMAIN told' \subseteq Segments
  BY <1>1, <1>2, Zenon DEF SessionInv, ToldIsRegistered
<1>4. ASSUME NEW s \in DOMAIN told'
      PROVE  /\ told'[s] \in Nat
             /\ Length[s] >= MinSegment => s \in registered /\ since[s] <= told'[s]
  <2>1. CASE s \in DOMAIN told
    BY <1>1, <2>1, Zenon DEF SessionInv, ToldIsRegistered
  <2>2. CASE s \in secrets \ DOMAIN told
    <3>1. told'[s] = received
      BY <1>1, <2>2, Zenon
    <3>2. received \in Nat
      BY TextAssumption, SMT DEF SessionInv, StreamInv, RedactTypeOK
    <3>3. Length[s] >= MinSegment => s \in registered
      BY <2>2, Zenon DEF SessionInv, ClaimRegistered, secrets
    <3>4. s \in registered => since[s] <= received
      BY Zenon DEF SessionInv, StreamInv, RegisteredOnce
    <3> QED BY <3>1, <3>2, <3>3, <3>4, Zenon
  <2> QED BY <1>1, <2>1, <2>2, Zenon
<1> QED BY <1>3, <1>4, Zenon DEF ToldIsRegistered

\* Every step keeps the invariant.
LEMMA SessionStep ==
  ASSUME SessionInv, [PendingNext]_pendingVars
  PROVE  SessionInv'
<1>1. StreamInv'
  BY SessionStepRedacts, StreamStep, Zenon DEF SessionInv
<1>2. request' \in Requests
  <2>1. UNCHANGED request
    BY Zenon DEF PendingNext, pendingVars, sessionVars, CodexAsks, StreamSends, Respond,
       WriteResponse, WriteFails, CodexWrites, StderrPublishes, StderrEnds
  <2> QED BY <2>1, Zenon DEF SessionInv
<1>3. CASE \E a \in Sent(Display(request)) : Respond(a)
  <2>1. PICK a : Respond(a)
    BY <1>3, Zenon
  <2>2. /\ phase = "shown" /\ answer' = a /\ UNCHANGED <<request, told>>
    BY <2>1, Zenon DEF Respond, RespondMalformed, RespondInvalid, RespondClaims
  <2>3. CASE RespondMalformed(a)
    <3>1. UNCHANGED <<phase, registered, since>>
      BY <2>3, Zenon DEF RespondMalformed, redactVars, registryVars
    <3>2. phase' # "writing"
      BY <2>2, <3>1, Zenon
    <3> QED BY <1>1, <1>2, <2>2, <3>1, <3>2, Zenon
            DEF SessionInv, ToldIsRegistered, ClaimRegistered
  <2>4. CASE RespondInvalid(a) \/ RespondClaims(a)
    <3>1. Register(Registers(Record(request), a.response))
      BY <2>4, Zenon DEF RespondInvalid, RespondClaims
    <3>2. registered \subseteq Segments
      BY Zenon DEF SessionInv, StreamInv, RedactTypeOK
    <3>3. ToldIsRegistered'
      BY <2>2, <3>1, <3>2, RegisterAdds, Zenon DEF SessionInv, ToldIsRegistered
    <3>4. CASE RespondInvalid(a)
      <4>1. phase' # "writing"
        BY <2>2, <3>4, Zenon DEF RespondInvalid
      <4> QED BY <1>1, <1>2, <3>3, <4>1, Zenon DEF SessionInv, ClaimRegistered
    <3>5. CASE RespondClaims(a)
      <4>1. SecretsOf(request, a.response) \subseteq Registers(Record(request), a.response)
        BY <3>5, ValidRegisters, Zenon DEF RespondClaims, SessionInv
      <4>2. SecretsOf(request, a.response) \subseteq Segments
        BY Zenon DEF SecretsOf
      <4>3. \A s \in SecretsOf(request, a.response) :
              Length[s] >= MinSegment => s \in registered'
        BY <3>1, <3>2, <4>1, <4>2, RegisterAdds, Zenon
      <4>4. ClaimRegistered'
        BY <2>2, <4>3, Zenon DEF ClaimRegistered, SecretsOf
      <4> QED BY <1>1, <1>2, <3>3, <4>4, Zenon DEF SessionInv
    <3> QED BY <2>4, <3>4, <3>5, Zenon
  <2> QED BY <2>1, <2>3, <2>4, Zenon DEF Respond
<1>4. CASE WriteResponse \/ WriteFails
  <2>1. phase = "writing" /\ UNCHANGED <<registered, since, received>>
    BY <1>4, Zenon DEF WriteResponse, WriteFails, redactVars, registryVars, textVars
  <2>2. phase' # "writing"
    BY <1>4, Zenon DEF WriteResponse, WriteFails
  <2>3. ToldIsRegistered'
    <3>1. CASE Tell
      BY <2>1, <3>1, TellKeepsTold
    <3>2. CASE UNCHANGED told
      BY <2>1, <3>2, Zenon DEF SessionInv, ToldIsRegistered
    <3> QED BY <1>4, <3>1, <3>2, Zenon DEF WriteResponse, WriteFails
  <2> QED BY <1>1, <1>2, <2>2, <2>3, Zenon DEF SessionInv, ClaimRegistered
<1>5. CASE CodexAsks \/ StreamSends
  <2>1. phase' # "writing" /\ UNCHANGED <<told, registered, since>>
    <3>1. phase' # "writing" /\ UNCHANGED <<told, redactVars>>
      BY <1>5, Zenon DEF CodexAsks, StreamSends
    <3> QED BY <3>1, Zenon DEF redactVars, registryVars
  <2> QED BY <1>1, <1>2, <2>1, Zenon
          DEF SessionInv, ToldIsRegistered, ClaimRegistered
<1>6. CASE CodexWrites \/ StderrPublishes \/ StderrEnds \/ UNCHANGED pendingVars
  <2>1. UNCHANGED <<phase, request, answer, told, registered, since>>
    <3>1. UNCHANGED sessionVars /\ UNCHANGED registryVars
      BY <1>6, Zenon DEF CodexWrites, StderrPublishes, StderrEnds, pendingVars, redactVars,
         WriteStarts, WritePublishes, Flush
    <3> QED BY <3>1, Zenon DEF sessionVars, registryVars
  <2> QED BY <1>1, <1>2, <2>1, Zenon
          DEF SessionInv, ToldIsRegistered, ClaimRegistered, SecretsOf
<1> QED BY <1>3, <1>4, <1>5, <1>6, Zenon DEF PendingNext

\* The session begins with nothing told.
LEMMA InitSessionInv ==
  ASSUME PendingInit
  PROVE  SessionInv
<1>1. StreamInv
  BY InitStreamInv, Zenon DEF PendingInit
<1>2. ToldIsRegistered
  BY SMT DEF PendingInit, ToldIsRegistered
<1>3. phase # "writing" /\ request \in Requests
  BY Zenon DEF PendingInit
<1> QED BY <1>1, <1>2, <1>3, Zenon DEF SessionInv, ClaimRegistered

-----------------------------------------------------------------------------
\* What a user answers is registered before the app server is told of it: the
\* text it writes is one of those RedactStream is about (ValidateResponse,
\* pending/response.go; RespondChatPending, chatruntime/pending_interrupt.go).
THEOREM AnswersAreRegisteredFirst == PendingSpec => RedactSpec
<1>1. PendingInit => SessionInv
  BY InitSessionInv
<1>2. SessionInv /\ [PendingNext]_pendingVars => SessionInv'
  BY SessionStep
<1>3. SessionInv /\ [PendingNext]_pendingVars => [RedactNext]_redactVars
  BY SessionStepRedacts
<1>4. PendingInit => RedactInit
  BY DEF PendingInit
<1> QED BY <1>1, <1>2, <1>3, <1>4, PTL DEF PendingSpec, RedactSpec

\* No byte of a secret a user answers with reaches the log of the app server's
\* standard error (DrainStderr, appserver/process.go).
THEOREM SecretsNeverPublished == PendingSpec => []SecretsStayHidden
  BY AnswersAreRegisteredFirst, RedactedStream, PTL

-----------------------------------------------------------------------------
(* The loops over lists                                                    *)

\* Induction over the length of a list: of the lengths for which a claim fails,
\* were there any, one would be the least.
LEMMA LeastNumber ==
  ASSUME NEW T, T \subseteq Nat, T # {}
  PROVE  \E x \in T : \A y \in T : x <= y
<1> DEFINE R == OpToRel(<, Nat)
<1>1. IsWellFoundedOn(R, Nat)
  BY NatLessThanWellFounded, Zenon
<1>2. ASSUME NEW x \in Nat, NEW y \in Nat, y < x
      PROVE  <<y, x>> \in R
  <2>1. <<y, x>> \in {p \in Nat \X Nat : p[1] < p[2]}
    BY <1>2
  <2> QED BY <2>1 DEF OpToRel
<1> HIDE DEF R
<1>3. PICK x \in T : \A y \in T : <<y, x>> \notin R
  <2>1. \E x \in T : \A y \in T : <<y, x>> \notin R
    BY <1>1, WFMin
  <2> QED BY <2>1
<1>4. \A y \in T : ~(y < x)
  BY <1>2, <1>3
<1>5. \A y \in T : x <= y
  BY <1>4, x \in Nat
<1> QED BY <1>5

\* What Among has picked after i elements, and a table of it for i up to n.
PicksNext(f, s, S, i) ==
  IF i = 0 THEN << >>
  ELSE IF s[i] \in S THEN Append(f[i - 1], s[i]) ELSE f[i - 1]
IsPicked(f, s, S, n) == f = [i \in 0..n |-> PicksNext(f, s, S, i)]

\* The loop of Among picks something from every list.
LEMMA LoopPicks ==
  ASSUME NEW T, NEW s \in Seq(T), NEW S
  PROVE  \E f : IsPicked(f, s, S, Len(s))
<1> DEFINE missing == {n \in 0..Len(s) : ~\E f : IsPicked(f, s, S, n)}
<1> SUFFICES ASSUME missing # {} PROVE FALSE
  <2>1. Len(s) \in 0..Len(s)
    OBVIOUS
  <2> QED BY <2>1
<1>1. PICK n \in missing : \A m \in missing : n <= m
  <2>1. missing \subseteq Nat
    OBVIOUS
  <2> HIDE DEF missing
  <2> QED BY <2>1, LeastNumber
<1>2. n \in 0..Len(s) /\ ~\E f : IsPicked(f, s, S, n)
  BY <1>1
<1>3. \A m \in 0..Len(s) : m < n => \E f : IsPicked(f, s, S, m)
  BY <1>1, <1>2
<1> HIDE DEF missing
<1>4. CASE n = 0
  <2> DEFINE f == [i \in 0..0 |-> << >>]
  <2>1. IsPicked(f, s, S, 0)
    BY DEF IsPicked, PicksNext
  <2> QED BY <1>2, <1>4, <2>1
<1>5. CASE n > 0
  <2>1. n - 1 \in 0..Len(s) /\ n - 1 < n
    BY <1>2, <1>5
  <2>2. PICK f : IsPicked(f, s, S, n - 1)
    BY <1>3, <2>1
  <2> DEFINE g == [i \in 0..n |-> PicksNext(f, s, S, i)]
  <2>3. \A i \in 0..(n - 1) : g[i] = f[i]
    <3>1. \A i \in 0..(n - 1) : f[i] = PicksNext(f, s, S, i) /\ i \in 0..n
      BY <1>2, <2>2 DEF IsPicked
    <3> QED BY <3>1
  <2>4. \A i \in 0..n : i # 0 => i - 1 \in 0..(n - 1)
    BY <1>2
  <2>5. \A i \in 0..n : PicksNext(f, s, S, i) = PicksNext(g, s, S, i)
    <3> HIDE DEF g
    <3> QED BY <2>3, <2>4 DEF PicksNext
  <2>6. g = [i \in 0..n |-> PicksNext(g, s, S, i)]
    BY <2>5
  <2>7. IsPicked(g, s, S, n)
    BY <2>6 DEF IsPicked
  <2> QED BY <1>2, <2>7
<1> QED BY <1>2, <1>4, <1>5

\* One more element at the end of a list.
LEMMA OneMore ==
  ASSUME NEW T, NEW s \in Seq(T), NEW e \in T
  PROVE  /\ Append(s, e) \in Seq(T) /\ Len(Append(s, e)) = Len(s) + 1
         /\ Range(Append(s, e)) = Range(s) \cup {e}
         /\ IsInjective(s) /\ e \notin Range(s) => IsInjective(Append(s, e))
<1> DEFINE t == Append(s, e)
<1>1. /\ t \in Seq(T) /\ Len(s) \in Nat /\ Len(t) = Len(s) + 1
      /\ DOMAIN s = 1..Len(s) /\ DOMAIN t = 1..(Len(s) + 1)
      /\ \A i \in 1..Len(s) : t[i] = s[i]
      /\ t[Len(s) + 1] = e
  OBVIOUS
<1> HIDE DEF t
<1>2. \A i \in 1..(Len(s) + 1) : i \in 1..Len(s) \/ i = Len(s) + 1
  BY <1>1
<1>3. 1..Len(s) \subseteq 1..(Len(s) + 1) /\ Len(s) + 1 \in 1..(Len(s) + 1)
  BY <1>1
<1>4. Range(t) = Range(s) \cup {e}
  BY <1>1, <1>2, <1>3 DEF Range
<1>5. ASSUME IsInjective(s), e \notin Range(s) PROVE IsInjective(t)
  <2> SUFFICES ASSUME NEW i \in 1..(Len(s) + 1), NEW j \in 1..(Len(s) + 1), t[i] = t[j]
               PROVE  i = j
    BY <1>1 DEF IsInjective
  <2>1. \A k \in 1..Len(s) : s[k] # e
    BY <1>1, <1>5 DEF Range
  <2> QED BY <1>1, <1>2, <1>5, <2>1 DEF IsInjective
<1> QED BY <1>1, <1>4, <1>5 DEF t

\* What Among makes of a list.
LEMMA AmongPicks ==
  ASSUME NEW T, NEW s \in Seq(T), NEW S
  PROVE  /\ Among(s, S) \in Seq(T)
         /\ Len(Among(s, S)) <= Len(s)
         /\ Range(Among(s, S)) = Range(s) \cap S
         /\ IsInjective(s) => IsInjective(Among(s, S))
<1> DEFINE N == Len(s)
           f == CHOOSE f : IsPicked(f, s, S, N)
           First(n) == {s[i] : i \in 1..n}
           Right(n) == /\ f[n] \in Seq(T) /\ Len(f[n]) <= n
                       /\ Range(f[n]) = First(n) \cap S
                       /\ IsInjective(s) => IsInjective(f[n])
<1>1. Among(s, S) = f[N]
  BY DEF Among, IsPicked, PicksNext
<1>2. IsPicked(f, s, S, N)
  BY LoopPicks
<1> HIDE DEF f
<1>3. /\ f[0] = << >>
      /\ \A n \in 1..N : f[n] = IF s[n] \in S THEN Append(f[n - 1], s[n]) ELSE f[n - 1]
  <2>1. \A n \in 0..N : f[n] = PicksNext(f, s, S, n)
    BY <1>2 DEF IsPicked
  <2>2. 0 \in 0..N /\ \A n \in 1..N : n \in 0..N /\ n # 0
    OBVIOUS
  <2> QED BY <2>1, <2>2 DEF PicksNext
<1>4. \A n \in 0..N : Right(n)
  <2> DEFINE wrong == {n \in 0..N : ~Right(n)}
  <2> SUFFICES ASSUME wrong # {} PROVE FALSE
    OBVIOUS
  <2>1. PICK n \in wrong : \A i \in wrong : n <= i
    <3>1. wrong \subseteq Nat
      OBVIOUS
    <3> HIDE DEF wrong
    <3> QED BY <3>1, LeastNumber
  <2>2. n \in 0..N /\ ~Right(n) /\ \A i \in 0..N : i < n => Right(i)
    <3> HIDE DEF Right
    <3>1. \A i \in 0..N : i < n => ~(n <= i)
      OBVIOUS
    <3> QED BY <2>1, <3>1
  <2> HIDE DEF wrong
  <2>3. n # 0
    <3>1. Range(<< >>) = {} /\ First(0) = {} /\ IsInjective(<< >>)
      BY DEF Range, IsInjective
    <3>2. Right(0)
      BY <1>3, <3>1
    <3> QED BY <2>2, <3>2
  <2>4. Right(n - 1) /\ n \in 1..N /\ n - 1 \in Nat /\ n \in DOMAIN s
    <3>1. n - 1 \in 0..N /\ n - 1 < n /\ n \in 1..N
      BY <2>2, <2>3
    <3> HIDE DEF Right
    <3> QED BY <2>2, <3>1
  <2>5. s[n] \in T /\ First(n) = First(n - 1) \cup {s[n]}
    <3>1. 1..n = 1..(n - 1) \cup {n}
      BY <2>4
    <3> QED BY <2>4, <3>1
  <2>6. IsInjective(s) => s[n] \notin First(n - 1)
    <3> SUFFICES ASSUME IsInjective(s), NEW i \in 1..(n - 1), s[i] = s[n] PROVE FALSE
      OBVIOUS
    <3>1. i \in DOMAIN s /\ i # n
      BY <2>4
    <3> QED BY <2>4, <3>1 DEF IsInjective
  <2> HIDE DEF First
  <2>7. CASE s[n] \in S
    <3>1. f[n] = Append(f[n - 1], s[n])
      BY <1>3, <2>4, <2>7
    <3>2. f[n - 1] \in Seq(T) /\ s[n] \in T
      BY <2>4, <2>5
    <3>3. Len(f[n]) <= n
      BY <2>4, <3>1, <3>2, OneMore
    <3>4. Range(f[n]) = First(n) \cap S
      BY <2>4, <2>5, <2>7, <3>1, <3>2, OneMore
    <3>5. IsInjective(s) => IsInjective(f[n])
      BY <2>4, <2>6, <3>1, <3>2, OneMore
    <3>6. f[n] \in Seq(T)
      BY <3>1, <3>2
    <3> QED BY <2>2, <3>3, <3>4, <3>5, <3>6
  <2>8. CASE s[n] \notin S
    <3>1. f[n] = f[n - 1]
      BY <1>3, <2>4, <2>8
    <3>2. Len(f[n - 1]) <= n
      BY <2>4
    <3> QED BY <2>2, <2>4, <2>5, <2>8, <3>1, <3>2
  <2> QED BY <2>7, <2>8
<1>5. Right(N)
  <2> HIDE DEF Right
  <2> QED BY <1>4
<1>6. First(N) = Range(s)
  BY DEF Range
<1> QED BY <1>1, <1>5, <1>6

\* A list with different elements is no longer than one that has them all.
LEMMA DistinctFit ==
  ASSUME NEW T, NEW s \in Seq(T), NEW U, NEW t \in Seq(U), IsInjective(s),
         Range(s) \subseteq Range(t)
  PROVE  Len(s) <= Len(t)
<1>1. /\ Len(s) \in Nat /\ DOMAIN s = 1..Len(s)
      /\ Len(t) \in Nat /\ DOMAIN t = 1..Len(t)
  OBVIOUS
<1> DEFINE f == [i \in 1..Len(s) |-> CHOOSE j \in 1..Len(t) : t[j] = s[i]]
<1>2. \A i \in 1..Len(s) : f[i] \in 1..Len(t) /\ t[f[i]] = s[i]
  BY <1>1 DEF Range
<1>3. \A i, j \in 1..Len(s) : f[i] = f[j] => i = j
  BY <1>1, <1>2 DEF IsInjective
<1>4. f \in Injection(1..Len(s), 1..Len(t))
  BY <1>2, <1>3 DEF Injection, IsInjective
<1> HIDE DEF f
<1>5. /\ IsFiniteSet(1..Len(t)) /\ Cardinality(1..Len(t)) = Len(t)
      /\ Cardinality(1..Len(s)) = Len(s)
  <2>1. /\ 1 \in Int /\ Len(s) \in Int /\ Len(t) \in Int
        /\ 1 > Len(s) <=> Len(s) = 0
        /\ 1 > Len(t) <=> Len(t) = 0
        /\ Len(s) - 1 + 1 = Len(s) /\ Len(t) - 1 + 1 = Len(t)
    BY <1>1
  <2>2. IsFiniteSet(1..Len(t)) /\ Cardinality(1..Len(t)) = Len(t)
    BY <2>1, FS_Interval
  <2>3. Cardinality(1..Len(s)) = Len(s)
    BY <2>1, FS_Interval
  <2> QED BY <2>2, <2>3
<1> QED BY <1>4, <1>5, FS_Injection

\* A list with different elements has as many as it is long.
LEMMA DistinctCount ==
  ASSUME NEW T, NEW s \in Seq(T), IsInjective(s)
  PROVE  IsFiniteSet(Range(s)) /\ Cardinality(Range(s)) = Len(s)
<1>1. Len(s) \in Nat /\ DOMAIN s = 1..Len(s)
  OBVIOUS
<1>2. s \in [1..Len(s) -> Range(s)]
  BY <1>1 DEF Range
<1>3. s \in Injection(1..Len(s), Range(s)) /\ s \in Surjection(1..Len(s), Range(s))
  BY <1>1, <1>2 DEF Injection, Surjection, IsInjective, Range
<1>4. s \in Bijection(1..Len(s), Range(s))
  BY <1>3 DEF Bijection
<1>5. ExistsBijection(1..Len(s), Range(s))
  BY <1>4 DEF ExistsBijection
<1>6. IsFiniteSet(1..Len(s)) /\ Cardinality(1..Len(s)) = Len(s)
  BY <1>1, FS_Interval
<1> QED BY <1>5, <1>6, FS_Bijection

\* One list after another.
LEMMA Joined ==
  ASSUME NEW T, NEW s \in Seq(T), NEW t \in Seq(T)
  PROVE  s \o t \in Seq(T) /\ Len(s \o t) = Len(s) + Len(t)
         /\ Range(s \o t) = Range(s) \cup Range(t)
<1>1. /\ s \o t \in Seq(T) /\ Len(s \o t) = Len(s) + Len(t)
      /\ Len(s) \in Nat /\ Len(t) \in Nat
      /\ DOMAIN s = 1..Len(s) /\ DOMAIN t = 1..Len(t)
      /\ DOMAIN (s \o t) = 1..(Len(s) + Len(t))
      /\ \A i \in 1..Len(s) : (s \o t)[i] = s[i]
      /\ \A i \in 1..Len(t) : (s \o t)[Len(s) + i] = t[i]
  OBVIOUS
<1>2. ASSUME NEW i \in 1..(Len(s) + Len(t)), i \notin 1..Len(s)
      PROVE  i - Len(s) \in 1..Len(t) /\ i = Len(s) + (i - Len(s))
  BY <1>1, <1>2
<1>3. /\ \A i \in 1..Len(s) : i \in 1..(Len(s) + Len(t))
      /\ \A i \in 1..Len(t) : Len(s) + i \in 1..(Len(s) + Len(t))
  BY <1>1
<1>4. ASSUME NEW i \in 1..(Len(s) + Len(t)) PROVE (s \o t)[i] \in Range(s) \cup Range(t)
  <2>1. CASE i \in 1..Len(s)
    BY <1>1, <2>1 DEF Range
  <2>2. CASE i \notin 1..Len(s)
    BY <1>1, <1>2, <2>2 DEF Range
  <2> QED BY <2>1, <2>2
<1>5. Range(s) \subseteq Range(s \o t)
  BY <1>1, <1>3 DEF Range
<1>6. Range(t) \subseteq Range(s \o t)
  BY <1>1, <1>3 DEF Range
<1>7. Range(s \o t) \subseteq Range(s) \cup Range(t)
  BY <1>1, <1>4 DEF Range
<1> QED BY <1>1, <1>5, <1>6, <1>7

-----------------------------------------------------------------------------
(* Approvals                                                               *)

\* What is shown of an approval: the direct decisions, which are blocked or not,
\* and others that cannot be chosen.
OptionSet(blocked) == {DirectOption(w, blocked) : w \in WireDecisions}
                        \cup {AdvancedOption(i) : i \in Nat}

\* An id stands for one option.
LEMMA IdNamesOption ==
  ASSUME NEW blocked, NEW o \in OptionSet(blocked), NEW p \in OptionSet(blocked), o.id = p.id
  PROVE  o = p
<1>1. ASSUME NEW q \in OptionSet(blocked)
      PROVE  \/ \E w : q = DirectOption(w, blocked) /\ q.id = <<"decision", w>>
             \/ \E i : q = AdvancedOption(i) /\ q.id = <<"advanced", i>>
  BY <1>1 DEF OptionSet, DirectOption, AdvancedOption
<1>2. \A w, i : <<"decision", w>> # <<"advanced", i>>
  OBVIOUS
<1>3. CASE \E w : o = DirectOption(w, blocked) /\ o.id = <<"decision", w>>
  <2>1. PICK w : o = DirectOption(w, blocked) /\ o.id = <<"decision", w>>
    BY <1>3
  <2>2. PICK v : p = DirectOption(v, blocked) /\ p.id = <<"decision", v>>
    BY <1>1, <1>2, <2>1
  <2>3. v = w
    BY <2>1, <2>2
  <2> QED BY <2>1, <2>2, <2>3
<1>4. CASE \E i : o = AdvancedOption(i) /\ o.id = <<"advanced", i>>
  <2>1. PICK i : o = AdvancedOption(i) /\ o.id = <<"advanced", i>>
    BY <1>4
  <2>2. PICK j : p = AdvancedOption(j) /\ p.id = <<"advanced", j>>
    BY <1>1, <1>2, <2>1
  <2>3. i = j
    BY <2>1, <2>2
  <2> QED BY <2>1, <2>2, <2>3
<1> QED BY <1>1, <1>3, <1>4

\* What can be chosen is a direct decision that is not blocked.
LEMMA SelectableOptions ==
  ASSUME NEW blocked, NEW o \in OptionSet(blocked), o.selectable
  PROVE  o.wire \in WireDecisions /\ ~(blocked /\ o.wire \in Accepts)
<1>1. CASE \E w \in WireDecisions : o = DirectOption(w, blocked)
  <2>1. PICK w \in WireDecisions : o = DirectOption(w, blocked)
    BY <1>1
  <2>2. o.wire = w /\ o.selectable = ~(blocked /\ w \in Accepts)
    BY <2>1 DEF DirectOption
  <2> QED BY <2>2
<1>2. CASE \E i \in Nat : o = AdvancedOption(i)
  <2>1. ~o.selectable
    BY <1>2 DEF AdvancedOption
  <2> QED BY <2>1
<1> QED BY <1>1, <1>2 DEF OptionSet

\* The direct decisions shown for a list of them.
LEMMA DirectOptionsShown ==
  ASSUME NEW blocked, NEW s \in Seq(WireDecisions)
  PROVE  /\ DirectOptions(s, blocked) \in Seq(OptionSet(blocked))
         /\ Len(DirectOptions(s, blocked)) = Len(s)
         /\ \A i \in DOMAIN s : DirectOptions(s, blocked)[i] = DirectOption(s[i], blocked)
<1>1. DOMAIN s = 1..Len(s) /\ Len(s) \in Nat /\ \A i \in 1..Len(s) : s[i] \in WireDecisions
  OBVIOUS
<1>2. \A i \in 1..Len(s) : DirectOption(s[i], blocked) \in OptionSet(blocked)
  BY <1>1 DEF OptionSet
<1> QED BY <1>1, <1>2 DEF DirectOptions

\* All four of them.
LEMMA AllOptionsShown ==
  ASSUME NEW blocked
  PROVE  /\ AllDirectOptions(blocked) \in Seq(OptionSet(blocked))
         /\ Len(AllDirectOptions(blocked)) = 4
         /\ \A i \in 1..4, j \in 1..4 :
              AllDirectOptions(blocked)[i].id = AllDirectOptions(blocked)[j].id => i = j
         /\ \A w \in WireDecisions : DirectOption(w, blocked) \in Range(AllDirectOptions(blocked))
<1> DEFINE s == <<"accept", "acceptForSession", "decline", "cancel">>
<1>1. /\ s \in Seq(WireDecisions) /\ Len(s) = 4 /\ DOMAIN s = 1..4
      /\ s[1] = "accept" /\ s[2] = "acceptForSession" /\ s[3] = "decline" /\ s[4] = "cancel"
  BY DEF WireDecisions, Accepts, Refusals
<1> HIDE DEF s
<1>2. /\ AllDirectOptions(blocked) = DirectOptions(s, blocked)
      /\ \A i \in 1..4 : AllDirectOptions(blocked)[i] = DirectOption(s[i], blocked)
  BY <1>1, DirectOptionsShown DEF AllDirectOptions, s
<1>3. DOMAIN DirectOptions(s, blocked) = 1..4
  BY <1>1 DEF DirectOptions
<1>4. \A i \in 1..4 : i = 1 \/ i = 2 \/ i = 3 \/ i = 4
  OBVIOUS
<1>5. \A i \in 1..4, j \in 1..4 : s[i] = s[j] => i = j
  BY <1>1, <1>4
<1>6. \A v, w : DirectOption(v, blocked).id = DirectOption(w, blocked).id => v = w
  BY DEF DirectOption
<1>7. ASSUME NEW w \in WireDecisions
      PROVE  DirectOption(w, blocked) \in Range(AllDirectOptions(blocked))
  <2>1. \E i \in 1..4 : s[i] = w
    BY <1>1 DEF WireDecisions, Accepts, Refusals
  <2> QED BY <1>2, <1>3, <2>1 DEF Range
<1> QED BY <1>1, <1>2, <1>5, <1>6, <1>7, DirectOptionsShown

\* The options of a command whose decisions the app server lists: those, and the
\* refusals among the others.
Offered(r, blocked) ==
  [i \in DOMAIN r.decisions |-> IF r.decisions[i] \in WireDecisions
                                THEN DirectOption(r.decisions[i], blocked) ELSE AdvancedOption(i)]
Absent(r) == Among(<<"decline", "cancel">>, Refusals \ Range(r.decisions))

LEMMA AbsentRefusals ==
  ASSUME NEW r
  PROVE  /\ Absent(r) \in Seq(WireDecisions) /\ IsInjective(Absent(r))
         /\ Range(Absent(r)) = Refusals \ Range(r.decisions)
<1> DEFINE s == <<"decline", "cancel">>
<1>1. /\ s \in Seq(WireDecisions) /\ DOMAIN s = 1..2 /\ s[1] = "decline" /\ s[2] = "cancel"
  BY DEF WireDecisions, Refusals
<1>2. \A i \in 1..2 : i = 1 \/ i = 2
  OBVIOUS
<1>3. IsInjective(s)
  BY <1>1, <1>2 DEF IsInjective
<1>4. Range(s) = Refusals
  BY <1>1, <1>2 DEF Range, Refusals
<1> HIDE DEF s
<1>5. Range(s) \cap (Refusals \ Range(r.decisions)) = Refusals \ Range(r.decisions)
  BY <1>4
<1>6. Absent(r) = Among(s, Refusals \ Range(r.decisions))
  BY DEF Absent, s
<1> QED BY <1>1, <1>3, <1>5, <1>6, AmongPicks

LEMMA OfferedShown ==
  ASSUME NEW r \in Requests, r.type = "command", NEW blocked
  PROVE  /\ Offered(r, blocked) \in Seq(OptionSet(blocked))
         /\ DOMAIN Offered(r, blocked) = DOMAIN r.decisions
         /\ DOMAIN r.decisions = 1..Len(r.decisions) /\ Len(r.decisions) \in Nat
<1>1. r.decisions \in Seq(Range(r.decisions))
  BY RequestsAssumption DEF IsList
<1>2. DOMAIN r.decisions = 1..Len(r.decisions) /\ Len(r.decisions) \in Nat
  BY <1>1
<1>3. \A i \in DOMAIN r.decisions : Offered(r, blocked)[i] \in OptionSet(blocked)
  BY <1>2 DEF Offered, OptionSet
<1>4. Offered(r, blocked) = [i \in 1..Len(r.decisions) |-> Offered(r, blocked)[i]]
  BY <1>2 DEF Offered
<1>5. DOMAIN Offered(r, blocked) = 1..Len(r.decisions)
  BY <1>2 DEF Offered
<1>6. Offered(r, blocked) \in [1..Len(r.decisions) -> OptionSet(blocked)]
  BY <1>2, <1>3, <1>4
<1>7. Offered(r, blocked) \in Seq(OptionSet(blocked))
  BY <1>2, <1>6
<1> QED BY <1>2, <1>5, <1>7

\* What is shown of an approval, with both refusals among it.
LEMMA OptionsShown ==
  ASSUME NEW r \in Requests, r.type \in {"command", "file"}
  PROVE  /\ Options(r) \in Seq(OptionSet(Blocked(r)))
         /\ \A w \in Refusals : DirectOption(w, Blocked(r)) \in Range(Options(r))
         /\ \/ Options(r) = AllDirectOptions(Blocked(r))
            \/ /\ r.type = "command"
               /\ Options(r) = Offered(r, Blocked(r)) \o DirectOptions(Absent(r), Blocked(r))
<1> DEFINE b == Blocked(r)
<1>1. CASE Options(r) = AllDirectOptions(b)
  BY <1>1, AllOptionsShown DEF WireDecisions
<1>2. CASE /\ r.type = "command"
           /\ Options(r) = Offered(r, b) \o DirectOptions(Absent(r), b)
  <2> HIDE DEF b
  <2>1. /\ Options(r) \in Seq(OptionSet(b))
        /\ Range(Options(r)) = Range(Offered(r, b)) \cup Range(DirectOptions(Absent(r), b))
    BY <1>2, OfferedShown, AbsentRefusals, DirectOptionsShown, Joined
  <2>2. ASSUME NEW w \in Refusals PROVE DirectOption(w, b) \in Range(Options(r))
    <3>1. CASE w \in Range(r.decisions)
      <4>1. PICK i \in DOMAIN r.decisions : r.decisions[i] = w
        BY <3>1 DEF Range
      <4>2. Offered(r, b)[i] = DirectOption(w, b) /\ i \in DOMAIN Offered(r, b)
        BY <4>1 DEF Offered, WireDecisions
      <4> QED BY <2>1, <4>2 DEF Range
    <3>2. CASE w \notin Range(r.decisions)
      <4>1. PICK i \in DOMAIN Absent(r) : Absent(r)[i] = w
        BY <3>2, AbsentRefusals DEF Range
      <4>2. DirectOptions(Absent(r), b)[i] = DirectOption(w, b)
            /\ i \in DOMAIN DirectOptions(Absent(r), b)
        BY <4>1 DEF DirectOptions
      <4> QED BY <2>1, <4>2 DEF Range
    <3> QED BY <3>1, <3>2
  <2> QED BY <1>2, <2>1, <2>2 DEF b
<1>3. \/ Options(r) = AllDirectOptions(b)
      \/ r.type = "command" /\ Options(r) = Offered(r, b) \o DirectOptions(Absent(r), b)
  <2>1. CASE r.type = "command"
    BY <2>1 DEF Options, Blocked, CommandOptions, Offered, Absent
  <2>2. CASE r.type = "file"
    BY <2>2 DEF Options, Blocked
  <2> QED BY <2>1, <2>2
<1> QED BY <1>1, <1>2, <1>3

\* Within the limits no id is shown twice.
LEMMA OptionsDiffer ==
  ASSUME NEW r \in Requests, r.type \in {"command", "file"}, ~ApprovalOverLimit(r)
  PROVE  /\ Len(Options(r)) <= MaxApprovalDecisionOptions
         /\ IsInjective([i \in DOMAIN Options(r) |-> Options(r)[i].id])
<1> DEFINE b == Blocked(r)
           s == Offered(r, b)
           t == DirectOptions(Absent(r), b)
<1>1. CASE Options(r) = AllDirectOptions(b)
  <2>1. /\ Options(r) \in Seq(OptionSet(b)) /\ Len(Options(r)) = 4
        /\ \A i \in 1..4, j \in 1..4 : Options(r)[i].id = Options(r)[j].id => i = j
    BY <1>1, AllOptionsShown
  <2> HIDE DEF b
  <2>2. DOMAIN Options(r) = 1..4
    BY <2>1
  <2> QED BY <2>1, <2>2, LimitsAssumption DEF IsInjective
<1>2. CASE r.type = "command" /\ Options(r) = s \o t
  <2>1. /\ s \in Seq(OptionSet(b)) /\ t \in Seq(OptionSet(b))
        /\ DOMAIN s = DOMAIN r.decisions /\ DOMAIN t = DOMAIN Absent(r)
    BY <1>2, OfferedShown, AbsentRefusals, DirectOptionsShown DEF DirectOptions
  <2>2. ~RepeatsDecision(r.decisions) /\ ~(Len(Options(r)) > MaxApprovalDecisionOptions)
    BY <1>2 DEF ApprovalOverLimit
  <2>3. \A i \in DOMAIN s : \/ r.decisions[i] \in WireDecisions /\ s[i].id = <<"decision", r.decisions[i]>>
                            \/ s[i].id = <<"advanced", i>>
    BY DEF Offered, DirectOption, AdvancedOption
  <2>4. \A i \in DOMAIN t : t[i].id = <<"decision", Absent(r)[i]>>
    BY DEF DirectOptions, DirectOption
  <2>5. \A i \in DOMAIN Absent(r), j \in DOMAIN r.decisions : Absent(r)[i] # r.decisions[j]
    <3>1. Range(Absent(r)) \cap Range(r.decisions) = {}
      BY AbsentRefusals
    <3> QED BY <3>1 DEF Range
  <2>6. DOMAIN r.decisions = 1..Len(r.decisions) /\ Len(r.decisions) \in Nat
    BY <1>2, OfferedShown
  <2> HIDE DEF s, t, b
  <2>7. \A i \in DOMAIN s, j \in DOMAIN t : s[i].id # t[j].id
    <3>1. \A v, w, i : <<"decision", w>> # <<"advanced", i>>
                       /\ (<<"decision", v>> = <<"decision", w>> => v = w)
      OBVIOUS
    <3> QED BY <2>1, <2>3, <2>4, <2>5, <3>1
  <2>8. ASSUME NEW i \in DOMAIN s, NEW j \in DOMAIN s, s[i].id = s[j].id PROVE i = j
    <3>1. \A v, w, k, l : /\ <<"decision", w>> # <<"advanced", k>>
                          /\ (<<"decision", v>> = <<"decision", w>> => v = w)
                          /\ (<<"advanced", k>> = <<"advanced", l>> => k = l)
      OBVIOUS
    <3>2. \/ i = j
          \/ r.decisions[i] = r.decisions[j] /\ r.decisions[i] \in WireDecisions
      BY <2>3, <2>8, <3>1
    <3>3. i = j \/ (~(i < j) /\ ~(j < i))
      BY <2>1, <2>2, <3>2 DEF RepeatsDecision
    <3> QED BY <2>1, <2>6, <3>3
  <2>9. ASSUME NEW i \in DOMAIN t, NEW j \in DOMAIN t, t[i].id = t[j].id PROVE i = j
    <3>1. \A v, w : <<"decision", v>> = <<"decision", w>> => v = w
      OBVIOUS
    <3> QED BY <2>1, <2>4, <2>9, <3>1, AbsentRefusals DEF IsInjective
  <2>10. /\ Len(s) \in Nat /\ Len(t) \in Nat
         /\ DOMAIN s = 1..Len(s) /\ DOMAIN t = 1..Len(t)
         /\ DOMAIN (s \o t) = 1..(Len(s) + Len(t)) /\ Len(s \o t) = Len(s) + Len(t)
         /\ \A i \in 1..Len(s) : (s \o t)[i] = s[i]
         /\ \A i \in 1..Len(t) : (s \o t)[Len(s) + i] = t[i]
    BY <2>1
  <2>11. ASSUME NEW i \in 1..(Len(s) + Len(t))
         PROVE  \/ i \in DOMAIN s /\ (s \o t)[i] = s[i]
                \/ /\ i - Len(s) \in DOMAIN t /\ (s \o t)[i] = t[i - Len(s)]
                   /\ i = Len(s) + (i - Len(s))
    <3>1. CASE i <= Len(s)
      BY <2>10, <3>1
    <3>2. CASE i > Len(s)
      <4>1. i - Len(s) \in 1..Len(t) /\ i = Len(s) + (i - Len(s))
        BY <2>10, <3>2
      <4> QED BY <2>10, <4>1
    <3> QED BY <2>10, <3>1, <3>2
  <2>12. ASSUME NEW i \in 1..(Len(s) + Len(t)), NEW j \in 1..(Len(s) + Len(t)),
                (s \o t)[i].id = (s \o t)[j].id
         PROVE  i = j
    BY <2>7, <2>8, <2>9, <2>11, <2>12
  <2>13. Len(Options(r)) <= MaxApprovalDecisionOptions
    BY <1>2, <2>2, <2>10, LimitsAssumption
  <2> QED BY <1>2, <2>10, <2>12, <2>13 DEF IsInjective
<1> QED BY <1>1, <1>2, OptionsShown

\* What ValidateResponse finds under an id is the option that is shown under it,
\* and this one can be selected.
LEMMA ApprovalFound ==
  ASSUME NEW r \in Requests, r.type \in {"command", "file"}
  PROVE  /\ \A o \in Range(Options(r)) :
              o.selectable => /\ o.id \in DOMAIN ApprovalRecord(r)
                              /\ ApprovalRecord(r)[o.id] = o.wire
         /\ \A id \in DOMAIN ApprovalRecord(r) :
              \E o \in Range(Options(r)) : /\ o.id = id /\ o.selectable
                                           /\ ApprovalRecord(r)[id] = o.wire
<1>1. Options(r) \in Seq(OptionSet(Blocked(r))) /\ Range(Options(r)) \subseteq OptionSet(Blocked(r))
  <2>1. Options(r) \in Seq(OptionSet(Blocked(r)))
    BY OptionsShown
  <2> QED BY <2>1 DEF Range
<1>2. \A o, p \in Range(Options(r)) : o.id = p.id => o = p
  BY <1>1, IdNamesOption
<1>3. DOMAIN ApprovalRecord(r) = {o.id : o \in {p \in Range(Options(r)) : p.selectable}}
  BY DEF ApprovalRecord, Range
<1>4. ASSUME NEW o \in Range(Options(r)), o.selectable PROVE ApprovalRecord(r)[o.id] = o.wire
  <2>1. ApprovalRecord(r)[o.id] = (CHOOSE p \in Range(Options(r)) : p.id = o.id).wire
    <3>1. o.id \in DOMAIN ApprovalRecord(r)
      BY <1>3, <1>4
    <3> QED BY <3>1 DEF ApprovalRecord
  <2>2. (CHOOSE p \in Range(Options(r)) : p.id = o.id) = o
    BY <1>2
  <2> QED BY <2>1, <2>2
<1> QED BY <1>3, <1>4

-----------------------------------------------------------------------------
(* Permissions                                                             *)

\* The atoms a permissions request can be made of.
PathAtomSet(V) == {[field |-> f, value |-> v, grantable |-> UnderCwd(v)] : f \in Lists, v \in V}
SectionPaths(section) == Range(section.entries) \cup Range(section.read) \cup Range(section.write)
AtomSet(r) ==
  {[field |-> "network", value |-> r.network, grantable |-> r.network = "on"]}
    \cup PathAtomSet(SectionPaths(r.fileSystem) \cup SectionPaths(r.root))

LEMMA PathAtomsType ==
  ASSUME NEW V, NEW paths, IsList(paths), Range(paths) \subseteq V, NEW f \in Lists
  PROVE  PathAtoms(paths, f) \in Seq(PathAtomSet(V))
<1>1. paths \in Seq(Range(paths))
  BY DEF IsList
<1>2. DOMAIN paths = 1..Len(paths) /\ Len(paths) \in Nat
  BY <1>1
<1>3. \A i \in DOMAIN paths : paths[i] \in V
  BY DEF Range
<1>4. PathAtoms(paths, f) \in [1..Len(paths) -> PathAtomSet(V)]
  BY <1>2, <1>3 DEF PathAtoms, PathAtomSet
<1> QED BY <1>2, <1>4

LEMMA SectionAtomsType ==
  ASSUME NEW V, NEW section, IsSection(section), SectionPaths(section) \subseteq V
  PROVE  FileSystemAtoms(section) \in Seq(PathAtomSet(V))
<1>1. /\ PathAtoms(section.entries, "entries") \in Seq(PathAtomSet(V))
      /\ PathAtoms(section.read, "read") \in Seq(PathAtomSet(V))
      /\ PathAtoms(section.write, "write") \in Seq(PathAtomSet(V))
  BY PathAtomsType DEF IsSection, SectionPaths, Lists
<1> QED BY <1>1, Joined DEF FileSystemAtoms

LEMMA AtomsType ==
  ASSUME NEW r \in Requests, r.type = "permissions"
  PROVE  /\ Atoms(r) \in Seq(AtomSet(r))
         /\ \A i \in DOMAIN Atoms(r) : Atoms(r)[i] \in AtomSet(r)
         /\ DOMAIN Atoms(r) = 1..Len(Atoms(r)) /\ Len(Atoms(r)) \in Nat
<1> DEFINE V == SectionPaths(r.fileSystem) \cup SectionPaths(r.root)
<1>1. IsSection(r.fileSystem) /\ IsSection(r.root)
  BY RequestsAssumption
<1>2. FileSystemAtoms(r.fileSystem) \in Seq(PathAtomSet(V))
  BY <1>1, SectionAtomsType
<1>3. FileSystemAtoms(r.root) \in Seq(PathAtomSet(V))
  BY <1>1, SectionAtomsType
<1>4. PathAtomSet(V) \subseteq AtomSet(r)
  BY DEF AtomSet
<1> HIDE DEF V
<1>5. FileSystemAtoms(r.fileSystem) \in Seq(AtomSet(r)) /\ FileSystemAtoms(r.root) \in Seq(AtomSet(r))
  BY <1>2, <1>3, <1>4
<1>6. NetworkAtoms(r.network) \in Seq(AtomSet(r))
  <2>1. [field |-> "network", value |-> r.network, grantable |-> r.network = "on"] \in AtomSet(r)
    BY DEF AtomSet
  <2> QED BY <2>1 DEF NetworkAtoms
<1>7. Atoms(r) \in Seq(AtomSet(r))
  BY <1>5, <1>6, Joined DEF Atoms
<1> QED BY <1>7

\* What can be granted.
LEMMA GrantableAtoms ==
  ASSUME NEW r, NEW atom \in AtomSet(r), atom.grantable
  PROVE  /\ atom.field \in Lists => atom.value \in CwdPaths
         /\ atom.field = "network" => r.network = "on"
<1> DEFINE net == [field |-> "network", value |-> r.network, grantable |-> r.network = "on"]
           V == SectionPaths(r.fileSystem) \cup SectionPaths(r.root)
<1>1. CASE atom = net
  <2>1. atom.field = "network" /\ atom.grantable = (r.network = "on")
    BY <1>1
  <2> QED BY <2>1 DEF Lists
<1>2. CASE atom \in PathAtomSet(V)
  <2>1. PICK f \in Lists, v \in V :
          atom = [field |-> f, value |-> v, grantable |-> UnderCwd(v)]
    BY <1>2 DEF PathAtomSet
  <2>2. atom.field = f /\ atom.value = v /\ atom.grantable = UnderCwd(v)
    BY <2>1
  <2> QED BY <2>2 DEF Lists, UnderCwd
<1> QED BY <1>1, <1>2 DEF AtomSet

\* The values that are granted in a field.
LEMMA GrantedValuesAre ==
  ASSUME NEW T, NEW grants \in Seq(T), NEW field
  PROVE  /\ Range(GrantedValues(grants, field))
              = {g.value : g \in {h \in Range(grants) : h.field = field}}
         /\ GrantedValues(grants, field) # << >> <=> \E g \in Range(grants) : g.field = field
<1> DEFINE S == {g \in Range(grants) : g.field = field}
           chosen == Among(grants, S)
<1>1. chosen \in Seq(T) /\ Range(chosen) = S
  BY AmongPicks
<1>2. GrantedValues(grants, field) = [i \in DOMAIN chosen |-> chosen[i].value]
  BY DEF GrantedValues
<1> HIDE DEF chosen
<1>3. /\ DOMAIN chosen = 1..Len(chosen) /\ Len(chosen) \in Nat
      /\ DOMAIN GrantedValues(grants, field) = 1..Len(chosen)
  BY <1>1, <1>2
<1>4. Range(GrantedValues(grants, field)) = {g.value : g \in S}
  BY <1>1, <1>2 DEF Range
<1>5. GrantedValues(grants, field) = << >> => S = {}
  BY <1>1, <1>2, <1>3 DEF Range
<1>6. S = {} => GrantedValues(grants, field) = << >>
  <2> SUFFICES ASSUME S = {} PROVE GrantedValues(grants, field) = << >>
    OBVIOUS
  <2>1. \A i \in 1..Len(chosen) : FALSE
    BY <1>1, <1>3 DEF Range
  <2>2. Len(chosen) = 0
    BY <1>3, <2>1
  <2>3. chosen = << >>
    BY <1>1, <2>2
  <2> QED BY <1>2, <2>3
<1> QED BY <1>4, <1>5, <1>6

-----------------------------------------------------------------------------
(* The request and its answer                                              *)

\* What the phase says of the request, and the payload of the answer; TLC checks
\* it on MCPendingSession.
AnswerInv ==
  /\ request \in Requests
  /\ phase = "resolved" => OverLimit(request) /\ payload = AutoResolution(request)
  /\ phase \notin {"idle", "resolved"} => ~OverLimit(request)
  /\ phase \in {"shown", "writing", "written"} => Mappable(Display(request))
  /\ phase = "unmappable" => ~Mappable(Display(request))
  /\ Claimed => /\ answer \in Sent(Display(request))
                /\ WellFormed(answer.response)
                /\ Valid(Record(request), answer.response)
                /\ payload = Payload(Record(request), answer.response)
  /\ refused => /\ phase = "shown"
                /\ answer \in Sent(Display(request))
                /\ ~(WellFormed(answer.response) /\ Valid(Record(request), answer.response))

LEMMA InitAnswerInv == PendingInit => AnswerInv
  BY DEF PendingInit, AnswerInv, Claimed

\* The responses that can be sent depend on nothing but the request.
LEMMA SentOfRequest ==
  ASSUME UNCHANGED request
  PROVE  Sent(Display(request))' = Sent(Display(request))
  BY DEF Sent, Built, RawResponses, AnswerLists, Chosen

LEMMA AnswerStep == AnswerInv /\ [PendingNext]_pendingVars => AnswerInv'
<1> SUFFICES ASSUME AnswerInv, [PendingNext]_pendingVars PROVE AnswerInv'
  OBVIOUS
<1>1. UNCHANGED request
  BY Zenon DEF PendingNext, pendingVars, sessionVars, CodexAsks, StreamSends, Respond,
     WriteResponse, WriteFails, CodexWrites, StderrPublishes, StderrEnds
<1>2. Sent(Display(request))' = Sent(Display(request))
  BY <1>1, SentOfRequest
<1>3. CASE CodexAsks
  BY <1>1, <1>2, <1>3 DEF AnswerInv, CodexAsks, Claimed
<1>4. CASE StreamSends
  BY <1>1, <1>2, <1>4 DEF AnswerInv, StreamSends, Claimed
<1>5. CASE phase = "shown" /\ \E a \in Sent(Display(request)) : Respond(a)
  <2>1. PICK a \in Sent(Display(request)) : Respond(a)
    BY <1>5
  <2>2. phase = "shown" /\ answer' = a
    BY <2>1 DEF Respond
  <2>3. CASE RespondMalformed(a)
    BY <1>1, <1>2, <2>1, <2>2, <2>3 DEF AnswerInv, RespondMalformed, Claimed
  <2>4. CASE RespondInvalid(a)
    BY <1>1, <1>2, <2>1, <2>2, <2>4 DEF AnswerInv, RespondInvalid, Claimed
  <2>5. CASE RespondClaims(a)
    BY <1>1, <1>2, <2>1, <2>2, <2>5 DEF AnswerInv, RespondClaims, Claimed
  <2> QED BY <2>1, <2>3, <2>4, <2>5 DEF Respond
<1>6. CASE WriteResponse
  BY <1>1, <1>2, <1>6 DEF AnswerInv, WriteResponse, Claimed
<1>7. CASE WriteFails
  BY <1>1, <1>2, <1>7 DEF AnswerInv, WriteFails, Claimed
<1>8. CASE UNCHANGED sessionVars
  BY <1>2, <1>8 DEF AnswerInv, sessionVars, Claimed
<1>9. CASE CodexWrites \/ StderrPublishes \/ StderrEnds \/ UNCHANGED pendingVars
  BY <1>8, <1>9, Zenon DEF CodexWrites, StderrPublishes, StderrEnds, pendingVars
<1> QED BY <1>3, <1>4, <1>5, <1>6, <1>7, <1>9, Zenon DEF PendingNext

\* The display and the record of a request.
LEMMA DisplayAndRecord ==
  ASSUME NEW r \in Requests
  PROVE  /\ r.type \in {"command", "file", "permissions", "elicitation", "questions"}
         /\ r.size \in Nat /\ Display(r).size = r.size
         /\ r.type \in {"command", "file"} =>
              /\ Display(r).type = "approval" /\ Display(r).options = Options(r)
              /\ Display(r).blocked = Blocked(r)
              /\ Record(r).type = "approval" /\ Record(r).options = ApprovalRecord(r)
         /\ r.type = "permissions" =>
              /\ Display(r).type = "permissions" /\ Display(r).atoms = ShownAtoms(r)
              /\ Record(r).type = "permissions" /\ Record(r).grants = PermissionGrants(r)
         /\ r.type = "elicitation" =>
              /\ Display(r).type = "elicitation" /\ Display(r).supported = (r.schema # "unsupported")
              /\ Record(r).type = "elicitation" /\ Record(r).sensitive = r.sensitive
         /\ r.type = "questions" =>
              /\ Display(r).type = "questions" /\ Display(r).questions = r.questions
              /\ Record(r).type = "questions" /\ Record(r).questions = r.questions
<1>1. /\ r.type \in {"command", "file", "permissions", "elicitation", "questions"}
      /\ r.size \in Nat
  BY RequestsAssumption
<1>2. CASE r.type \in {"command", "file"}
  BY <1>1, <1>2 DEF Display, Record
<1>3. CASE r.type = "permissions"
  BY <1>1, <1>3 DEF Display, Record
<1>4. CASE r.type = "elicitation"
  BY <1>1, <1>4 DEF Display, Record
<1>5. CASE r.type = "questions"
  BY <1>1, <1>5 DEF Display, Record
<1> QED BY <1>1, <1>2, <1>3, <1>4, <1>5

\* The lists of a response are lists.
LEMMA SequencesAreLists ==
  ASSUME NEW S, NEW max \in Nat, NEW s \in Sequences(S, max)
  PROVE  s \in Seq(S) /\ IsList(s) /\ Range(s) \subseteq S
<1>1. PICK n \in 0..max : s \in [1..n -> S]
  BY DEF Sequences
<1>2. n \in Nat /\ DOMAIN s = 1..n
  BY <1>1
<1>3. s \in Seq(S)
  BY <1>1, <1>2
<1>4. \A i \in 1..n : s[i] \in Range(s)
  BY <1>2 DEF Range
<1>5. s \in [1..n -> Range(s)]
  BY <1>1, <1>2, <1>4
<1>6. s \in Seq(Range(s))
  BY <1>2, <1>5
<1>7. Range(s) \subseteq S
  BY <1>1, <1>2 DEF Range
<1> QED BY <1>3, <1>6, <1>7 DEF IsList

\* The atoms as they are shown.
ShownSet(r) == {[id |-> PermissionID(i), field |-> atom.field, value |-> atom.value,
                 grantable |-> atom.grantable] : i \in Nat, atom \in AtomSet(r)}

LEMMA AtomsShown ==
  ASSUME NEW r \in Requests, r.type = "permissions"
  PROVE  /\ ShownAtoms(r) \in Seq(ShownSet(r)) /\ Len(ShownAtoms(r)) = Len(Atoms(r))
         /\ DOMAIN ShownAtoms(r) = DOMAIN Atoms(r)
         /\ \A i \in DOMAIN Atoms(r) :
              /\ ShownAtoms(r)[i].id = PermissionID(i)
              /\ ShownAtoms(r)[i].field = Atoms(r)[i].field
              /\ ShownAtoms(r)[i].value = Atoms(r)[i].value
              /\ ShownAtoms(r)[i].grantable = Atoms(r)[i].grantable
<1>1. /\ DOMAIN Atoms(r) = 1..Len(Atoms(r)) /\ Len(Atoms(r)) \in Nat
      /\ \A i \in DOMAIN Atoms(r) : Atoms(r)[i] \in AtomSet(r)
  BY AtomsType
<1>2. \A i \in DOMAIN Atoms(r) : i \in Nat
  BY <1>1
<1>3. \A i \in DOMAIN Atoms(r) :
        [id |-> PermissionID(i), field |-> Atoms(r)[i].field, value |-> Atoms(r)[i].value,
         grantable |-> Atoms(r)[i].grantable] \in ShownSet(r)
  <2>1. ASSUME NEW i \in Nat, NEW atom \in AtomSet(r)
        PROVE  [id |-> PermissionID(i), field |-> atom.field, value |-> atom.value,
                grantable |-> atom.grantable] \in ShownSet(r)
    BY DEF ShownSet
  <2> QED BY <1>1, <1>2, <2>1, Zenon
<1>4. ShownAtoms(r) \in [1..Len(Atoms(r)) -> ShownSet(r)]
  BY <1>1, <1>3 DEF ShownAtoms
<1>5. ShownAtoms(r) \in Seq(ShownSet(r))
  BY <1>1, <1>4
<1>6. Len(ShownAtoms(r)) = Len(Atoms(r)) /\ DOMAIN ShownAtoms(r) = DOMAIN Atoms(r)
  BY <1>1, <1>4, <1>5
<1>7. ASSUME NEW i \in DOMAIN Atoms(r)
      PROVE  /\ ShownAtoms(r)[i].id = PermissionID(i)
             /\ ShownAtoms(r)[i].field = Atoms(r)[i].field
             /\ ShownAtoms(r)[i].value = Atoms(r)[i].value
             /\ ShownAtoms(r)[i].grantable = Atoms(r)[i].grantable
  BY DEF ShownAtoms
<1> QED BY <1>5, <1>6, <1>7

\* The ids that the SDK takes for all that can be granted.
LEMMA GrantableIDsShown ==
  ASSUME NEW r \in Requests, r.type = "permissions"
  PROVE  /\ IsList(GrantableIDs(Display(r)))
         /\ Range(GrantableIDs(Display(r)))
              = {PermissionID(i) : i \in {k \in DOMAIN Atoms(r) : Atoms(r)[k].grantable}}
<1> DEFINE d == Display(r)
           S == {atom \in Range(ShownAtoms(r)) : atom.grantable}
           g == Among(ShownAtoms(r), S)
<1>1. GrantableIDs(d) = [i \in DOMAIN g |-> g[i].id]
  BY DisplayAndRecord DEF GrantableIDs
<1>2. g \in Seq(ShownSet(r)) /\ Range(g) = S
  BY AtomsShown, AmongPicks
<1> HIDE DEF g, d
<1>3. DOMAIN g = 1..Len(g) /\ Len(g) \in Nat
  BY <1>2
<1>4. \A i \in 1..Len(g) : GrantableIDs(d)[i] \in Range(GrantableIDs(d))
  BY <1>1, <1>3 DEF Range
<1>5. GrantableIDs(d) \in [1..Len(g) -> Range(GrantableIDs(d))]
  BY <1>1, <1>3, <1>4
<1>6. GrantableIDs(d) \in Seq(Range(GrantableIDs(d)))
  BY <1>3, <1>5
<1>7. Range(GrantableIDs(d)) = {atom.id : atom \in S}
  BY <1>1, <1>2 DEF Range
<1>8. S = {ShownAtoms(r)[i] : i \in {k \in DOMAIN Atoms(r) : Atoms(r)[k].grantable}}
  BY AtomsShown DEF Range
<1>9. {atom.id : atom \in S}
        = {PermissionID(i) : i \in {k \in DOMAIN Atoms(r) : Atoms(r)[k].grantable}}
  <2> HIDE DEF S
  <2> QED BY <1>8, AtomsShown
<1> QED BY <1>6, <1>7, <1>9 DEF IsList, d

LEMMA SentLists ==
  ASSUME request \in Requests, NEW a \in Sent(Display(request))
  PROVE  /\ a.response.type = "permissions" => IsList(a.response.ids)
         /\ a.response.type = "questions" =>
              /\ a.response.answers \in Seq([id : ShownIDs(Display(request)) \cup {UnknownID},
                                             values : Sequences(Values, MaxValues)])
<1> DEFINE d == Display(request)
           ids == ShownIDs(d) \cup {UnknownID}
           Entries == [id : ids, values : Sequences(Values, MaxValues)]
<1>1. Chosen \in Nat
  BY BoundsAssumption DEF Chosen
<1>2. IsList(<< >>)
  BY DEF IsList, Range
<1>3. \A s \in Sequences(ids, Chosen) : IsList(s)
  BY <1>1, SequencesAreLists, Zenon
<1>4. \A s \in AnswerLists(d) : s \in Seq(Entries)
  BY <1>1, SequencesAreLists, Zenon DEF AnswerLists
<1>5. \A id : Approval(id).type = "approval"
  BY DEF Approval
<1>6. \A action, c : Elicitation(action, c).type = "elicitation"
  BY DEF Elicitation
<1>7. \A s, scope, strict : /\ Permissions(s, scope, strict).type = "permissions"
                            /\ Permissions(s, scope, strict).ids = s
  BY DEF Permissions
<1>8. \A s : Answers(s).type = "questions" /\ Answers(s).answers = s
  BY DEF Answers
<1>9. d.type \in {"approval", "permissions", "elicitation", "questions"}
  BY DisplayAndRecord
<1> HIDE DEF d, ids, Entries
<1> DEFINE Fit(b) == /\ b.type = "permissions" => IsList(b.ids)
                     /\ b.type = "questions" => b.answers \in Seq(Entries)
<1>10. ASSUME NEW b \in RawResponses(d) PROVE Fit(b)
  <2>1. CASE d.type = "approval"
    <3>1. (\E id : b = Approval(id)) \/ b = Permissions(<< >>, "unspecified", FALSE)
      <4>1. RawResponses(d) = {Approval(id) : id \in ids}
                                \cup {Permissions(<< >>, "unspecified", FALSE)}
        BY <2>1 DEF RawResponses, ids
      <4> QED BY <1>10, <4>1, Zenon
    <3>2. CASE \E id : b = Approval(id)
      BY <3>2, <1>5
    <3>3. CASE b = Permissions(<< >>, "unspecified", FALSE)
      BY <3>3, <1>2, <1>7
    <3> QED BY <3>1, <3>2, <3>3
  <2>2. CASE d.type = "permissions"
    <3>1. \E s \in Sequences(ids, Chosen) : \E scope, strict : b = Permissions(s, scope, strict)
      BY <1>10, <2>2 DEF RawResponses, ids
    <3> QED BY <3>1, <1>3, <1>7
  <2>3. CASE d.type = "elicitation"
    <3>1. \E action, c : b = Elicitation(action, c)
      BY <1>10, <2>3 DEF RawResponses
    <3> QED BY <3>1, <1>6
  <2>4. CASE d.type = "questions"
    <3>1. \E s \in AnswerLists(d) : b = Answers(s)
      BY <1>10, <2>4 DEF RawResponses
    <3> QED BY <3>1, <1>4, <1>8
  <2> QED BY <1>9, <2>1, <2>2, <2>3, <2>4
<1>11. ASSUME NEW e \in Built(d) PROVE Fit(e.response)
  <2>1. CASE d.type = "approval"
    <3>1. \E id : e.response = Approval(id)
      BY <1>11, <2>1 DEF Built, Choose, Approve, DenyApproval, CancelApproval, ChooseByKind
    <3> QED BY <3>1, <1>5
  <2>2. CASE d.type = "permissions"
    <3>1. \/ \E s \in Sequences(ids, Chosen) :
               e.response \in GrantTurn(d, s) \cup GrantSession(d, s)
                                \cup GrantTurnRelaxed(d, s) \cup GrantSessionRelaxed(d, s)
          \/ e.response \in DenyPermissions(d)
      BY <1>11, <2>2 DEF Built, ids
    <3>2. IsList(GrantableIDs(d))
      <4>1. request.type = "permissions"
        BY <2>2, DisplayAndRecord DEF d
      <4> QED BY <4>1, GrantableIDsShown DEF d
    <3>3. \A s \in Sequences(ids, Chosen) : \A scope, strict : \A b \in Grant(d, scope, s, strict) :
            \E t : IsList(t) /\ b = Permissions(t, scope, strict)
      BY <1>3, <3>2 DEF Grant
    <3>4. CASE e.response \in DenyPermissions(d)
      <4>1. e.response = Permissions(<< >>, "turn", FALSE)
        BY <3>4 DEF DenyPermissions
      <4>2. e.response.type = "permissions" /\ e.response.ids = << >>
        BY <4>1 DEF Permissions
      <4> QED BY <4>2, <1>2
    <3>5. CASE \E s \in Sequences(ids, Chosen) : \E scope, strict :
               e.response \in Grant(d, scope, s, strict)
      <4>1. \E t, scope, strict : IsList(t) /\ e.response = Permissions(t, scope, strict)
        BY <3>3, <3>5
      <4> QED BY <4>1, <1>7
    <3>6. \/ \E s \in Sequences(ids, Chosen) : \E scope, strict :
               e.response \in Grant(d, scope, s, strict)
          \/ e.response \in DenyPermissions(d)
      BY <3>1, Zenon DEF GrantTurn, GrantSession, GrantTurnRelaxed, GrantSessionRelaxed
    <3> QED BY <3>4, <3>5, <3>6
  <2>3. CASE d.type = "elicitation"
    <3>1. \E action, c : e.response = Elicitation(action, c)
      BY <1>11, <2>3 DEF Built, Submit, SubmitJSON, CancelInput
    <3> QED BY <3>1, <1>6
  <2>4. CASE d.type = "questions"
    <3>1. \E s \in AnswerLists(d) : e.response = Answers(s)
      BY <1>11, <2>4 DEF Built, Answer
    <3> QED BY <3>1, <1>4, <1>8
  <2> QED BY <1>9, <2>1, <2>2, <2>3, <2>4
<1>12. CASE \E b \in RawResponses(d) : a = [by |-> "raw", response |-> b]
  <2>1. Fit(a.response)
    BY <1>10, <1>12
  <2> QED BY <2>1 DEF d, ids, Entries
<1>13. CASE a \in Built(d)
  <2>1. Fit(a.response)
    BY <1>11, <1>13
  <2> QED BY <2>1 DEF d, ids, Entries
<1> QED BY <1>12, <1>13 DEF Sent, d

-----------------------------------------------------------------------------
(* Announced requests can be shown and turned down                         *)

\* A decision that refuses is among the options, and can be chosen.
LEMMA RefusalShown ==
  ASSUME NEW r \in Requests, r.type \in {"command", "file"}, NEW w \in Refusals
  PROVE  \E o \in Range(Options(r)) : o.id = <<"decision", w>> /\ o.selectable /\ o.wire = w
<1>1. DirectOption(w, Blocked(r)) \in Range(Options(r))
  BY OptionsShown
<1>2. w \notin Accepts
  BY DEF Refusals, Accepts
<1> QED BY <1>1, <1>2 DEF DirectOption

LEMMA ApprovalMappable ==
  ASSUME NEW r \in Requests, r.type \in {"command", "file"}, ~ApprovalOverLimit(r)
  PROVE  OptionsMappable(Display(r))
<1>1. Display(r).options = Options(r) /\ Display(r).blocked = Blocked(r)
  BY DisplayAndRecord
<1>2. "decline" \in Refusals
  BY DEF Refusals
<1>3. \E o \in Range(Options(r)) : o.selectable /\ o.wire \in Refusals
  BY <1>2, RefusalShown
<1>4. ASSUME NEW o \in Range(Options(r)), o.selectable
      PROVE  o.wire # "none" /\ ~(Blocked(r) /\ o.wire \in Accepts)
  <2>1. Options(r) \in Seq(OptionSet(Blocked(r)))
    BY OptionsShown
  <2>2. o \in OptionSet(Blocked(r))
    BY <2>1 DEF Range
  <2>3. "none" \notin WireDecisions
    BY DEF WireDecisions, Accepts, Refusals
  <2> QED BY <1>4, <2>2, <2>3, SelectableOptions
<1> QED BY <1>1, <1>3, <1>4, OptionsDiffer DEF OptionsMappable

LEMMA PermissionsMappable ==
  ASSUME NEW r \in Requests, r.type = "permissions", ~(Len(Atoms(r)) > MaxPermissionAtoms)
  PROVE  AtomsMappable(ShownAtoms(r))
<1>1. Len(ShownAtoms(r)) <= MaxPermissionAtoms
  BY AtomsShown, AtomsType, LimitsAssumption
<1>2. ASSUME NEW i \in DOMAIN Atoms(r), NEW j \in DOMAIN Atoms(r),
             ShownAtoms(r)[i].id = ShownAtoms(r)[j].id
      PROVE  i = j
  BY <1>2, AtomsShown DEF PermissionID
<1>3. IsInjective([i \in DOMAIN ShownAtoms(r) |-> ShownAtoms(r)[i].id])
  BY <1>2, AtomsShown DEF IsInjective
<1> QED BY <1>1, <1>3 DEF AtomsMappable

\* The questions of a request are a list with one question for an id.
LEMMA QuestionsDiffer ==
  ASSUME NEW r \in Requests, r.type = "questions", ~QuestionsOverLimit(r)
  PROVE  /\ DOMAIN r.questions = 1..Len(r.questions) /\ Len(r.questions) \in Nat
         /\ Len(r.questions) <= MaxToolUserInputQuestions
         /\ IsInjective([i \in DOMAIN r.questions |-> r.questions[i].id])
         /\ \A i \in DOMAIN r.questions :
              Len(r.questions[i].options) <= MaxToolUserInputOptionsPerQuestion
<1>1. /\ r.questions \in Seq(Range(r.questions))
      /\ \A i \in DOMAIN r.questions : r.questions[i].options \in Seq(Range(r.questions[i].options))
  BY RequestsAssumption DEF IsList
<1>2. DOMAIN r.questions = 1..Len(r.questions) /\ Len(r.questions) \in Nat
  BY <1>1
<1>3. Len(r.questions) <= MaxToolUserInputQuestions
  BY <1>2, LimitsAssumption DEF QuestionsOverLimit
<1>4. ASSUME NEW i \in DOMAIN r.questions, NEW j \in DOMAIN r.questions,
             r.questions[i].id = r.questions[j].id
      PROVE  i = j
  <2>1. ~(i < j) /\ ~(j < i)
    BY <1>4 DEF QuestionsOverLimit
  <2> QED BY <1>2, <2>1
<1>5. IsInjective([i \in DOMAIN r.questions |-> r.questions[i].id])
  BY <1>4 DEF IsInjective
<1>6. ASSUME NEW i \in DOMAIN r.questions
      PROVE  Len(r.questions[i].options) <= MaxToolUserInputOptionsPerQuestion
  <2>1. ~(Len(r.questions[i].options) > MaxToolUserInputOptionsPerQuestion)
    BY DEF QuestionsOverLimit
  <2>2. Len(r.questions[i].options) \in Nat
    BY <1>1
  <2> QED BY <2>1, <2>2, LimitsAssumption
<1> QED BY <1>2, <1>3, <1>5, <1>6

\* Build lets nothing through that the outbound checks would stop, but for its size.
LEMMA WithinLimitsMappable ==
  ASSUME NEW r \in Requests, ~OverLimit(r), ~Mappable(Display(r))
  PROVE  r.size > MaxDisplayPayload
<1> SUFFICES ASSUME r.size <= MaxDisplayPayload PROVE FALSE
  BY DisplayAndRecord, LimitsAssumption
<1>1. CASE r.type \in {"command", "file"}
  <2>1. OptionsMappable(Display(r))
    BY <1>1, ApprovalMappable DEF OverLimit
  <2> QED BY <1>1, <2>1, DisplayAndRecord DEF Mappable
<1>2. CASE r.type = "permissions"
  <2>1. AtomsMappable(ShownAtoms(r))
    BY <1>2, PermissionsMappable DEF OverLimit
  <2> QED BY <1>2, <2>1, DisplayAndRecord, ZenonT(30) DEF Mappable
<1>3. CASE r.type = "elicitation"
  BY <1>3, DisplayAndRecord DEF Mappable
<1>4. CASE r.type = "questions"
  <2>1. ~QuestionsOverLimit(r)
    BY <1>4 DEF OverLimit
  <2>2. QuestionsMappable(r.questions)
    BY <1>4, <2>1, QuestionsDiffer DEF QuestionsMappable, Range
  <2> QED BY <1>4, <2>2, DisplayAndRecord DEF Mappable
<1> QED BY <1>1, <1>2, <1>3, <1>4, DisplayAndRecord

LEMMA EmptyList ==
  /\ << >> \in Seq({}) /\ Len(<< >>) = 0 /\ DOMAIN << >> = {} /\ Range(<< >>) = {}
  /\ IsInjective(<< >>)
  /\ \A S : \A max \in Nat : << >> \in Sequences(S, max)
<1>1. << >> \in Seq({}) /\ Len(<< >>) = 0 /\ DOMAIN << >> = {} /\ Range(<< >>) = {}
  BY DEF Range
<1>2. IsInjective(<< >>)
  BY DEF IsInjective
<1>3. ASSUME NEW S, NEW max \in Nat PROVE << >> \in Sequences(S, max)
  <2>1. 0 \in 0..max /\ << >> \in [1..0 -> S]
    BY <1>3
  <2> QED BY <2>1 DEF Sequences
<1> QED BY <1>1, <1>2, <1>3

\* No ids grant nothing.
LEMMA NoIDsGrantNothing ==
  ASSUME NEW record, NEW a, a.ids = << >>, a.scope # "session", a.strict = FALSE
  PROVE  GrantPayload(record, a) = NoPermissions
<1> DEFINE grants == [i \in DOMAIN a.ids |-> record.grants[a.ids[i]]]
<1>1. grants = << >>
  BY EmptyList
<1>2. \A f : GrantedValues(<< >>, f) = << >>
  <2>1. Range(<< >>) = {} /\ << >> \in Seq({})
    BY EmptyList
  <2> QED BY <2>1, GrantedValuesAre
<1> HIDE DEF grants
<1>3. GrantPayload(record, a)
        = [network |-> GrantedValues(grants, "network") # << >>,
           entries |-> GrantedValues(grants, "entries"), read |-> GrantedValues(grants, "read"),
           write   |-> GrantedValues(grants, "write"),
           scope   |-> IF a.scope = "session" THEN "session" ELSE "turn",
           strict  |-> a.strict]
  BY DEF GrantPayload, grants
<1>4. GrantPayload(record, a)
        = [network |-> FALSE, entries |-> << >>, read |-> << >>, write |-> << >>,
           scope |-> "turn", strict |-> FALSE]
  BY <1>1, <1>2, <1>3
<1> QED BY <1>4 DEF NoPermissions

\* Some response to every display turns the request down.
LEMMA RefusalExists ==
  ASSUME request \in Requests
  PROVE  \E a \in RawResponses(Display(request)) :
           /\ WellFormed(a)
           /\ Valid(Record(request), a)
           /\ GrantsNothing(Payload(Record(request), a))
<1> DEFINE r == request
           d == Display(r)
<1>1. Chosen \in Nat
  BY BoundsAssumption DEF Chosen
<1>2. CASE r.type \in {"command", "file"}
  <2> DEFINE id == <<"decision", "decline">>
             a == Approval(id)
  <2>1. PICK o \in Range(Options(r)) : o.id = id /\ o.selectable /\ o.wire = "decline"
    BY <1>2, RefusalShown DEF Refusals
  <2>2. id \in ShownIDs(d)
    <3>1. ShownIDs(d) = {p.id : p \in Range(Options(r))}
      BY <1>2, DisplayAndRecord DEF ShownIDs
    <3> QED BY <2>1, <3>1
  <2>3. id \in DOMAIN ApprovalRecord(r) /\ ApprovalRecord(r)[id] = "decline"
    BY <1>2, <2>1, ApprovalFound
  <2> HIDE DEF id
  <2>4. a.type = "approval" /\ a.id = id
    BY DEF Approval
  <2>5. a \in RawResponses(d)
    <3>1. d.type = "approval"
      BY <1>2, DisplayAndRecord
    <3>2. RawResponses(d) = {Approval(i) : i \in ShownIDs(d) \cup {UnknownID}}
                              \cup {Permissions(<< >>, "unspecified", FALSE)}
      BY <3>1 DEF RawResponses
    <3> QED BY <2>2, <3>2
  <2> HIDE DEF a
  <2>6. WellFormed(a) /\ Valid(Record(r), a)
    BY <1>2, <2>3, <2>4, DisplayAndRecord DEF WellFormed, Valid
  <2>7. Payload(Record(r), a) = [decision |-> "decline"]
    BY <1>2, <2>3, <2>4, DisplayAndRecord DEF Payload
  <2>8. GrantsNothing(Payload(Record(r), a))
    <3>1. Payload(Record(r), a).decision \in Refusals
      BY <2>7 DEF Refusals
    <3> QED BY <1>2, <3>1, Zenon DEF GrantsNothing
  <2> QED BY <2>5, <2>6, <2>8
<1>3. CASE r.type = "permissions"
  <2> DEFINE a == Permissions(<< >>, "unspecified", FALSE)
  <2>1. a.type = "permissions" /\ a.ids = << >> /\ a.scope = "unspecified" /\ a.strict = FALSE
    BY DEF Permissions
  <2>2. a \in RawResponses(d)
    <3>1. d.type = "permissions"
      BY <1>3, DisplayAndRecord
    <3> DEFINE S == Sequences(ShownIDs(d) \cup {UnknownID}, Chosen)
               Q == {Permissions(s, scope, strict) :
                       s \in S, scope \in {"unspecified", "turn", "session"},
                       strict \in BOOLEAN}
    <3>2. RawResponses(d) = Q
      BY <3>1 DEF RawResponses
    <3>3. << >> \in S
      BY <1>1, EmptyList
    <3> HIDE DEF S
    <3>4. a \in Q
      <4>1. ASSUME NEW s \in S, NEW scope \in {"unspecified", "turn", "session"},
                   NEW strict \in BOOLEAN
            PROVE  Permissions(s, scope, strict) \in Q
        OBVIOUS
      <4>2. "unspecified" \in {"unspecified", "turn", "session"} /\ FALSE \in BOOLEAN
        OBVIOUS
      <4> HIDE DEF Q
      <4> QED BY <3>3, <4>1, <4>2
    <3> HIDE DEF Q, a
    <3> QED BY <3>2, <3>4
  <2> HIDE DEF a
  <2>3. WellFormed(a)
    BY <2>1, EmptyList, LimitsAssumption DEF WellFormed, PermissionsWellFormed
  <2>4. Valid(Record(r), a)
    BY <1>3, <2>1, EmptyList, DisplayAndRecord DEF Valid, GrantsValid
  <2>5. Payload(Record(r), a) = NoPermissions
    BY <2>1, NoIDsGrantNothing DEF Payload
  <2>6. GrantsNothing(Payload(Record(r), a))
    BY <1>3, <2>5 DEF GrantsNothing
  <2> QED BY <2>2, <2>3, <2>4, <2>6
<1>4. CASE r.type = "elicitation"
  <2> DEFINE a == Elicitation("cancel", NoContent)
  <2>1. a.type = "elicitation" /\ a.action = "cancel" /\ a.content = NoContent
    BY DEF Elicitation
  <2>2. a \in RawResponses(d)
    <3>1. d.type = "elicitation"
      BY <1>4, DisplayAndRecord
    <3>2. RawResponses(d) = {Elicitation(action, c) : action \in {"accept", "decline", "cancel"},
                                                      c \in Contents}
      BY <3>1 DEF RawResponses
    <3> QED BY <3>2 DEF Contents
  <2> HIDE DEF a
  <2>3. WellFormed(a) /\ Valid(Record(r), a)
    BY <1>4, <2>1, DisplayAndRecord DEF WellFormed, Valid, ElicitationWellFormed
  <2>4. Payload(Record(r), a) = [action |-> "cancel", content |-> NoContent]
    BY <2>1 DEF Payload
  <2>5. GrantsNothing(Payload(Record(r), a))
    BY <1>4, <2>4 DEF GrantsNothing, Refusals
  <2> QED BY <2>2, <2>3, <2>5
<1>5. CASE r.type = "questions"
  <2> DEFINE a == Answers(<< >>)
  <2>1. a.type = "questions" /\ a.answers = << >>
    BY DEF Answers
  <2>2. a \in RawResponses(d)
    <3>1. d.type = "questions"
      BY <1>5, DisplayAndRecord
    <3>2. RawResponses(d) = {Answers(s) : s \in AnswerLists(d)}
      BY <3>1 DEF RawResponses
    <3>3. << >> \in AnswerLists(d)
      BY <1>1, EmptyList DEF AnswerLists
    <3> QED BY <3>2, <3>3
  <2> HIDE DEF a
  <2>3. AnsweredIDs(a) = << >>
    BY <2>1, EmptyList DEF AnsweredIDs
  <2>4. WellFormed(a)
    BY <2>1, <2>3, EmptyList, LimitsAssumption DEF WellFormed, AnswersWellFormed
  <2>5. Valid(Record(r), a)
    BY <1>5, <2>1, EmptyList, DisplayAndRecord DEF Valid
  <2>6. DOMAIN Payload(Record(r), a).answers = {}
    BY <2>1, <2>3, EmptyList DEF Payload
  <2>7. GrantsNothing(Payload(Record(r), a))
    BY <1>5, <2>6 DEF GrantsNothing
  <2> QED BY <2>2, <2>4, <2>5, <2>7
<1> QED BY <1>2, <1>3, <1>4, <1>5, DisplayAndRecord

LEMMA AnswerInvHolds == PendingSpec => []AnswerInv
  BY InitAnswerInv, AnswerStep, PTL DEF PendingSpec

\* Whatever decisions, permissions, fields or questions the app server sends, a
\* request that is announced can be shown unless its texts are too long together,
\* and a response turns it down (commandDecisionOptions, pending/build.go, with
\* pendingRequestDisplayMappingFailure, mapping_string_limits.go, and
\* ValidateResponse, pending/response.go).
THEOREM RefusalAlwaysPossible == PendingSpec => []RefusalIsPossible
<1>1. AnswerInv => RefusalIsPossible
  BY RefusalExists, WithinLimitsMappable DEF AnswerInv, RefusalIsPossible
<1> QED BY <1>1, AnswerInvHolds, PTL

-----------------------------------------------------------------------------
(* What is written                                                         *)

\* The atoms with the chosen ids, and what the record grants under the ids.
ChosenAtoms(r, a) == {atom \in Range(ShownAtoms(r)) : atom.id \in Range(a.ids)}
GrantsOf(record, a) == [i \in DOMAIN a.ids |-> record.grants[a.ids[i]]]

\* The atoms with the chosen ids are those that are granted, one for an id.
LEMMA PermissionsChosen ==
  ASSUME NEW r \in Requests, r.type = "permissions", NEW a, IsList(a.ids),
         GrantsValid(Record(r), a)
  PROVE  /\ GrantsOf(Record(r), a) \in Seq(AtomSet(r))
         /\ \A g \in Range(GrantsOf(Record(r), a)) : g.grantable
         /\ \A atom \in ChosenAtoms(r, a) : atom.grantable
         /\ Cardinality(ChosenAtoms(r, a)) = Len(a.ids)
         /\ \A g \in Range(GrantsOf(Record(r), a)) :
              \E atom \in ChosenAtoms(r, a) : atom.field = g.field /\ atom.value = g.value
         /\ \A atom \in ChosenAtoms(r, a) :
              \E g \in Range(GrantsOf(Record(r), a)) :
                g.field = atom.field /\ g.value = atom.value
<1>0. PICK chosen, grants : chosen = ChosenAtoms(r, a) /\ grants = GrantsOf(Record(r), a)
  OBVIOUS
<1> DEFINE n == Len(a.ids)
           number(k) == a.ids[k][2]
           c == [k \in 1..n |-> ShownAtoms(r)[number(k)]]
<1>1. n \in Nat /\ DOMAIN a.ids = 1..n /\ a.ids \in Seq(Range(a.ids))
  BY DEF IsList
<1>2. /\ \A i \in DOMAIN Atoms(r) : Atoms(r)[i] \in AtomSet(r)
      /\ Record(r).grants = PermissionGrants(r)
  BY AtomsType, DisplayAndRecord
<1>3. ASSUME NEW k \in 1..n
      PROVE  /\ number(k) \in DOMAIN Atoms(r) /\ Atoms(r)[number(k)].grantable
             /\ a.ids[k] = PermissionID(number(k))
             /\ Record(r).grants[a.ids[k]] = Atoms(r)[number(k)]
  <2>1. a.ids[k] \in DOMAIN PermissionGrants(r)
    BY <1>1, <1>2 DEF GrantsValid, Range
  <2>2. PICK i \in DOMAIN Atoms(r) : Atoms(r)[i].grantable /\ a.ids[k] = PermissionID(i)
    BY <2>1 DEF PermissionGrants
  <2>3. number(k) = i
    BY <2>2 DEF PermissionID
  <2>4. PermissionGrants(r)[a.ids[k]] = Atoms(r)[number(k)]
    BY <2>1 DEF PermissionGrants
  <2> QED BY <1>2, <2>2, <2>3, <2>4
<1> HIDE DEF number
<1>4. ASSUME NEW k \in 1..n
      PROVE  /\ c[k] \in ShownSet(r) /\ c[k] \in Range(ShownAtoms(r))
             /\ c[k].id = a.ids[k] /\ c[k].grantable
             /\ c[k].field = grants[k].field /\ c[k].value = grants[k].value
             /\ grants[k] = Atoms(r)[number(k)]
  <2>1. c[k] = ShownAtoms(r)[number(k)] /\ number(k) \in DOMAIN ShownAtoms(r)
    BY <1>3, AtomsShown
  <2>2. ShownAtoms(r)[number(k)] \in ShownSet(r)
    BY <2>1, AtomsShown
  <2>3. ShownAtoms(r)[number(k)] \in Range(ShownAtoms(r))
    BY <2>1 DEF Range
  <2>4. grants[k] = Atoms(r)[number(k)]
    BY <1>0, <1>1, <1>3 DEF GrantsOf
  <2> HIDE DEF c
  <2> QED BY <1>3, <2>1, <2>2, <2>3, <2>4, AtomsShown
<1>5. c \in [1..n -> ShownSet(r)] /\ c \in Seq(ShownSet(r)) /\ Len(c) = n /\ DOMAIN c = 1..n
  <2>1. c \in [1..n -> ShownSet(r)]
    BY <1>4
  <2> QED BY <1>1, <2>1
<1> HIDE DEF c
<1>6. IsInjective(c)
  <2>1. \A k, l \in 1..n : a.ids[k] = a.ids[l] => k = l
    BY <1>1 DEF GrantsValid, IsInjective
  <2>2. \A k \in 1..n : c[k].id = a.ids[k]
    BY <1>4
  <2> QED BY <1>5, <2>1, <2>2 DEF IsInjective
<1>7. ASSUME NEW atom \in chosen PROVE \E k \in 1..n : atom = c[k]
  <2>1. PICK j \in DOMAIN ShownAtoms(r) : atom = ShownAtoms(r)[j]
    BY <1>0, <1>7 DEF Range, ChosenAtoms
  <2>2. PICK k \in 1..n : atom.id = a.ids[k]
    BY <1>0, <1>1, <1>7 DEF Range, ChosenAtoms
  <2>3. PermissionID(j) = PermissionID(number(k))
    BY <1>3, <2>1, <2>2, AtomsShown
  <2>4. j = number(k)
    BY <2>3 DEF PermissionID
  <2> QED BY <2>1, <2>4 DEF c
<1>8. \A k \in 1..n : c[k] \in chosen
  BY <1>0, <1>1, <1>4 DEF Range, ChosenAtoms
<1>9. Range(c) = chosen
  BY <1>5, <1>7, <1>8 DEF Range
<1>10. Cardinality(chosen) = n
  BY <1>5, <1>6, <1>9, DistinctCount
<1>11. grants \in Seq(AtomSet(r)) /\ DOMAIN grants = 1..n
  <2>1. \A k \in 1..n : grants[k] \in AtomSet(r)
    BY <1>2, <1>3, <1>4
  <2>2. grants \in [1..n -> AtomSet(r)]
    BY <1>0, <1>1, <2>1 DEF GrantsOf
  <2> QED BY <1>1, <2>2
<1>12. \A g \in Range(grants) : \E k \in 1..n : g = grants[k]
  BY <1>11 DEF Range
<1>13. \A k \in 1..n : grants[k] \in Range(grants)
  BY <1>11 DEF Range
<1>14. \A g \in Range(grants) : g.grantable
  BY <1>3, <1>4, <1>12
<1>15. \A atom \in chosen : atom.grantable
  BY <1>4, <1>7
<1>16. \A g \in Range(grants) :
         \E atom \in chosen : atom.field = g.field /\ atom.value = g.value
  BY <1>4, <1>8, <1>12
<1>17. ASSUME NEW atom \in chosen
       PROVE  \E g \in Range(grants) : g.field = atom.field /\ g.value = atom.value
  <2>1. PICK k \in 1..n : atom = c[k]
    BY <1>7
  <2>2. grants[k].field = atom.field /\ grants[k].value = atom.value
    BY <1>4, <2>1
  <2> QED BY <1>13, <2>2
<1> QED BY <1>0, <1>10, <1>11, <1>14, <1>15, <1>16, <1>17

LEMMA GrantPayloadIs ==
  ASSUME NEW record, NEW a, NEW T, GrantsOf(record, a) \in Seq(T)
  PROVE  LET p == GrantPayload(record, a)
             grants == Range(GrantsOf(record, a))
         IN  /\ p.network = (\E g \in grants : g.field = "network")
             /\ \A f \in Lists : Range(p[f]) = {g.value : g \in {h \in grants : h.field = f}}
             /\ (p.scope = "session") = (a.scope = "session")
             /\ p.strict = a.strict
<1>0. PICK p, grants : p = GrantPayload(record, a) /\ grants = GrantsOf(record, a)
  OBVIOUS
<1> DEFINE V(f) == GrantedValues(grants, f)
<1>1. p = [network |-> V("network") # << >>, entries |-> V("entries"), read |-> V("read"),
           write |-> V("write"), scope |-> IF a.scope = "session" THEN "session" ELSE "turn",
           strict |-> a.strict]
  BY <1>0, Zenon DEF GrantPayload, GrantsOf
<1>2. \A f : /\ Range(V(f)) = {g.value : g \in {h \in Range(grants) : h.field = f}}
             /\ V(f) # << >> <=> \E g \in Range(grants) : g.field = f
  BY <1>0, GrantedValuesAre
<1> HIDE DEF V
<1>3. /\ p.network = (V("network") # << >>) /\ p.strict = a.strict
      /\ p.scope = IF a.scope = "session" THEN "session" ELSE "turn"
      /\ p.entries = V("entries") /\ p.read = V("read") /\ p.write = V("write")
  BY <1>1
<1>4. \A f \in Lists : p[f] = V(f)
  BY <1>1, <1>3 DEF Lists
<1>5. p.network = (\E g \in Range(grants) : g.field = "network")
  BY <1>2, <1>3
<1>6. (p.scope = "session") = (a.scope = "session")
  BY <1>3
<1>7. ASSUME NEW f \in Lists
      PROVE  Range(p[f]) = {g.value : g \in {h \in Range(grants) : h.field = f}}
  <2>1. Range(p[f]) = Range(V(f))
    BY <1>4
  <2>2. Range(V(f)) = {g.value : g \in {h \in Range(grants) : h.field = f}}
    BY <1>2
  <2> QED BY <2>1, <2>2, Zenon
<1> QED BY <1>0, <1>3, <1>5, <1>6, <1>7, Zenon

LEMMA PermissionsWritten ==
  ASSUME NEW r \in Requests, r.type = "permissions", NEW a, IsList(a.ids),
         GrantsValid(Record(r), a)
  PROVE  LET chosen == ChosenAtoms(r, a)
             p == GrantPayload(Record(r), a)
         IN  /\ \A atom \in chosen : atom.grantable
             /\ Cardinality(chosen) = Len(a.ids)
             /\ p.network = (\E atom \in chosen : atom.field = "network")
             /\ \A f \in Lists :
                  Range(p[f]) = {atom.value : atom \in {x \in chosen : x.field = f}}
             /\ (p.scope = "session") = (a.scope = "session")
             /\ p.strict = a.strict
             /\ p.network => r.network = "on"
             /\ \A f \in Lists : Range(p[f]) \subseteq CwdPaths
<1> DEFINE chosen == ChosenAtoms(r, a)
           p == GrantPayload(Record(r), a)
           grants == GrantsOf(Record(r), a)
<1>1. /\ grants \in Seq(AtomSet(r)) /\ \A g \in Range(grants) : g.grantable
      /\ \A atom \in chosen : atom.grantable
      /\ Cardinality(chosen) = Len(a.ids)
      /\ \A g \in Range(grants) :
           \E atom \in chosen : atom.field = g.field /\ atom.value = g.value
      /\ \A atom \in chosen :
           \E g \in Range(grants) : g.field = atom.field /\ g.value = atom.value
  BY PermissionsChosen, Zenon
<1>2. /\ p.network = (\E g \in Range(grants) : g.field = "network")
      /\ \A f \in Lists : Range(p[f]) = {g.value : g \in {h \in Range(grants) : h.field = f}}
      /\ (p.scope = "session") = (a.scope = "session")
      /\ p.strict = a.strict
  BY <1>1, GrantPayloadIs, ZenonT(30)
<1>3. \A g \in Range(grants) : g \in AtomSet(r) /\ g.grantable
  BY <1>1 DEF Range
<1> HIDE DEF grants, chosen, p
<1>4. p.network = (\E atom \in chosen : atom.field = "network")
  <2>1. (\E g \in Range(grants) : g.field = "network") <=> \E atom \in chosen : atom.field = "network"
    BY <1>1
  <2> QED BY <1>2, <2>1
<1>5. ASSUME NEW f \in Lists
      PROVE  /\ Range(p[f]) = {atom.value : atom \in {x \in chosen : x.field = f}}
             /\ Range(p[f]) \subseteq CwdPaths
  <2> DEFINE G == {g.value : g \in {h \in Range(grants) : h.field = f}}
             C == {atom.value : atom \in {x \in chosen : x.field = f}}
  <2>1. Range(p[f]) = G
    BY <1>2
  <2>2. ASSUME NEW v \in G PROVE v \in C
    <3>1. PICK g \in Range(grants) : g.field = f /\ g.value = v
      BY <2>2
    <3>2. PICK atom \in chosen : atom.field = g.field /\ atom.value = g.value
      BY <1>1, <3>1
    <3> QED BY <3>1, <3>2
  <2>3. ASSUME NEW v \in C PROVE v \in G
    <3>1. PICK atom \in chosen : atom.field = f /\ atom.value = v
      BY <2>3
    <3>2. PICK g \in Range(grants) : g.field = atom.field /\ g.value = atom.value
      BY <1>1, <3>1
    <3> QED BY <3>1, <3>2
  <2>4. ASSUME NEW v \in G PROVE v \in CwdPaths
    <3>1. PICK g \in Range(grants) : g.field = f /\ g.value = v
      BY <2>4
    <3> QED BY <1>3, <3>1, GrantableAtoms
  <2>5. G = C
    <3> HIDE DEF G, C
    <3> QED BY <2>2, <2>3
  <2>6. G \subseteq CwdPaths
    <3> HIDE DEF G
    <3> QED BY <2>4
  <2> QED BY <2>1, <2>5, <2>6, Zenon
<1>6. p.network => r.network = "on"
  <2>1. ASSUME NEW g \in Range(grants), g.field = "network" PROVE r.network = "on"
    BY <1>3, <2>1, GrantableAtoms
  <2> QED BY <1>2, <2>1
<1> QED BY <1>1, <1>2, <1>4, <1>5, <1>6, Zenon DEF chosen, p

\* The values under the id of a question are those it was answered with.
LEMMA AnswersWritten ==
  ASSUME NEW record, NEW a, a.type = "questions", IsInjective(AnsweredIDs(a)),
         NEW i \in DOMAIN a.answers
  PROVE  Payload(record, a).answers[a.answers[i].id] = a.answers[i].values
<1> DEFINE id == a.answers[i].id
<1>1. /\ DOMAIN AnsweredIDs(a) = DOMAIN a.answers
      /\ \A j \in DOMAIN a.answers : AnsweredIDs(a)[j] = a.answers[j].id
  BY DEF AnsweredIDs
<1>2. \A j \in DOMAIN a.answers : a.answers[j].id = id => j = i
  BY <1>1 DEF IsInjective
<1>3. id \in Range(AnsweredIDs(a))
  BY <1>1 DEF Range
<1>4. a.answers[i] \in Range(a.answers)
  BY DEF Range
<1>5. \A answered \in Range(a.answers) : answered.id = id => answered = a.answers[i]
  BY <1>2 DEF Range
<1>6. (CHOOSE answered \in Range(a.answers) : answered.id = id) = a.answers[i]
  BY <1>4, <1>5
<1>7. Payload(record, a).answers
        = [x \in Range(AnsweredIDs(a)) |->
             (CHOOSE answered \in Range(a.answers) : answered.id = x).values]
  BY DEF Payload
<1>8. Payload(record, a).answers[id] = (CHOOSE answered \in Range(a.answers) : answered.id = id).values
  <2> DEFINE D == Range(AnsweredIDs(a))
             v(x) == (CHOOSE answered \in Range(a.answers) : answered.id = x).values
             f == [x \in D |-> v(x)]
  <2>1. f[id] = v(id)
    <3>1. id \in D
      BY <1>3
    <3> HIDE DEF D, id, v
    <3> QED BY <3>1, Zenon
  <2> QED BY <2>1, <1>7, Zenon
<1> QED BY <1>6, <1>8, Zenon

\* A decision that is written is that of an option that could be chosen.
LEMMA ApprovalWritten ==
  ASSUME NEW r \in Requests, r.type \in {"command", "file"}, NEW a, Valid(Record(r), a)
  PROVE  /\ a.type = "approval"
         /\ \E o \in Range(Options(r)) :
              /\ o.id = a.id /\ o.selectable /\ Payload(Record(r), a) = [decision |-> o.wire]
              /\ o \in OptionSet(Blocked(r))
<1>1. a.type = "approval" /\ a.id \in DOMAIN ApprovalRecord(r)
  BY DisplayAndRecord DEF Valid
<1>2. PICK o \in Range(Options(r)) :
        o.id = a.id /\ o.selectable /\ ApprovalRecord(r)[a.id] = o.wire
  BY <1>1, ApprovalFound
<1>3. Payload(Record(r), a) = [decision |-> o.wire]
  BY <1>1, <1>2, DisplayAndRecord DEF Payload
<1>4. o \in OptionSet(Blocked(r))
  BY OptionsShown DEF Range
<1> QED BY <1>1, <1>2, <1>3, <1>4

LEMMA ClaimedIsWritten == AnswerInv => WrittenIsWhatWasShown
<1> DEFINE r == request
           d == Display(r)
           a == answer.response
           chosen == {atom \in Range(d.atoms) : atom.id \in Range(a.ids)}
<1> SUFFICES ASSUME AnswerInv, Claimed
             PROVE  CASE a.type = "approval" ->
                           \E o \in Range(d.options) :
                             o.id = a.id /\ o.selectable /\ payload = [decision |-> o.wire]
                      [] a.type = "permissions" ->
                              /\ \A atom \in chosen : atom.grantable
                              /\ Cardinality(chosen) = Len(a.ids)
                              /\ payload.network = (\E atom \in chosen : atom.field = "network")
                              /\ \A f \in Lists : Range(payload[f])
                                   = {atom.value : atom \in {x \in chosen : x.field = f}}
                              /\ (payload.scope = "session") = (a.scope = "session")
                              /\ payload.strict = a.strict
                      [] a.type = "elicitation" ->
                           payload.action = a.action /\ payload.content = a.content
                      [] a.type = "questions" ->
                           \A i \in DOMAIN a.answers :
                             /\ a.answers[i].id \in QuestionIDs(d.questions)
                             /\ payload.answers[a.answers[i].id] = a.answers[i].values
  BY Zenon DEF WrittenIsWhatWasShown
<1>1. /\ r \in Requests /\ answer \in Sent(d) /\ WellFormed(a) /\ Valid(Record(r), a)
      /\ payload = Payload(Record(r), a)
  BY DEF AnswerInv
<1>2. a.type = Record(r).type
  BY <1>1, Zenon DEF Valid
<1>3. CASE r.type \in {"command", "file"}
  <2>1. d.options = Options(r)
    BY <1>1, <1>3, DisplayAndRecord
  <2>2. /\ a.type = "approval"
        /\ \E o \in Range(d.options) :
             o.id = a.id /\ o.selectable /\ payload = [decision |-> o.wire]
    BY <1>1, <1>3, <2>1, ApprovalWritten
  <2> HIDE DEF a, d
  <2> QED BY <2>2
<1>4. CASE r.type = "permissions"
  <2>1. a.type = "permissions" /\ d.atoms = ShownAtoms(r)
    BY <1>1, <1>2, <1>4, DisplayAndRecord
  <2>2. IsList(a.ids) /\ GrantsValid(Record(r), a) /\ payload = GrantPayload(Record(r), a)
    BY <1>1, <2>1, SentLists DEF Valid, Payload
  <2>3. chosen = ChosenAtoms(r, a)
    BY <2>1 DEF ChosenAtoms
  <2> HIDE DEF a, d, chosen
  <2>4. /\ \A atom \in chosen : atom.grantable
        /\ Cardinality(chosen) = Len(a.ids)
        /\ payload.network = (\E atom \in chosen : atom.field = "network")
        /\ \A f \in Lists : Range(payload[f])
                              = {atom.value : atom \in {x \in chosen : x.field = f}}
        /\ (payload.scope = "session") = (a.scope = "session")
        /\ payload.strict = a.strict
    <3> DEFINE c == ChosenAtoms(r, a)
               p == GrantPayload(Record(r), a)
    <3>1. /\ \A atom \in c : atom.grantable
          /\ Cardinality(c) = Len(a.ids)
          /\ p.network = (\E atom \in c : atom.field = "network")
          /\ \A f \in Lists : Range(p[f]) = {atom.value : atom \in {x \in c : x.field = f}}
          /\ (p.scope = "session") = (a.scope = "session")
          /\ p.strict = a.strict
      BY <1>1, <1>4, <2>2, PermissionsWritten, Zenon
    <3>2. chosen = c /\ payload = p
      BY <2>2, <2>3
    <3> HIDE DEF c, p
    <3> QED BY <3>1, <3>2
  <2> QED BY <2>1, <2>4
<1>5. CASE r.type = "elicitation"
  <2>1. a.type = "elicitation"
    BY <1>1, <1>2, <1>5, DisplayAndRecord
  <2>2. payload = [action |-> a.action, content |-> a.content]
    BY <1>1, <2>1 DEF Payload
  <2> HIDE DEF a, d
  <2> QED BY <2>1, <2>2
<1>6. CASE r.type = "questions"
  <2>1. /\ a.type = "questions" /\ d.questions = r.questions
        /\ Record(r).questions = r.questions
    BY <1>1, <1>2, <1>6, DisplayAndRecord
  <2>2. IsInjective(AnsweredIDs(a)) /\ \A i \in DOMAIN a.answers : AnswerValid(Record(r), a, i)
    BY <1>1, <2>1 DEF Valid, WellFormed, AnswersWellFormed
  <2>3. ASSUME NEW i \in DOMAIN a.answers
        PROVE  /\ a.answers[i].id \in QuestionIDs(d.questions)
               /\ payload.answers[a.answers[i].id] = a.answers[i].values
    <3>1. a.answers[i].id \in QuestionIDs(d.questions)
      BY <2>1, <2>2 DEF AnswerValid
    <3>2. payload.answers[a.answers[i].id] = a.answers[i].values
      BY <1>1, <2>1, <2>2, AnswersWritten
    <3> QED BY <3>1, <3>2
  <2> HIDE DEF a, d
  <2> QED BY <2>1, <2>3
<1> QED BY <1>1, <1>3, <1>4, <1>5, <1>6, DisplayAndRecord

\* Whatever a client sends and however often the ids, the decisions and the paths
\* are repeated: the app server is told what was shown under the ids the user
\* chose, and nothing else (Build, pending/build.go; ValidateResponse and
\* mergePermissionGrant, pending/response.go).
THEOREM AnswersWrittenAsShown == PendingSpec => []WrittenIsWhatWasShown
  BY ClaimedIsWritten, AnswerInvHolds, PTL

-----------------------------------------------------------------------------
LEMMA BlockedIsRefused == AnswerInv => NothingBlockedIsGranted
<1> SUFFICES ASSUME AnswerInv PROVE NothingBlockedIsGranted
  OBVIOUS
<1> DEFINE r == request
           a == answer.response
<1>1. r \in Requests
  BY DEF AnswerInv
<1>2. Claimed => /\ answer \in Sent(Display(r)) /\ Valid(Record(r), a)
                 /\ payload = Payload(Record(r), a)
  BY DEF AnswerInv
<1>3. phase = "resolved" => payload = AutoResolution(r)
  BY DEF AnswerInv
<1>4. CASE r.type \in {"command", "file"}
  <2>1. phase = "resolved" => payload.decision = "decline"
    BY <1>3, <1>4 DEF AutoResolution
  <2>2. ASSUME Claimed, payload.decision \in Accepts PROVE ~Blocked(r)
    <3>1. PICK o \in Range(Options(r)) :
            o.selectable /\ payload = [decision |-> o.wire] /\ o \in OptionSet(Blocked(r))
      BY <1>1, <1>2, <1>4, <2>2, ApprovalWritten
    <3>2. o.wire \in Accepts
      BY <2>2, <3>1
    <3> QED BY <3>1, <3>2, SelectableOptions
  <2>3. ASSUME Claimed \/ phase = "resolved", payload.decision \in Accepts PROVE ~Blocked(r)
    <3>1. "decline" \notin Accepts
      BY DEF Accepts
    <3> QED BY <2>1, <2>2, <2>3, <3>1
  <2>4. phase = "resolved" => payload.decision \in Refusals
    BY <2>1 DEF Refusals
  <2>5. CASE r.type = "command"
    <3>1. ASSUME Claimed \/ phase = "resolved", payload.decision \in Accepts
          PROVE  Range(r.paths) \subseteq CwdPaths /\ r.amendments = 0
      <4>1. ~CommandBlocked(r) /\ r.amendments \in Nat
        BY <1>1, <2>3, <2>5, <3>1, RequestsAssumption DEF Blocked
      <4> QED BY <4>1 DEF CommandBlocked, UnderCwd, Range
    <3> QED BY <2>4, <2>5, <3>1, Zenon DEF NothingBlockedIsGranted
  <2>6. CASE r.type = "file"
    <3>1. ASSUME Claimed \/ phase = "resolved", payload.decision \in Accepts
          PROVE  Range(r.grantRoot) \subseteq CwdPaths
      <4>1. ~FileBlocked(r)
        BY <2>3, <2>6, <3>1 DEF Blocked
      <4> QED BY <4>1 DEF FileBlocked, UnderCwd, Range
    <3>2. r.type # "command"
      BY <2>6
    <3> QED BY <2>4, <2>6, <3>1, <3>2, Zenon DEF NothingBlockedIsGranted
  <2> QED BY <1>4, <2>5, <2>6
<1>5. CASE r.type = "permissions"
  <2>1. phase = "resolved" => payload = NoPermissions
    BY <1>3, <1>5 DEF AutoResolution
  <2>2. phase = "resolved" => /\ ~payload.network
                              /\ \A f \in Lists : Range(payload[f]) \subseteq CwdPaths
    <3>1. \A f \in Lists : NoPermissions[f] = << >>
      BY DEF Lists, NoPermissions
    <3>2. NoPermissions.network = FALSE
      BY DEF NoPermissions
    <3> QED BY <2>1, <3>1, <3>2, EmptyList
  <2>3. Claimed => /\ payload.network => r.network = "on"
                   /\ \A f \in Lists : Range(payload[f]) \subseteq CwdPaths
    <3> SUFFICES ASSUME Claimed
                 PROVE  /\ payload.network => r.network = "on"
                        /\ \A f \in Lists : Range(payload[f]) \subseteq CwdPaths
      OBVIOUS
    <3>1. a.type = "permissions"
      BY <1>1, <1>2, <1>5, DisplayAndRecord DEF Valid
    <3>2. IsList(a.ids) /\ GrantsValid(Record(r), a) /\ payload = GrantPayload(Record(r), a)
      BY <1>1, <1>2, <3>1, SentLists DEF Valid, Payload
    <3> HIDE DEF a
    <3> QED BY <1>1, <1>5, <3>2, PermissionsWritten
  <2> HIDE DEF a
  <2> QED BY <1>5, <2>1, <2>2, <2>3 DEF NothingBlockedIsGranted
<1>6. CASE r.type = "elicitation"
  <2>1. phase = "resolved" => payload.action \in Refusals
    BY <1>3, <1>6 DEF AutoResolution, Refusals
  <2> QED BY <1>6, <2>1 DEF NothingBlockedIsGranted
<1>7. CASE r.type = "questions"
  <2>1. phase = "resolved" => payload = [error |-> "over_limit"]
    BY <1>3, <1>7 DEF AutoResolution
  <2> QED BY <1>7, <2>1 DEF NothingBlockedIsGranted
<1> QED BY <1>1, <1>4, <1>5, <1>6, <1>7, DisplayAndRecord

\* No response of any client and no automatic one grants what a user is told
\* cannot be approved (directDecisionOption and addGrant, pending/build.go;
\* AutoResolutionPayload, pending/response.go).
THEOREM BlockedNeverGranted == PendingSpec => []NothingBlockedIsGranted
  BY BlockedIsRefused, AnswerInvHolds, PTL

-----------------------------------------------------------------------------
(* The responses of the SDK                                                *)

LEMMA ChosenFits ==
  ASSUME NEW r \in Requests, r.type \in {"command", "file"}, NEW a,
         NEW o \in Range(Options(r)), o.selectable, a = Approval(o.id)
  PROVE  WellFormed(a) /\ Valid(Record(r), a)
<1>1. a.type = "approval" /\ a.id = o.id
  BY DEF Approval
<1>2. o.id \in DOMAIN ApprovalRecord(r)
  BY ApprovalFound
<1> QED BY <1>1, <1>2, DisplayAndRecord DEF WellFormed, Valid

LEMMA GrantFits ==
  ASSUME NEW r \in Requests, r.type = "permissions", ~OverLimit(r), NEW a,
         a.type = "permissions", IsList(a.ids), a.ids # << >>, IsInjective(a.ids),
         Range(a.ids) \subseteq Range(GrantableIDs(Display(r)))
  PROVE  WellFormed(a) /\ Valid(Record(r), a)
<1> DEFINE t == [i \in DOMAIN Atoms(r) |-> PermissionID(i)]
<1>1. /\ DOMAIN Atoms(r) = 1..Len(Atoms(r)) /\ Len(Atoms(r)) \in Nat
      /\ ~(Len(Atoms(r)) > MaxPermissionAtoms)
  BY AtomsType DEF OverLimit
<1>2. t \in [1..Len(Atoms(r)) -> Range(t)]
  BY <1>1 DEF Range
<1>3. t \in Seq(Range(t)) /\ Len(t) = Len(Atoms(r))
  BY <1>1, <1>2
<1>4. DOMAIN Record(r).grants = Range(GrantableIDs(Display(r)))
  <2>1. DOMAIN PermissionGrants(r)
          = {PermissionID(i) : i \in {k \in DOMAIN Atoms(r) : Atoms(r)[k].grantable}}
    BY DEF PermissionGrants
  <2> QED BY <2>1, GrantableIDsShown, DisplayAndRecord, ZenonT(30)
<1>5. Range(GrantableIDs(Display(r))) \subseteq Range(t)
  <2>1. \A i \in DOMAIN Atoms(r) : PermissionID(i) \in Range(t)
    BY DEF Range
  <2> HIDE DEF t
  <2>2. \A id \in Range(GrantableIDs(Display(r))) : \E i \in DOMAIN Atoms(r) : id = PermissionID(i)
    BY GrantableIDsShown
  <2> QED BY <2>1, <2>2
<1> HIDE DEF t
<1>6. Len(a.ids) <= Len(Atoms(r)) /\ Len(a.ids) \in Nat
  <2>1. a.ids \in Seq(Range(a.ids)) /\ Range(a.ids) \subseteq Range(t)
    BY <1>5 DEF IsList
  <2>2. Len(a.ids) <= Len(t)
    BY <1>3, <2>1, DistinctFit
  <2> QED BY <1>3, <2>1, <2>2
<1>7. Len(a.ids) <= MaxPermissionAtoms
  BY <1>1, <1>6, LimitsAssumption
<1>8. PermissionsWellFormed(a)
  BY <1>7 DEF PermissionsWellFormed
<1>9. GrantsValid(Record(r), a)
  BY <1>4 DEF GrantsValid
<1> QED BY <1>8, <1>9, DisplayAndRecord DEF WellFormed, Valid

LEMMA AnswersFit ==
  ASSUME NEW r \in Requests, r.type = "questions", ~OverLimit(r), NEW a,
         a.type = "questions", NEW ids,
         a.answers \in Seq([id : ids, values : Sequences(Values, MaxValues)]),
         \A i \in DOMAIN a.answers : a.answers[i].id \in QuestionIDs(r.questions),
         IsInjective(AnsweredIDs(a)),
         \A i \in DOMAIN a.answers :
           /\ ~(Len(a.answers[i].values) > MaxToolUserInputAnswersPerQuestion)
           /\ \A v \in Range(a.answers[i].values) :
                Allows(QuestionByID(r.questions, a.answers[i].id), v)
  PROVE  WellFormed(a) /\ Valid(Record(r), a)
<1> DEFINE n == Len(a.answers)
           s == AnsweredIDs(a)
           t == [i \in DOMAIN r.questions |-> r.questions[i].id]
<1>1. n \in Nat /\ DOMAIN a.answers = 1..n
  OBVIOUS
<1>2. ASSUME NEW i \in 1..n PROVE a.answers[i].values \in Sequences(Values, MaxValues)
  <2> DEFINE T == [id : ids, values : Sequences(Values, MaxValues)]
  <2>1. a.answers \in Seq(T)
    OBVIOUS
  <2>2. \A e \in T : e.values \in Sequences(Values, MaxValues)
    OBVIOUS
  <2> HIDE DEF T
  <2>3. a.answers[i] \in T
    BY <1>1, <2>1
  <2> QED BY <2>2, <2>3
<1>3. /\ DOMAIN r.questions = 1..Len(r.questions) /\ Len(r.questions) \in Nat
      /\ Len(r.questions) <= MaxToolUserInputQuestions
  BY QuestionsDiffer DEF OverLimit
<1>4. t \in [1..Len(r.questions) -> QuestionIDs(r.questions)]
  BY <1>3 DEF QuestionIDs
<1>5. t \in Seq(QuestionIDs(r.questions)) /\ Len(t) = Len(r.questions)
  BY <1>3, <1>4
<1>6. QuestionIDs(r.questions) = Range(t)
  BY DEF QuestionIDs, Range
<1>7. s \in [1..n -> QuestionIDs(r.questions)]
  BY <1>1 DEF AnsweredIDs
<1>8. s \in Seq(QuestionIDs(r.questions)) /\ Len(s) = n
  BY <1>1, <1>7
<1>9. Range(s) \subseteq Range(t)
  BY <1>6, <1>7 DEF Range
<1>10. \A i \in 1..n, j \in 1..n : a.answers[i].id = a.answers[j].id => i = j
  BY <1>1 DEF AnsweredIDs, IsInjective
<1> HIDE DEF s, t
<1>11. n <= MaxToolUserInputQuestions
  <2>1. IsInjective(s)
    BY DEF s
  <2>2. Len(s) <= Len(t)
    BY <1>5, <1>8, <1>9, <2>1, DistinctFit
  <2> QED BY <1>1, <1>3, <1>5, <1>8, <2>2, LimitsAssumption
<1>12. ASSUME NEW i \in 1..n
       PROVE  Len(a.answers[i].values) <= MaxToolUserInputAnswersPerQuestion
  <2>1. a.answers[i].values \in Seq(Values)
    BY <1>2, BoundsAssumption, SequencesAreLists
  <2>2. Len(a.answers[i].values) \in Nat
    BY <2>1
  <2> QED BY <1>1, <2>2, LimitsAssumption
<1>13. WellFormed(a)
  BY <1>1, <1>11, <1>12 DEF WellFormed, AnswersWellFormed
<1>14. Record(r).questions = r.questions /\ Record(r).type = "questions"
  BY DisplayAndRecord
<1>15. ASSUME NEW i \in 1..n PROVE AnswerValid(Record(r), a, i)
  <2>1. ASSUME NEW j \in 1..(i - 1) PROVE a.answers[j].id # a.answers[i].id
    <3>1. j \in 1..n /\ j # i
      BY <1>1
    <3> QED BY <1>10, <3>1
  <2> QED BY <1>1, <1>14, <2>1 DEF AnswerValid
<1>16. Valid(Record(r), a)
  BY <1>1, <1>14, <1>15 DEF Valid
<1> QED BY <1>13, <1>16

\* Who builds what.
LEMMA BuiltBy ==
  ASSUME NEW d, NEW e \in Built(d), e.by \notin {"submitJSON", "denyPermissions"}
  PROVE  /\ d.type = "approval" => \/ \E id : e.response \in Choose(d, id)
                                   \/ \E w : e.response \in ChooseByKind(d, w)
         /\ d.type = "permissions" =>
              \E s \in Sequences(ShownIDs(d) \cup {UnknownID}, Chosen) :
                e.response \in GrantTurn(d, s) \cup GrantSession(d, s)
                                 \cup GrantTurnRelaxed(d, s) \cup GrantSessionRelaxed(d, s)
         /\ d.type = "elicitation" => \/ \E c : e.response \in Submit(d, c)
                                      \/ e.response \in CancelInput(d)
         /\ d.type = "questions" => \E s : e.response \in Answer(d, s)
<1>1. CASE d.type = "approval"
  BY <1>1 DEF Built, Approve, DenyApproval, CancelApproval
<1>2. CASE d.type = "permissions"
  BY <1>2 DEF Built
<1>3. CASE d.type = "elicitation"
  BY <1>3 DEF Built
<1>4. CASE d.type = "questions"
  BY <1>4 DEF Built
<1> QED BY <1>1, <1>2, <1>3, <1>4

LEMMA BuiltFits ==
  ASSUME request \in Requests, ~OverLimit(request), NEW e \in Sent(Display(request)),
         e \in Built(Display(request)),
         e.by \notin {"submitJSON", "denyPermissions"}, ~Careless(e.response)
  PROVE  WellFormed(e.response) /\ Valid(Record(request), e.response)
<1> DEFINE r == request
           d == Display(r)
           a == e.response
<1>1. CASE r.type \in {"command", "file"}
  <2>1. d.type = "approval" /\ d.options = Options(r)
    BY <1>1, DisplayAndRecord
  <2>2. \A i \in DOMAIN Options(r) : Options(r)[i] \in Range(Options(r))
    BY DEF Range
  <2>3. \A id : \A b \in Choose(d, id) :
          \E o \in Range(Options(r)) : o.selectable /\ b = Approval(o.id)
    BY <2>1 DEF Choose
  <2>4. \A w : \A b \in ChooseByKind(d, w) :
          \E o \in Range(Options(r)) : o.selectable /\ b = Approval(o.id)
    BY <2>1, <2>2 DEF ChooseByKind
  <2>5. \/ \E id : a \in Choose(d, id)
        \/ \E w : a \in ChooseByKind(d, w)
    BY <2>1, BuiltBy, Zenon
  <2>6. PICK o \in Range(Options(r)) : o.selectable /\ a = Approval(o.id)
    BY <2>3, <2>4, <2>5
  <2> QED BY <1>1, <2>6, ChosenFits
<1>2. CASE r.type = "permissions"
  <2>1. d.type = "permissions"
    BY <1>2, DisplayAndRecord
  <2> DEFINE ids == Sequences(ShownIDs(d) \cup {UnknownID}, Chosen)
  <2>2. \E s \in ids : a \in GrantTurn(d, s) \cup GrantSession(d, s)
                               \cup GrantTurnRelaxed(d, s) \cup GrantSessionRelaxed(d, s)
    BY <2>1, BuiltBy, Zenon
  <2>3. PICK s \in ids : \E scope, strict : a \in Grant(d, scope, s, strict)
    BY <2>2, Zenon DEF GrantTurn, GrantSession, GrantTurnRelaxed, GrantSessionRelaxed
  <2>4. PICK scope, strict : a \in Grant(d, scope, s, strict)
    BY <2>3
  <2>5. IsList(s)
    <3>1. Chosen \in Nat
      BY BoundsAssumption DEF Chosen
    <3> QED BY <3>1, SequencesAreLists, Zenon
  <2>6. IsList(GrantableIDs(d))
    BY <1>2, GrantableIDsShown
  <2>7. PICK t : /\ IsList(t) /\ Range(t) \subseteq Range(GrantableIDs(d))
                 /\ a = Permissions(t, scope, strict)
    <3> DEFINE t == IF s = << >> THEN GrantableIDs(d) ELSE s
    <3>1. a = Permissions(t, scope, strict) /\ Range(t) \subseteq Range(GrantableIDs(d))
      <4> HIDE DEF d
      <4> QED BY <2>4, Zenon DEF Grant
    <3>2. IsList(t)
      BY <2>5, <2>6
    <3> QED BY <3>1, <3>2
  <2>8. a.type = "permissions" /\ a.ids = t
    BY <2>7 DEF Permissions
  <2>9. a.ids # << >> /\ IsInjective(a.ids)
    BY <2>8 DEF Careless
  <2> HIDE DEF a
  <2> QED BY <1>2, <2>7, <2>8, <2>9, GrantFits DEF a
<1>3. CASE r.type = "elicitation"
  <2>1. d.type = "elicitation"
    BY <1>3, DisplayAndRecord
  <2>2. \/ \E c : a \in Submit(d, c)
        \/ a \in CancelInput(d)
    BY <2>1, BuiltBy, Zenon
  <2>3. CASE \E c : a \in Submit(d, c)
    <3>1. PICK c : a = Elicitation("accept", c) /\ c \notin NotJSON \cup {NoContent}
      BY <2>3 DEF Submit
    <3>2. a.type = "elicitation" /\ a.action = "accept" /\ a.content = c
      BY <3>1 DEF Elicitation
    <3>3. a.content \notin TooLarge
      BY <3>2 DEF Careless
    <3> HIDE DEF a
    <3> QED BY <1>3, <3>1, <3>2, <3>3, DisplayAndRecord
            DEF WellFormed, Valid, ElicitationWellFormed, a
  <2>4. CASE a \in CancelInput(d)
    <3>1. a.type = "elicitation" /\ a.action = "cancel" /\ a.content = NoContent
      BY <2>4 DEF CancelInput, Elicitation
    <3> HIDE DEF a
    <3> QED BY <1>3, <3>1, DisplayAndRecord DEF WellFormed, Valid, ElicitationWellFormed, a
  <2> QED BY <2>2, <2>3, <2>4
<1>4. CASE r.type = "questions"
  <2>1. d.type = "questions" /\ d.questions = r.questions
    BY <1>4, DisplayAndRecord
  <2>2. PICK s : a \in Answer(d, s)
    BY <2>1, BuiltBy, Zenon
  <2>3. a = Answers(s) /\ \A i \in DOMAIN s : s[i].id \in QuestionIDs(r.questions)
    BY <2>1, <2>2 DEF Answer
  <2>4. a.type = "questions" /\ a.answers = s
    BY <2>3 DEF Answers
  <2>5. /\ IsInjective(AnsweredIDs(a))
        /\ \A i \in DOMAIN a.answers :
             /\ ~(Len(a.answers[i].values) > MaxToolUserInputAnswersPerQuestion)
             /\ \A v \in Range(a.answers[i].values) :
                  Allows(QuestionByID(r.questions, a.answers[i].id), v)
    BY <2>4 DEF Careless
  <2>6. PICK ids : a.answers \in Seq([id : ids, values : Sequences(Values, MaxValues)])
    BY <2>4, SentLists
  <2> HIDE DEF a
  <2> QED BY <1>4, <2>3, <2>4, <2>5, <2>6, AnswersFit DEF a
<1> QED BY <1>1, <1>2, <1>3, <1>4, DisplayAndRecord

LEMMA RefusedIsCareless == AnswerInv => BuilderAnswersFit
<1> SUFFICES ASSUME AnswerInv, refused,
                    answer.by \notin {"raw", "submitJSON", "denyPermissions"}
             PROVE  Careless(answer.response)
  BY DEF BuilderAnswersFit
<1>1. /\ request \in Requests /\ ~OverLimit(request) /\ answer \in Sent(Display(request))
      /\ ~(WellFormed(answer.response) /\ Valid(Record(request), answer.response))
  BY DEF AnswerInv
<1>2. answer \in Built(Display(request))
  BY <1>1 DEF Sent
<1> QED BY <1>1, <1>2, BuiltFits

\* What Choose, Approve, Deny, Cancel, Grant*, Submit and Answer return, the
\* gateway takes, whatever was asked, unless the caller was careless
\* (sdk/go/actions.go against pendingResponseFromProto, grpcapi/validators.go,
\* and ValidateResponse, pending/response.go).
THEOREM BuiltAnswersTaken == PendingSpec => []BuilderAnswersFit
  BY RefusedIsCareless, AnswerInvHolds, PTL
=============================================================================
