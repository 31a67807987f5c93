-------------------------- MODULE FrameScanProofs --------------------------
(***************************************************************************)
(* FrameScan's arrays are never indexed outside their bounds, and what the *)
(* scan lets through and what it refuses is what the reference says,       *)
(* whatever the limits, the bytes and the way the transport cuts them.     *)
(***************************************************************************)
EXTENDS FrameScan, FiniteSetTheorems, WellFoundedInduction, TLAPS

\* The lengths and counts read from the wire are naturals.
LEMMA MarkerFacts ==
  ASSUME NEW m \in 0..255, NEW len \in Nat
  PROVE  /\ LenBytes(m) \in {0, 1, 2, 4}
         /\ Container(m) => Charge(m) = 2
         /\ Container(m) => Declared(m, len) \in Nat
         /\ Payload(m, len) \in Nat
<1>1. LenBytes(m) \in {0, 1, 2, 4}
  BY DEF LenBytes
<1>2. Container(m) => Charge(m) = 2
  BY DEF Charge
<1>3. Container(m) => Declared(m, len) \in Nat
  BY DEF Declared, Container
<1>4. Payload(m, len) \in Nat
  BY DEF Payload
<1> QED
  BY <1>1, <1>2, <1>3, <1>4

\* The elements of a sequence over a set.
LEMMA SeqElement ==
  ASSUME NEW A, NEW q \in Seq(A), NEW i \in 1..Len(q)
  PROVE  q[i] \in A
OBVIOUS

LEMMA SeqWider ==
  ASSUME NEW A, NEW B, A \subseteq B, NEW q \in Seq(A)
  PROVE  q \in Seq(B)
<1>1. \A i \in 1..Len(q) : q[i] \in B
  BY SeqElement
<1>2. Len(q) \in Nat /\ q = [i \in 1..Len(q) |-> q[i]]
  OBVIOUS
<1> QED
  BY <1>1, <1>2

\* read_be stays inside the buffer and yields a natural.
LEMMA ReadBeNat ==
  ASSUME NEW b \in Seq(0..255), NEW p \in Nat, NEW n \in {0, 1, 2, 4},
         p + n <= Len(b)
  PROVE  read_be(b, p, n) \in Nat
<1>1. \A i \in 1..Len(b) : b[i] \in Nat
  <2>1. \A i \in 1..Len(b) : b[i] \in 0..255
    BY SeqElement
  <2>2. \A x \in 0..255 : x \in Nat
    OBVIOUS
  <2> QED
    BY <2>1, <2>2, Zenon
<1>2. CASE n = 0
  BY <1>2 DEF read_be
<1>3. CASE n = 1
  BY <1>1, <1>3 DEF read_be
<1>4. CASE n = 2
  <2>1. b[p + 1] \in Nat /\ b[p + 2] \in Nat
    BY <1>1, <1>4
  <2> QED
    BY <2>1, <1>4 DEF read_be
<1>5. CASE n = 4
  <2>1. b[p + 1] \in Nat /\ b[p + 2] \in Nat /\ b[p + 3] \in Nat /\ b[p + 4] \in Nat
    BY <1>1, <1>5
  <2>2. b[p + 3 + 1] \in Nat /\ b[p + 1 + 1] \in Nat
    BY <1>1, <1>5
  <2>3. /\ b[p + 1] * 256 + b[p + 1 + 1] \in Nat
        /\ b[p + 3] * 256 + b[p + 3 + 1] \in Nat
    <3>1. \A x, y \in Nat : x * 256 + y \in Nat
      OBVIOUS
    <3> QED
      BY <2>1, <2>2, <3>1
  <2>4. read_be(b, p, n) = (b[p + 1] * 256 + b[p + 1 + 1]) * 65536
                            + (b[p + 3] * 256 + b[p + 3 + 1])
    BY <1>5 DEF read_be
  <2> QED
    BY <2>3, <2>4, SMTT(30)
<1> QED
  BY <1>2, <1>3, <1>4, <1>5

\* The budget of a level in use is what its nesting has left of MAX_DEPTH.
BudgetInv == \A l \in Levels : l < depth => budget[l] = MAX_DEPTH - 2 * l

\* What the scan knows of the value in hand.
HandInv ==
  /\ pc \in {"marker", "body"} => depth > 0 /\ seen > 0
  /\ pc = "marker" => pos = start
  /\ pc = "body" => /\ start < Len(buf) /\ pos = start + 1
                    /\ budget[depth - 1] >= Charge(buf[start + 1])
  /\ pc = "read" => depth > 0

FrameInv == ScanTypeOK /\ StackInBounds /\ BudgetInv /\ HandInv

LEMMA InitFrameInv == Init => FrameInv
BY LimitsAssumption
   DEF Init, FrameInv, ScanTypeOK, StackInBounds, BudgetInv, HandInv, Levels,
       FreshBudget, FreshStack

\* The level in use is one of the arrays' indices.
LEMMA LevelInUse ==
  ASSUME FrameInv, depth > 0
  PROVE  depth - 1 \in Levels
BY LimitsAssumption DEF FrameInv, ScanTypeOK, StackInBounds, Levels

\* What the peer sends are bytes.
LEMMA SentBytes ==
  ASSUME NEW q \in Seq(Bytes)
  PROVE  q \in Seq(0..255)
<1>1. Bytes \subseteq 0..255
  BY LimitsAssumption
<1> QED
  BY <1>1, SeqWider, ZenonT(60)

LEMMA BufBytes == ScanTypeOK => buf \in Seq(0..255)
BY SentBytes DEF ScanTypeOK

\* What is known of the marker and of the length field of the value in hand.
LEMMA BodyFacts ==
  ASSUME FrameInv, pc = "body"
  PROVE  /\ Marker \in 0..255
         /\ Width \in {0, 1, 2, 4}
         /\ HasField => Length \in Nat
         /\ HasField => Payload(Marker, Length) \in Nat
         /\ HasField /\ Container(Marker) => Declared(Marker, Length) \in Nat
         /\ Container(Marker) => budget[depth - 1] >= 2
<1>1. Marker \in 0..255
  <2>1. start + 1 \in 1..Len(buf) /\ buf \in Seq(Bytes)
    BY DEF FrameInv, ScanTypeOK, HandInv
  <2>2. buf[start + 1] \in Bytes
    BY <2>1
  <2> QED
    BY <2>2, LimitsAssumption DEF Marker
<1>2. Width \in {0, 1, 2, 4}
  BY <1>1, MarkerFacts DEF Width
<1>3. HasField => Length \in Nat
  <2>1. buf \in Seq(0..255)
    BY BufBytes DEF FrameInv
  <2> QED
    BY <1>2, <2>1, ReadBeNat DEF FrameInv, ScanTypeOK, HasField, Length
<1>4. HasField => Payload(Marker, Length) \in Nat
  BY <1>1, <1>3, MarkerFacts
<1>5. HasField /\ Container(Marker) => Declared(Marker, Length) \in Nat
  BY <1>1, <1>3, MarkerFacts
<1>6. Container(Marker) => budget[depth - 1] >= 2
  <2>1. Container(Marker) => Charge(Marker) = 2
    BY <1>1, MarkerFacts
  <2> QED
    BY <2>1 DEF FrameInv, HandInv, Marker
<1> QED
  BY <1>1, <1>2, <1>3, <1>4, <1>5, <1>6

\* Suspending the scan gives back exactly what the claim took.
LEMMA RewindKeeps ==
  ASSUME FrameInv, pc \in {"marker", "body"}, Rewind
  PROVE  FrameInv'
<1>1. depth > 0 /\ seen > 0
  BY DEF FrameInv, HandInv
<1>2. depth - 1 \in Levels
  BY <1>1, LevelInUse
<1>3. stack' \in [Levels -> Nat]
  BY <1>2 DEF FrameInv, ScanTypeOK, Rewind
<1>4. ScanTypeOK'
  BY <1>1, <1>3 DEF FrameInv, ScanTypeOK, Rewind, Refuse
<1>5. StackInBounds' /\ BudgetInv'
  BY DEF FrameInv, StackInBounds, BudgetInv, Rewind
<1>6. HandInv'
  BY <1>1 DEF HandInv, Rewind, Refuse
<1> QED
  BY <1>4, <1>5, <1>6 DEF FrameInv

LEMMA StepFrameInv ==
  ASSUME FrameInv, [Next]_vars
  PROVE  FrameInv'
<1>1. CASE PopLevel
  <2>1. depth \in Nat /\ depth > 0 /\ depth' = depth - 1
    BY <1>1 DEF PopLevel, FrameInv, ScanTypeOK
  <2>2. ScanTypeOK'
    BY <1>1, <2>1 DEF PopLevel, FrameInv, ScanTypeOK
  <2>3. StackInBounds'
    BY <2>1, LimitsAssumption DEF FrameInv, StackInBounds
  <2>4. BudgetInv'
    BY <1>1, <2>1, LimitsAssumption DEF PopLevel, FrameInv, BudgetInv, Levels
  <2>5. HandInv'
    BY <1>1 DEF PopLevel, HandInv
  <2> QED
    BY <2>2, <2>3, <2>4, <2>5 DEF FrameInv
<1>2. CASE Claim
  <2>1. depth - 1 \in Levels
    BY <1>2, LevelInUse DEF Claim
  <2>2. stack' \in [Levels -> Nat]
    BY <1>2, <2>1 DEF Claim, FrameInv, ScanTypeOK
  <2>3. ScanTypeOK'
    BY <1>2, <2>2 DEF Claim, Refuse, FrameInv, ScanTypeOK
  <2>4. StackInBounds' /\ BudgetInv'
    BY <1>2 DEF Claim, FrameInv, StackInBounds, BudgetInv
  <2>5. HandInv'
    BY <1>2 DEF Claim, Refuse, FrameInv, ScanTypeOK, HandInv
  <2> QED
    BY <2>3, <2>4, <2>5 DEF FrameInv
<1>3. CASE NoMarker
  BY <1>3, RewindKeeps DEF NoMarker
<1>4. CASE TakeMarker
  <2>1. ScanTypeOK'
    BY <1>4 DEF TakeMarker, Refuse, FrameInv, ScanTypeOK
  <2>2. StackInBounds' /\ BudgetInv'
    BY <1>4 DEF TakeMarker, FrameInv, StackInBounds, BudgetInv
  <2>3. HandInv'
    <3>1. budget[depth - 1] \in Nat /\ Charge(buf[pos + 1]) \in Nat
      BY <1>4, LevelInUse DEF TakeMarker, FrameInv, HandInv, ScanTypeOK, Charge
    <3> QED
      BY <1>4, <3>1 DEF TakeMarker, Refuse, FrameInv, ScanTypeOK, HandInv
  <2> QED
    BY <2>1, <2>2, <2>3 DEF FrameInv
<1>5. CASE NoLength
  BY <1>5, RewindKeeps DEF NoLength
<1>6. CASE OpenContainer
  <2>1. /\ Width \in {0, 1, 2, 4} /\ Declared(Marker, Length) \in Nat
        /\ budget[depth - 1] >= 2
    BY <1>6, BodyFacts DEF OpenContainer
  <2>2. depth > 0 /\ depth \in Nat /\ depth - 1 \in Levels
    BY <1>6, LevelInUse DEF OpenContainer, FrameInv, HandInv, ScanTypeOK
  <2>3. budget[depth - 1] = MAX_DEPTH - 2 * (depth - 1)
    BY <2>2 DEF FrameInv, BudgetInv
  <2>4. 2 * depth <= MAX_DEPTH /\ depth \in Levels
    BY <2>1, <2>2, <2>3, LimitsAssumption DEF Levels
  <2>5. pos' \in 0..Len(buf)
    BY <1>6, <2>1 DEF OpenContainer, HasField, FrameInv, ScanTypeOK
  <2>6. CASE depth' = depth + 1
    <3>1. /\ budget' = [budget EXCEPT ![depth] = budget[depth - 1] - 2]
          /\ stack' = [stack EXCEPT ![depth] = Declared(Marker, Length)]
          /\ pc' = "scan" /\ reject' = reject
      BY <1>6, <2>6, <2>2 DEF OpenContainer
    <3>2. budget' \in [Levels -> Nat] /\ stack' \in [Levels -> Nat]
      BY <3>1, <2>1, <2>2, <2>3, <2>4, LimitsAssumption DEF FrameInv, ScanTypeOK
    <3>3. ScanTypeOK'
      BY <1>6, <2>5, <2>6, <3>1, <3>2 DEF OpenContainer, FrameInv, ScanTypeOK
    <3>4. StackInBounds'
      BY <2>2, <2>4, <2>6, LimitsAssumption DEF StackInBounds
    <3>5. BudgetInv'
      <4> SUFFICES ASSUME NEW l \in Levels, l < depth'
                   PROVE  budget'[l] = MAX_DEPTH - 2 * l
        BY DEF BudgetInv
      <4>1. l \in Nat
        BY LimitsAssumption DEF Levels
      <4>2. CASE l = depth
        BY <4>2, <3>1, <2>3, <2>2, <2>4, LimitsAssumption DEF FrameInv, ScanTypeOK
      <4>3. CASE l # depth
        BY <4>1, <4>3, <3>1, <2>2, <2>6 DEF FrameInv, ScanTypeOK, BudgetInv
      <4> QED
        BY <4>2, <4>3
    <3>6. HandInv'
      BY <3>1 DEF HandInv
    <3> QED
      BY <3>3, <3>4, <3>5, <3>6 DEF FrameInv
  <2>7. CASE depth' # depth + 1
    <3>1. Refuse("values") /\ UNCHANGED <<budget, stack, depth, buf, seen, start>>
      BY <1>6, <2>7 DEF OpenContainer
    <3> QED
      BY <2>5, <3>1 DEF Refuse, FrameInv, ScanTypeOK, StackInBounds, BudgetInv, HandInv
  <2> QED
    BY <2>6, <2>7
<1>7. CASE PayloadTooLarge
  BY <1>7 DEF PayloadTooLarge, Refuse, scanVars, FrameInv, ScanTypeOK,
              StackInBounds, BudgetInv, HandInv
<1>8. CASE NoPayload
  BY <1>8, RewindKeeps DEF NoPayload, PayloadFits
<1>9. CASE TakeValue
  <2>1. Width \in Nat /\ Payload(Marker, Length) \in Nat
    BY <1>9, BodyFacts DEF TakeValue, PayloadFits
  <2>2. pos' \in 0..Len(buf)
    BY <1>9, <2>1 DEF TakeValue, ValueEnd, FrameInv, ScanTypeOK
  <2> QED
    BY <1>9, <2>2 DEF TakeValue, FrameInv, ScanTypeOK, StackInBounds, BudgetInv, HandInv
<1>10. CASE Deliver
  <2>1. buf' \in Seq(Bytes)
    BY <1>10 DEF Deliver, FrameInv, ScanTypeOK
  <2> QED
    BY <1>10, <2>1, LimitsAssumption
       DEF Deliver, FrameInv, ScanTypeOK, StackInBounds, BudgetInv, HandInv, Levels,
           FreshBudget, FreshStack
<1>11. CASE Read
  <2>1. PICK n \in 1..MaxRead : \E chunk \in [1..n -> Bytes] : buf' = buf \o chunk
    BY <1>11 DEF Read
  <2>2. PICK chunk \in [1..n -> Bytes] : buf' = buf \o chunk
    BY <2>1
  <2>3. chunk \in Seq(Bytes)
    BY LimitsAssumption
  <2>4. buf' \in Seq(Bytes) /\ Len(buf') >= Len(buf)
    BY <2>2, <2>3 DEF FrameInv, ScanTypeOK
  <2> QED
    BY <1>11, <2>4 DEF Read, scanVars, FrameInv, ScanTypeOK, StackInBounds,
                       BudgetInv, HandInv
<1>12. CASE ReadEof
  BY <1>12 DEF ReadEof, scanVars, FrameInv, ScanTypeOK, StackInBounds, BudgetInv, HandInv
<1>13. CASE UNCHANGED vars
  BY <1>13 DEF vars, scanVars, FrameInv, ScanTypeOK, StackInBounds, BudgetInv, HandInv
<1> QED
  BY <1>1, <1>2, <1>3, <1>4, <1>5, <1>6, <1>7, <1>8, <1>9, <1>10, <1>11, <1>12,
     <1>13 DEF Next

\* The walk and the value it holds stay inside the buffer, read after read.
THEOREM ScanTypeCorrect == Spec => []ScanTypeOK
<1>1. FrameInv => ScanTypeOK
  BY DEF FrameInv
<1> QED
  BY InitFrameInv, StepFrameInv, <1>1, PTL DEF Spec

\* For every MAX_DEPTH of two or more the explicit stack of scan_frame fits its
\* fixed arrays: the per-path budget admits at most MAX_DEPTH / 2 open containers.
THEOREM NeverOutOfBounds == Spec => []StackInBounds
<1>1. FrameInv => StackInBounds
  BY DEF FrameInv
<1> QED
  BY InitFrameInv, StepFrameInv, <1>1, PTL DEF Spec

-----------------------------------------------------------------------------
(* The reference: positions, sizes and counts. *)

LEMMA LeastNat ==
  ASSUME NEW S, S \subseteq Nat, S # {}
  PROVE  \E b \in S : \A c \in S : b <= c
<1>1. PICK b \in S : \A c \in S : ~(<<c, b>> \in OpToRel(<, Nat))
  BY NatLessThanWellFounded, WFMin
<1>2. \A c \in S : ~(c < b)
  BY <1>1 DEF OpToRel
<1> QED
  BY <1>2

\* What a header that is there says.
LEMMA ValueFacts ==
  ASSUME NEW f \in Seq(0..255), NEW p \in Nat, HeaderEnd(f, p) <= Len(f)
  PROVE  /\ p < Len(f)
         /\ f[p + 1] \in 0..255
         /\ LenBytes(f[p + 1]) \in {0, 1, 2, 4}
         /\ HeaderEnd(f, p) \in Nat /\ p < HeaderEnd(f, p)
         /\ LengthAt(f, p) \in Nat
         /\ EndAt(f, p) \in Nat /\ HeaderEnd(f, p) <= EndAt(f, p)
         /\ Arity(f, p) \in Nat
<1>1. LenBytes(f[p + 1]) \in {0, 1, 2, 4}
  BY DEF LenBytes
<1>2. HeaderEnd(f, p) \in Nat /\ p < HeaderEnd(f, p)
  BY <1>1 DEF HeaderEnd
<1>3. p < Len(f) /\ p + 1 \in 1..Len(f)
  BY <1>2
<1>4. f[p + 1] \in 0..255
  BY <1>3, SeqElement
<1>5. LengthAt(f, p) \in Nat
  BY <1>1, ReadBeNat DEF LengthAt, HeaderEnd
<1>6. Payload(f[p + 1], LengthAt(f, p)) \in Nat
  BY <1>4, <1>5, MarkerFacts
<1>7. EndAt(f, p) \in Nat /\ HeaderEnd(f, p) <= EndAt(f, p)
  BY <1>2, <1>6 DEF EndAt
<1>8. Arity(f, p) \in Nat
  BY <1>4, <1>5, MarkerFacts DEF Arity
<1> QED
  BY <1>1, <1>2, <1>3, <1>4, <1>5, <1>7, <1>8

\* read_be looks at the n bytes it is asked for.
LEMMA ReadBeSame ==
  ASSUME NEW f \in Seq(0..255), NEW g \in Seq(0..255), NEW p \in Nat,
         NEW n \in {0, 1, 2, 4}, p + n <= Len(f), p + n <= Len(g),
         \A i \in 1..Len(f) : i <= Len(g) => f[i] = g[i]
  PROVE  read_be(f, p, n) = read_be(g, p, n)
<1>1. \A i \in 1..n : f[p + i] = g[p + i]
  OBVIOUS
<1>2. CASE n = 0
  BY <1>2 DEF read_be
<1>3. CASE n = 1
  BY <1>1, <1>3 DEF read_be
<1>4. CASE n = 2
  <2>1. f[p + 1] = g[p + 1] /\ f[p + 1 + 1] = g[p + 1 + 1]
    BY <1>4
  <2> QED
    BY <2>1, <1>4 DEF read_be
<1>5. CASE n = 4
  <2>1. /\ f[p + 1] = g[p + 1] /\ f[p + 2] = g[p + 2]
        /\ f[p + 3] = g[p + 3] /\ f[p + 4] = g[p + 4]
    BY <1>1, <1>5
  <2>2. p + 1 + 1 = p + 2 /\ p + 3 + 1 = p + 4
    OBVIOUS
  <2> QED
    BY <2>1, <2>2, <1>5 DEF read_be
<1> QED
  BY <1>2, <1>3, <1>4, <1>5

\* Two byte strings that agree as far as both go hold the same value where its
\* header is in both.
LEMMA SameValue ==
  ASSUME NEW f \in Seq(0..255), NEW g \in Seq(0..255), NEW p \in Nat,
         \A i \in 1..Len(f) : i <= Len(g) => f[i] = g[i],
         HeaderEnd(f, p) <= Len(f), p < Len(g)
  PROVE  /\ f[p + 1] = g[p + 1]
         /\ HeaderEnd(g, p) = HeaderEnd(f, p)
         /\ HeaderEnd(g, p) <= Len(g) => /\ LengthAt(g, p) = LengthAt(f, p)
                                         /\ EndAt(g, p) = EndAt(f, p)
                                         /\ Arity(g, p) = Arity(f, p)
<1>1. p < Len(f) /\ LenBytes(f[p + 1]) \in {0, 1, 2, 4}
  BY ValueFacts
<1>2. f[p + 1] = g[p + 1]
  BY <1>1
<1>3. HeaderEnd(g, p) = HeaderEnd(f, p)
  BY <1>2 DEF HeaderEnd
<1>4. ASSUME HeaderEnd(g, p) <= Len(g) PROVE LengthAt(g, p) = LengthAt(f, p)
  <2>1. /\ p + 1 + LenBytes(f[p + 1]) <= Len(f)
        /\ p + 1 + LenBytes(f[p + 1]) <= Len(g)
    BY <1>2, <1>3, <1>4 DEF HeaderEnd
  <2>2. read_be(f, p + 1, LenBytes(f[p + 1])) = read_be(g, p + 1, LenBytes(f[p + 1]))
    BY <1>1, <2>1, ReadBeSame
  <2> QED
    BY <1>2, <2>2 DEF LengthAt
<1> QED
  BY <1>2, <1>3, <1>4 DEF EndAt, Arity

\* What is announced at a position depends on what starts before it only.
LEMMA AnnouncedSame ==
  ASSUME NEW f, NEW g, NEW S, NEW T, NEW p, Before(S, p) = Before(T, p),
         \A q \in Before(S, p) : Arity(f, q) = Arity(g, q)
  PROVE  Slots(f, S, p) = Slots(g, T, p) /\ Announced(f, S, p) = Announced(g, T, p)
<1>1. Slots(f, S, p) = Slots(g, T, p)
  <2>1. {{q} \X (1..Arity(f, q)) : q \in Before(S, p)} =
          {{q} \X (1..Arity(g, q)) : q \in Before(T, p)}
    OBVIOUS
  <2> QED
    BY <2>1 DEF Slots
<1> QED
  BY <1>1 DEF Announced

\* The places of one container are as many as it declares.
LEMMA SlotsOfOne ==
  ASSUME NEW q, NEW k \in Nat
  PROVE  IsFiniteSet({q} \X (1..k)) /\ Cardinality({q} \X (1..k)) = k
<1> DEFINE F == [i \in 1..k |-> <<q, i>>]
<1>1. F \in [1..k -> {q} \X (1..k)]
  OBVIOUS
<1>2. \A i, j \in 1..k : F[i] = F[j] => i = j
  OBVIOUS
<1>3. \A x \in {q} \X (1..k) : \E i \in 1..k : F[i] = x
  <2> SUFFICES ASSUME NEW x \in {q} \X (1..k) PROVE \E i \in 1..k : F[i] = x
    OBVIOUS
  <2>1. PICK i \in 1..k : x = <<q, i>>
    OBVIOUS
  <2> QED
    BY <2>1
<1> HIDE DEF F
<1>4. F \in Bijection(1..k, {q} \X (1..k))
  BY <1>1, <1>2, <1>3 DEF Bijection, Injection, IsInjective, Surjection
<1>5. ExistsBijection(1..k, {q} \X (1..k))
  BY <1>4 DEF ExistsBijection
<1>6. IsFiniteSet(1..k) /\ Cardinality(1..k) = k
  BY FS_Interval
<1> QED
  BY <1>5, <1>6, FS_Bijection

\* A value takes one of the places announced and announces as many as it holds.
LEMMA AnnouncedStep ==
  ASSUME NEW f, NEW S, NEW p \in Nat, NEW e \in Nat,
         Before(S, e) = Before(S, p) \cup {p}, Arity(f, p) \in Nat,
         IsFiniteSet(Before(S, p)), IsFiniteSet(Slots(f, S, p))
  PROVE  /\ IsFiniteSet(Slots(f, S, e))
         /\ Cardinality(Slots(f, S, e)) = Cardinality(Slots(f, S, p)) + Arity(f, p)
         /\ Announced(f, S, e) = Announced(f, S, p) - 1 + Arity(f, p)
<1> DEFINE own == {p} \X (1..Arity(f, p))
<1>1. p \notin Before(S, p)
  BY DEF Before
<1>2. Slots(f, S, e) = Slots(f, S, p) \cup own
  BY DEF Slots
<1>3. Slots(f, S, p) \cap own = {}
  BY <1>1 DEF Slots
<1>4. IsFiniteSet(own) /\ Cardinality(own) = Arity(f, p)
  BY SlotsOfOne
<1>5. Cardinality(Slots(f, S, p)) \in Nat /\ Cardinality(Before(S, p)) \in Nat
  BY FS_CardinalityType
<1> HIDE DEF own
<1>6. /\ IsFiniteSet(Slots(f, S, e))
      /\ Cardinality(Slots(f, S, e)) = Cardinality(Slots(f, S, p)) + Arity(f, p)
  <2>1. \A A, B : IsFiniteSet(A) /\ IsFiniteSet(B) /\ A \cap B = {} =>
          /\ IsFiniteSet(A \cup B)
          /\ Cardinality(A \cup B) = Cardinality(A) + Cardinality(B) - 0
    BY FS_Union, FS_EmptySet
  <2> QED
    BY <2>1, <1>2, <1>3, <1>4, <1>5
<1>7. Cardinality(Before(S, e)) = Cardinality(Before(S, p)) + 1
  BY <1>1, FS_AddElement
<1> QED
  BY <1>5, <1>6, <1>7 DEF Announced

\* The values before the end of a value are those before it and itself.
LEMMA NextStart ==
  ASSUME NEW f \in Seq(0..255), NEW e \in Nat, NEW S \in SUBSET (0..(e - 1)),
         EndToEnd(f, S, e), NEW q \in S
  PROVE  /\ HeaderEnd(f, q) <= Len(f)
         /\ Arity(f, q) \in Nat
         /\ EndAt(f, q) \in Nat /\ q < EndAt(f, q)
         /\ EndAt(f, q) \in S \cup {e}
         /\ Before(S, EndAt(f, q)) = Before(S, q) \cup {q}
<1>1. HeaderEnd(f, q) <= Len(f) /\ EndAt(f, q) \in S \cup {e}
  BY DEF EndToEnd
<1>2. q \in Nat
  OBVIOUS
<1>3. Arity(f, q) \in Nat /\ EndAt(f, q) \in Nat /\ q < EndAt(f, q)
  BY <1>1, <1>2, ValueFacts
<1>4. \A r \in S : r < EndAt(f, q) => r <= q
  <2> SUFFICES ASSUME NEW r \in S, r < EndAt(f, q), q < r PROVE FALSE
    OBVIOUS
  <2>1. EndAt(f, q) <= r
    BY DEF EndToEnd
  <2> QED
    BY <2>1, <1>3
<1>5. \A r \in S : r < EndAt(f, q) <=> r < q \/ r = q
  <2>1. \A r \in S : r \in Nat
    OBVIOUS
  <2> QED
    BY <1>2, <1>3, <1>4, <2>1
<1>6. Before(S, EndAt(f, q)) = Before(S, q) \cup {q}
  BY <1>5 DEF Before
<1> QED
  BY <1>1, <1>3, <1>6

\* Only finitely many values start and are announced before a position.
LEMMA FiniteBefore ==
  ASSUME NEW e \in Nat, NEW S \in SUBSET (0..(e - 1)), NEW p
  PROVE  IsFiniteSet(S) /\ IsFiniteSet(Before(S, p))
         /\ Cardinality(S) \in Nat /\ Cardinality(Before(S, p)) \in Nat
<1>1. IsFiniteSet(0..(e - 1))
  BY FS_Interval
<1>2. IsFiniteSet(S) /\ IsFiniteSet(Before(S, p))
  BY <1>1, FS_Subset DEF Before
<1> QED
  BY <1>2, FS_CardinalityType

LEMMA FiniteSlots ==
  ASSUME NEW f \in Seq(0..255), NEW e \in Nat, NEW S \in SUBSET (0..(e - 1)),
         EndToEnd(f, S, e), NEW p \in S \cup {e}
  PROVE  IsFiniteSet(Slots(f, S, p)) /\ Cardinality(Slots(f, S, p)) \in Nat
<1> DEFINE bad == {r \in S \cup {e} : ~IsFiniteSet(Slots(f, S, r))}
<1>1. ASSUME bad # {} PROVE FALSE
  <2>0. bad \subseteq Nat
    <3>1. \A r \in S : r \in Nat
      OBVIOUS
    <3> QED
      BY <3>1
  <2>1. PICK r \in bad : \A c \in bad : r <= c
    BY <1>1, <2>0, LeastNat
  <2>2. r \in S \cup {e} /\ r \in Nat /\ ~IsFiniteSet(Slots(f, S, r))
    OBVIOUS
  <2>3. CASE r = 0
    <3>1. Before(S, r) = {}
      <4>1. \A q \in S : ~(q < 0)
        OBVIOUS
      <4> QED
        BY <2>3, <4>1 DEF Before
    <3>2. Slots(f, S, r) = {}
      BY <3>1 DEF Slots
    <3> QED
      BY <3>2, <2>2, FS_EmptySet
  <2>4. CASE r # 0
    <3>1. PICK q \in S : EndAt(f, q) = r
      BY <2>2, <2>4 DEF EndToEnd
    <3>2. /\ Before(S, r) = Before(S, q) \cup {q} /\ q < r /\ q \in Nat
          /\ Arity(f, q) \in Nat
      BY <3>1, NextStart
    <3>3. IsFiniteSet(Slots(f, S, q))
      BY <3>2, <2>1, <2>2
    <3>4. IsFiniteSet(Before(S, q))
      BY FiniteBefore
    <3>5. IsFiniteSet(Slots(f, S, r))
      BY <3>2, <3>3, <3>4, <2>2, AnnouncedStep
    <3> QED
      BY <3>5, <2>2
  <2> QED
    BY <2>3, <2>4
<1> QED
  BY <1>1, FS_CardinalityType

LEMMA AnnouncedInt ==
  ASSUME NEW f \in Seq(0..255), NEW e \in Nat, NEW S \in SUBSET (0..(e - 1)),
         EndToEnd(f, S, e), NEW p \in S \cup {e}
  PROVE  Announced(f, S, p) \in Int
<1>1. Cardinality(Slots(f, S, p)) \in Nat /\ Cardinality(Before(S, p)) \in Nat
  BY FiniteSlots, FiniteBefore
<1> QED
  BY <1>1 DEF Announced

LEMMA AnnouncedAlong ==
  ASSUME NEW f \in Seq(0..255), NEW e \in Nat, NEW S \in SUBSET (0..(e - 1)),
         EndToEnd(f, S, e), NEW q \in S
  PROVE  /\ Announced(f, S, EndAt(f, q)) = Announced(f, S, q) - 1 + Arity(f, q)
         /\ Cardinality(Slots(f, S, EndAt(f, q)))
              = Cardinality(Slots(f, S, q)) + Arity(f, q)
<1>1. /\ Arity(f, q) \in Nat /\ EndAt(f, q) \in Nat /\ q \in Nat
      /\ Before(S, EndAt(f, q)) = Before(S, q) \cup {q}
  BY NextStart
<1>2. IsFiniteSet(Slots(f, S, q)) /\ IsFiniteSet(Before(S, q))
  BY FiniteSlots, FiniteBefore
<1> QED
  BY <1>1, <1>2, AnnouncedStep

-----------------------------------------------------------------------------
(***************************************************************************)
(* The walk.  W is the set of values walked so far and cur the position    *)
(* after them; anc[l] is the container that opened level l of the stack,   *)
(* and below[l] what the levels under l owe together.                      *)
(***************************************************************************)

\* The values walked lie end to end and keep to the limits.
Walked(b, W, cur, n) ==
  /\ W \in SUBSET (0..(cur - 1))
  /\ EndToEnd(b, W, cur) /\ Cardinality(W) = n
  /\ \A p \in W : Announced(b, W, p) > 0
  /\ \A p \in W : Charge(b[p + 1]) <= MAX_DEPTH - 2 * Cardinality(Around(b, W, p))

Sums(below, d, owed) ==
  /\ \A l \in 0..(d - 1) : below[l + 1] = below[l] + owed[l]
  /\ \A l, m \in 0..d : l <= m => below[l] <= below[m]

\* What is announced and has not started is what the stack owes.
Levelled(b, W, below, cur, d, owed) ==
  /\ below \in [Nat -> Nat] /\ below[0] = 0 /\ Sums(below, d, owed)
  /\ Announced(b, W, cur) = below[d]

\* The level under a container owes what was announced when it started, without it.
Opened(b, W, anc, below, d) ==
  /\ anc \in [Nat -> Nat]
  /\ \A l \in 1..(d - 1) :
       /\ anc[l] \in W /\ Announced(b, W, anc[l]) = below[l] + 1
       /\ \A r \in W : anc[l] < r => Announced(b, W, r) >= below[l] + 1
  /\ \A l, m \in 1..(d - 1) : l < m => anc[l] < anc[m]

\* Any other value is over: fewer are announced somewhere behind it.
Closed(b, W, anc, cur, d) ==
  \A q \in W : \/ \E l \in 1..(d - 1) : anc[l] = q
               \/ \E r \in W \cup {cur} : /\ q < r
                                         /\ Announced(b, W, r) < Announced(b, W, q)

Walk(b, W, anc, below, cur, d, owed, n) ==
  /\ Walked(b, W, cur, n) /\ Levelled(b, W, below, cur, d, owed)
  /\ Opened(b, W, anc, below, d) /\ Closed(b, W, anc, cur, d)

\* A walk that takes one value more.
LEMMA OneMore ==
  ASSUME NEW b \in Seq(0..255), NEW cur \in Nat, NEW W \in SUBSET (0..(cur - 1)),
         EndToEnd(b, W, cur), HeaderEnd(b, cur) <= Len(b)
  PROVE  LET V == W \cup {cur}
             e == EndAt(b, cur)
         IN  /\ e \in Nat /\ cur < e /\ V \in SUBSET (0..(e - 1))
             /\ EndToEnd(b, V, e)
             /\ Cardinality(V) = Cardinality(W) + 1
             /\ Before(V, cur) = W
             /\ \A p \in V : Announced(b, V, p) = Announced(b, W, p)
             /\ Announced(b, V, e) = Announced(b, W, cur) - 1 + Arity(b, cur)
             /\ \A p \in W : Around(b, V, p) = Around(b, W, p)
<1> DEFINE V == W \cup {cur}
<1> DEFINE e == EndAt(b, cur)
<1>1. e \in Nat /\ cur < e
  BY ValueFacts
<1>2. \A p \in W : p \in Nat /\ p < cur
  OBVIOUS
<1>2a. cur \notin W /\ \A p \in V : p <= cur /\ ~(cur < p)
  BY <1>2
<1>3. V \in SUBSET (0..(e - 1))
  BY <1>1, <1>2
<1>4. EndToEnd(b, V, e)
  <2>1. 0 \in V \cup {e}
    BY DEF EndToEnd
  <2>2. ASSUME NEW p \in V PROVE HeaderEnd(b, p) <= Len(b) /\ EndAt(b, p) \in V \cup {e}
    BY DEF EndToEnd
  <2>3. ASSUME NEW p \in V, NEW q \in V, p < q PROVE EndAt(b, p) <= q
    <3>1. p \in W
      BY <1>2, <2>3
    <3>2. CASE q \in W
      BY <2>3, <3>1, <3>2 DEF EndToEnd
    <3>3. CASE q = cur
      <4>1. EndAt(b, p) \in W \cup {cur}
        BY <3>1 DEF EndToEnd
      <4> QED
        BY <4>1, <1>2a, <3>3
    <3> QED
      BY <3>2, <3>3
  <2>4. ASSUME NEW p \in V \cup {e}, p # 0 PROVE \E q \in V : EndAt(b, q) = p
    <3>1. CASE p \in W \cup {cur}
      BY <2>4, <3>1 DEF EndToEnd
    <3>2. CASE p = e
      BY <3>2
    <3> QED
      BY <3>1, <3>2
  <2> QED
    BY <2>1, <2>2, <2>3, <2>4 DEF EndToEnd
<1>5. Cardinality(V) = Cardinality(W) + 1
  <2>1. IsFiniteSet(W) /\ cur \notin W
    BY FiniteBefore, <1>2a
  <2> QED
    BY <2>1, FS_AddElement
<1>6. ASSUME NEW p \in V PROVE Before(V, p) = Before(W, p)
  <2>1. ~(cur < p)
    BY <1>2a
  <2> QED
    BY <2>1 DEF Before
<1>7. \A p \in V : Announced(b, V, p) = Announced(b, W, p)
  <2> SUFFICES ASSUME NEW p \in V PROVE Announced(b, V, p) = Announced(b, W, p)
    OBVIOUS
  <2>1. Before(V, p) = Before(W, p) /\ \A q \in Before(V, p) : Arity(b, q) = Arity(b, q)
    BY <1>6
  <2> HIDE DEF V
  <2> QED
    BY <2>1, AnnouncedSame
<1>8. Announced(b, V, e) = Announced(b, W, cur) - 1 + Arity(b, cur)
  <2>1. Announced(b, V, EndAt(b, cur)) = Announced(b, V, cur) - 1 + Arity(b, cur)
    BY <1>1, <1>3, <1>4, AnnouncedAlong
  <2> QED
    BY <1>7, <2>1
<1>9. ASSUME NEW p \in W PROVE Around(b, V, p) = Around(b, W, p)
  <2>1. \A r \in V : r <= p => r \in W
    BY <1>2
  <2>2. Before(V, p) = Before(W, p) /\ Before(W, p) \subseteq W
    BY <1>6 DEF Before
  <2>3. /\ \A q \in Before(W, p) : Announced(b, V, q) = Announced(b, W, q)
        /\ \A r \in V : r <= p => Announced(b, V, r) = Announced(b, W, r)
    BY <1>7, <2>2
  <2> QED
    BY <2>1, <2>2, <2>3 DEF Around
<1>10. Before(V, cur) = W
  BY <1>2, <1>2a DEF Before
<1> QED
  BY <1>1, <1>3, <1>4, <1>5, <1>7, <1>8, <1>9, <1>10

\* The frame f, whose values are S, goes on as far as cur as b does, and a value of
\* it starts there.
GoesOn(b, W, cur, f, S) ==
  /\ S \subseteq Nat /\ Before(S, cur) = W /\ cur \in S
  /\ \A p \in W \cup {cur} : Announced(f, S, p) = Announced(b, W, p)
  /\ \A p \in W \cup {cur} : Announced(b, W, p) \in Int

\* The innermost level owes something.
Owing(below, d) ==
  /\ below \in [Nat -> Nat] /\ below[d] >= below[d - 1] + 1
  /\ \A l, m \in 0..d : l <= m => below[l] <= below[m]

\* The containers around the next value, in any frame that goes on so, are those
\* that the stack has a level for.
LEMMA AroundOpen ==
  ASSUME NEW b, NEW cur \in Nat, NEW W, NEW d \in Nat, d > 0, NEW anc, NEW below,
         Opened(b, W, anc, below, d), Closed(b, W, anc, cur, d), Owing(below, d),
         Announced(b, W, cur) = below[d],
         NEW f, NEW S, GoesOn(b, W, cur, f, S)
  PROVE  Cardinality(Around(f, S, cur)) = d - 1
<1> DEFINE open == {anc[l] : l \in 1..(d - 1)}
<1>0. /\ S \subseteq Nat /\ Before(S, cur) = W /\ cur \in S /\ below \in [Nat -> Nat]
      /\ \A p \in W \cup {cur} : Announced(b, W, p) \in Int
      /\ \A p \in W \cup {cur} : Announced(f, S, p) = Announced(b, W, p)
      /\ \A l, m \in 0..d : l <= m => below[l] <= below[m]
  BY DEF GoesOn, Owing
<1>0a. Announced(b, W, cur) >= below[d - 1] + 1
  BY DEF Owing
<1>1. \A r \in S : r <= cur => r \in W \cup {cur}
  BY <1>0 DEF Before
<1>2. \A r \in W : r \in S /\ r \in Nat /\ r < cur
  BY <1>0 DEF Before
<1>3. ASSUME NEW l \in 1..(d - 1) PROVE anc[l] \in Around(f, S, cur)
  <2>1. anc[l] \in W /\ Announced(b, W, anc[l]) = below[l] + 1
    BY DEF Opened
  <2>2. ASSUME NEW r \in S, anc[l] < r, r <= cur
        PROVE  Announced(f, S, r) >= Announced(f, S, anc[l])
    <3>1. Announced(f, S, anc[l]) = below[l] + 1
      BY <1>0, <2>1
    <3>2. CASE r \in W
      BY <1>0, <2>2, <3>1, <3>2 DEF Opened
    <3>3. CASE r = cur
      <4>0. l \in 0..d /\ d - 1 \in 0..d /\ l <= d - 1 /\ l \in Nat /\ d - 1 \in Nat
        OBVIOUS
      <4>1. below[l] <= below[d - 1] /\ below[l] \in Nat /\ below[d - 1] \in Nat
        BY <1>0, <4>0
      <4>2. Announced(f, S, r) >= below[d - 1] + 1 /\ Announced(f, S, r) \in Int
        BY <1>0, <1>0a, <3>3
      <4> QED
        BY <3>1, <4>1, <4>2
    <3> QED
      BY <1>1, <2>2, <3>2, <3>3
  <2> QED
    BY <1>0, <2>1, <2>2 DEF Around
<1>4. ASSUME NEW q \in Around(f, S, cur) PROVE q \in open
  <2>1. q \in W /\ \A r \in S : q < r /\ r <= cur => Announced(f, S, r) >= Announced(f, S, q)
    BY <1>0 DEF Around
  <2>2. ASSUME NEW r \in W \cup {cur}, q < r, Announced(b, W, r) < Announced(b, W, q)
        PROVE  FALSE
    <3>1. r \in S /\ r <= cur
      BY <1>0, <1>2
    <3>2. Announced(f, S, r) >= Announced(f, S, q)
      BY <2>1, <2>2, <3>1
    <3>3. Announced(f, S, r) = Announced(b, W, r) /\ Announced(f, S, q) = Announced(b, W, q)
      BY <1>0, <2>1
    <3>4. Announced(b, W, r) \in Int /\ Announced(b, W, q) \in Int
      BY <1>0, <2>1
    <3> QED
      BY <2>2, <3>2, <3>3, <3>4
  <2> QED
    BY <2>1, <2>2 DEF Closed
<1>5. Around(f, S, cur) = open
  BY <1>3, <1>4
<1>6. Cardinality(open) = d - 1
  <2> DEFINE F == [l \in 1..(d - 1) |-> anc[l]]
  <2>1. F \in [1..(d - 1) -> open]
    OBVIOUS
  <2>2. \A l, m \in 1..(d - 1) : anc[l] = anc[m] => l = m
    <3>1. \A l \in 1..(d - 1) : anc[l] \in Nat
      BY DEF Opened
    <3> QED
      BY <3>1 DEF Opened
  <2>3. \A l, m \in 1..(d - 1) : F[l] = F[m] => l = m
    BY <2>2
  <2>4. \A x \in open : \E l \in 1..(d - 1) : F[l] = x
    OBVIOUS
  <2> HIDE DEF F, open
  <2>5. F \in Bijection(1..(d - 1), open)
    BY <2>1, <2>3, <2>4 DEF Bijection, Injection, IsInjective, Surjection
  <2>6. ExistsBijection(1..(d - 1), open)
    BY <2>5 DEF ExistsBijection
  <2>7. IsFiniteSet(1..(d - 1)) /\ Cardinality(1..(d - 1)) = d - 1
    BY FS_Interval
  <2> QED
    BY <2>6, <2>7, FS_Bijection
<1> QED
  BY <1>5, <1>6

\* Before the first byte: the frame itself is announced.
LEMMA FreshWalk ==
  ASSUME NEW b, NEW owed, owed[0] = 1
  PROVE  \E anc, below : Walk(b, {}, anc, below, 0, 1, owed, 0)
<1> DEFINE anc == [l \in Nat |-> 0]
<1> DEFINE below == [l \in Nat |-> IF l = 0 THEN 0 ELSE 1]
<1>1. EndToEnd(b, {}, 0)
  BY DEF EndToEnd
<1>2. Before({}, 0) = {} /\ Slots(b, {}, 0) = {}
  BY DEF Before, Slots
<1>3. Announced(b, {}, 0) = 1
  BY <1>2, FS_EmptySet DEF Announced
<1>4. Walked(b, {}, 0, 0)
  BY <1>1, FS_EmptySet DEF Walked
<1>5. Levelled(b, {}, below, 0, 1, owed)
  <2>1. below \in [Nat -> Nat] /\ below[0] = 0 /\ below[1] = 1
    OBVIOUS
  <2>2. \A l \in 0..(1 - 1) : l = 0
    OBVIOUS
  <2>3. \A l \in 0..1 : l = 0 \/ l = 1
    OBVIOUS
  <2>4. \A l \in 0..(1 - 1) : below[l + 1] = below[l] + owed[l]
    BY <2>1, <2>2
  <2>5. \A l, m \in 0..1 : l <= m => below[l] <= below[m]
    BY <2>1, <2>3
  <2> HIDE DEF below
  <2> QED
    BY <1>3, <2>1, <2>4, <2>5 DEF Levelled, Sums
<1>6. Opened(b, {}, anc, below, 1) /\ Closed(b, {}, anc, 0, 1)
  BY DEF Opened, Closed
<1> HIDE DEF anc, below
<1> QED
  BY <1>4, <1>5, <1>6 DEF Walk

\* A level that owes nothing is closed: what it was opened for is over.
LEMMA PopWalk ==
  ASSUME NEW b \in Seq(0..255), NEW cur \in Nat, NEW W, NEW anc, NEW below,
         NEW d \in Nat, d > 0, NEW owed, NEW n,
         Walk(b, W, anc, below, cur, d, owed, n), owed[d - 1] = 0
  PROVE  Walk(b, W, anc, below, cur, d - 1, owed, n)
<1>0. W \in SUBSET (0..(cur - 1)) /\ below \in [Nat -> Nat]
  BY DEF Walk, Walked, Levelled
<1>1. below[d] = below[d - 1] /\ below[d - 1] \in Nat
  <2>1. d - 1 \in Nat /\ d - 1 \in 0..(d - 1) /\ (d - 1) + 1 = d
    OBVIOUS
  <2>2. below[d - 1] \in Nat
    BY <1>0, <2>1
  <2>3. below[(d - 1) + 1] = below[d - 1] + owed[d - 1]
    BY <2>1 DEF Walk, Levelled, Sums
  <2> QED
    BY <2>1, <2>2, <2>3
<1>2. Levelled(b, W, below, cur, d - 1, owed)
  <2>1. \A l \in 0..((d - 1) - 1) : l \in 0..(d - 1)
    OBVIOUS
  <2>2. \A l \in 0..(d - 1) : l \in 0..d
    OBVIOUS
  <2> QED
    BY <1>1, <2>1, <2>2 DEF Walk, Levelled, Sums
<1>3. \A l \in 1..((d - 1) - 1) : l \in 1..(d - 1)
  OBVIOUS
<1>4. Opened(b, W, anc, below, d - 1)
  BY <1>3 DEF Walk, Opened
<1>5. Closed(b, W, anc, cur, d - 1)
  <2> SUFFICES ASSUME NEW q \in W
               PROVE  \/ \E l \in 1..((d - 1) - 1) : anc[l] = q
                      \/ \E r \in W \cup {cur} :
                           q < r /\ Announced(b, W, r) < Announced(b, W, q)
    BY DEF Closed
  <2>1. CASE \E r \in W \cup {cur} : q < r /\ Announced(b, W, r) < Announced(b, W, q)
    BY <2>1
  <2>2. ASSUME NEW l \in 1..(d - 1), anc[l] = q, l = d - 1
        PROVE  q < cur /\ Announced(b, W, cur) < Announced(b, W, q)
    <3>1. Announced(b, W, q) = below[d - 1] + 1
      BY <2>2 DEF Walk, Opened
    <3>2. Announced(b, W, cur) = below[d - 1]
      BY <1>1 DEF Walk, Levelled, Sums
    <3> QED
      BY <1>0, <1>1, <3>1, <3>2
  <2>3. ASSUME NEW l \in 1..(d - 1), anc[l] = q, l # d - 1
        PROVE  l \in 1..((d - 1) - 1)
    BY <2>3
  <2> QED
    BY <2>1, <2>2, <2>3 DEF Walk, Closed
<1> QED
  BY <1>2, <1>4, <1>5 DEF Walk

\* More bytes behind what was walked change nothing of the walk.
LEMMA GrowWalk ==
  ASSUME NEW b \in Seq(0..255), NEW c \in Seq(0..255), NEW cur \in Nat,
         NEW W, NEW anc, NEW below, NEW d \in Nat, NEW owed, NEW n,
         Walk(b, W, anc, below, cur, d, owed, n),
         \A i \in 1..Len(b) : i <= Len(c) => b[i] = c[i],
         \A p \in W : HeaderEnd(b, p) <= Len(c)
  PROVE  Walk(c, W, anc, below, cur, d, owed, n)
<1>1. W \in SUBSET (0..(cur - 1)) /\ EndToEnd(b, W, cur)
  BY DEF Walk, Walked
<1>2. \A p \in W : /\ p \in Nat /\ HeaderEnd(b, p) <= Len(b) /\ p < Len(c)
  <2> SUFFICES ASSUME NEW p \in W
               PROVE  p \in Nat /\ HeaderEnd(b, p) <= Len(b) /\ p < Len(c)
    OBVIOUS
  <2>1. p \in Nat /\ HeaderEnd(b, p) <= Len(b)
    BY <1>1 DEF EndToEnd
  <2>2. p < HeaderEnd(b, p) /\ HeaderEnd(b, p) \in Nat /\ Len(c) \in Nat
    BY <2>1, ValueFacts
  <2> QED
    BY <2>1, <2>2
<1>3. \A p \in W : /\ b[p + 1] = c[p + 1] /\ HeaderEnd(c, p) = HeaderEnd(b, p)
                   /\ EndAt(c, p) = EndAt(b, p) /\ Arity(c, p) = Arity(b, p)
  BY <1>2, SameValue
<1>4. EndToEnd(c, W, cur)
  BY <1>1, <1>3 DEF EndToEnd
<1>5. \A p \in W \cup {cur} : Announced(c, W, p) = Announced(b, W, p)
  <2> SUFFICES ASSUME NEW p \in W \cup {cur}
               PROVE  Announced(c, W, p) = Announced(b, W, p)
    OBVIOUS
  <2>1. \A q \in Before(W, p) : Arity(b, q) = Arity(c, q)
    BY <1>3 DEF Before
  <2> QED
    BY <2>1, AnnouncedSame
<1>6. \A p \in W : Around(c, W, p) = Around(b, W, p)
  <2> SUFFICES ASSUME NEW p \in W PROVE Around(c, W, p) = Around(b, W, p)
    OBVIOUS
  <2>1. \A q \in Before(W, p) : Announced(c, W, q) = Announced(b, W, q)
    BY <1>5 DEF Before
  <2> QED
    BY <1>5, <2>1 DEF Around
<1>7. Walked(c, W, cur, n)
  BY <1>1, <1>3, <1>4, <1>5, <1>6 DEF Walk, Walked
<1>8. Levelled(c, W, below, cur, d, owed)
  BY <1>5 DEF Walk, Levelled, Sums
<1>9. Opened(c, W, anc, below, d) /\ Closed(c, W, anc, cur, d)
  BY <1>5 DEF Walk, Opened, Closed
<1> QED
  BY <1>7, <1>8, <1>9 DEF Walk

\* The walk with the value at cur, before anything is made of what it holds.
Taken(b, W, V, anc, below, cur, e, d, owed, n) ==
  /\ W \in SUBSET (0..(cur - 1)) /\ e \in Nat /\ cur < e
  /\ Walked(b, V, e, n + 1)
  /\ below[d] \in Nat /\ below[d - 1] \in Nat
  /\ below[d] = below[d - 1] + owed[d - 1]
  /\ Announced(b, V, cur) = below[d]
  /\ Announced(b, V, e) = below[d] - 1 + Arity(b, cur)
  /\ Opened(b, V, anc, below, d)
  /\ \A q \in W : \/ \E l \in 1..(d - 1) : anc[l] = q
                  \/ \E r \in V : /\ q < r
                                  /\ Announced(b, V, r) < Announced(b, V, q)

\* What a value that is taken adds to the walk, whatever it is.
LEMMA TakeWalk ==
  ASSUME NEW b \in Seq(0..255), NEW cur \in Nat, NEW W, NEW anc, NEW below,
         NEW d \in Nat, d > 0, NEW owed, NEW n \in Nat,
         Walk(b, W, anc, below, cur, d, owed, n),
         owed[d - 1] \in Nat, owed[d - 1] > 0, HeaderEnd(b, cur) <= Len(b),
         Charge(b[cur + 1]) <= MAX_DEPTH - 2 * (d - 1)
  PROVE  Taken(b, W, W \cup {cur}, anc, below, cur, EndAt(b, cur), d, owed, n)
<1> DEFINE V == W \cup {cur}
<1> DEFINE e == EndAt(b, cur)
<1>1. /\ W \in SUBSET (0..(cur - 1)) /\ EndToEnd(b, W, cur) /\ Cardinality(W) = n
      /\ below \in [Nat -> Nat]
  BY DEF Walk, Walked, Levelled
<1>2. /\ e \in Nat /\ cur < e /\ V \in SUBSET (0..(e - 1))
      /\ EndToEnd(b, V, e) /\ Cardinality(V) = n + 1 /\ Before(V, cur) = W
      /\ \A p \in V : Announced(b, V, p) = Announced(b, W, p)
      /\ Announced(b, V, e) = Announced(b, W, cur) - 1 + Arity(b, cur)
      /\ \A p \in W : Around(b, V, p) = Around(b, W, p)
  BY <1>1, OneMore
<1>3. \A p \in V : Announced(b, W, p) \in Int
  BY <1>1, AnnouncedInt
<1>4. below[d] \in Nat /\ below[d - 1] \in Nat /\ below[d] = below[d - 1] + owed[d - 1]
  <2>1. d - 1 \in Nat /\ d - 1 \in 0..(d - 1) /\ (d - 1) + 1 = d
    OBVIOUS
  <2>2. below[(d - 1) + 1] = below[d - 1] + owed[d - 1]
    BY <2>1 DEF Walk, Levelled, Sums
  <2> QED
    BY <1>1, <2>1, <2>2
<1>5. Announced(b, W, cur) = below[d] /\ below[d] >= below[d - 1] + 1
  <2>1. Announced(b, W, cur) = below[d]
    BY DEF Walk, Levelled, Sums
  <2> QED
    BY <1>4, <2>1
<1>6. \A l, m \in 0..d : l <= m => below[l] <= below[m]
  BY DEF Walk, Levelled, Sums
<1>7. Cardinality(Around(b, V, cur)) = d - 1
  <2>1. V \subseteq Nat /\ cur \in V
    BY <1>2
  <2>2. Opened(b, W, anc, below, d) /\ Closed(b, W, anc, cur, d)
    BY DEF Walk
  <2>3. GoesOn(b, W, cur, b, V)
    BY <1>2, <1>3, <2>1 DEF GoesOn
  <2>4. Owing(below, d)
    BY <1>1, <1>5, <1>6 DEF Owing
  <2> HIDE DEF V
  <2> QED
    BY <1>5, <2>2, <2>3, <2>4, AroundOpen
<1>8. Walked(b, V, e, n + 1)
  <2>1. \A p \in V : Announced(b, V, p) > 0
    <3>1. \A p \in W : Announced(b, W, p) > 0
      BY DEF Walk, Walked
    <3>2. Announced(b, W, cur) > 0
      BY <1>4, <1>5
    <3> QED
      BY <1>2, <3>1, <3>2
  <2>2. \A p \in V : Charge(b[p + 1]) <= MAX_DEPTH - 2 * Cardinality(Around(b, V, p))
    <3>1. \A p \in W : Charge(b[p + 1]) <= MAX_DEPTH - 2 * Cardinality(Around(b, W, p))
      BY DEF Walk, Walked
    <3> QED
      BY <1>2, <1>7, <3>1
  <2> QED
    BY <1>2, <2>1, <2>2 DEF Walked
<1>9. Opened(b, V, anc, below, d)
  <2>1. ASSUME NEW l \in 1..(d - 1)
        PROVE  /\ anc[l] \in V /\ Announced(b, V, anc[l]) = below[l] + 1
               /\ \A r \in V : anc[l] < r => Announced(b, V, r) >= below[l] + 1
    <3>1. /\ anc[l] \in W /\ Announced(b, W, anc[l]) = below[l] + 1
          /\ \A r \in W : anc[l] < r => Announced(b, W, r) >= below[l] + 1
      BY DEF Walk, Opened
    <3>2. Announced(b, V, cur) >= below[l] + 1
      <4>1. below[l] <= below[d - 1] /\ below[l] \in Nat
        <5>1. l \in 0..d /\ d - 1 \in 0..d /\ l <= d - 1 /\ l \in Nat
          OBVIOUS
        <5> QED
          BY <1>1, <1>6, <5>1
      <4>2. Announced(b, V, cur) = below[d]
        BY <1>2, <1>5
      <4>3. below[d] >= below[l] + 1
        BY <1>4, <1>5, <4>1
      <4> QED
        BY <4>2, <4>3
    <3> QED
      BY <1>2, <3>1, <3>2
  <2>2. anc \in [Nat -> Nat] /\ \A l, m \in 1..(d - 1) : l < m => anc[l] < anc[m]
    BY DEF Walk, Opened
  <2> HIDE DEF V
  <2> QED
    BY <2>1, <2>2 DEF Opened
<1>10. ASSUME NEW q \in W
       PROVE  \/ \E l \in 1..(d - 1) : anc[l] = q
              \/ \E r \in V : q < r /\ Announced(b, V, r) < Announced(b, V, q)
  <2>1. \/ \E l \in 1..(d - 1) : anc[l] = q
        \/ \E r \in V : q < r /\ Announced(b, W, r) < Announced(b, W, q)
    BY DEF Walk, Closed
  <2> QED
    BY <1>2, <2>1
<1> HIDE DEF V, e
<1>11. Announced(b, V, cur) = below[d] /\ Announced(b, V, e) = below[d] - 1 + Arity(b, cur)
  <2>1. cur \in V
    BY DEF V
  <2> QED
    BY <1>2, <1>5, <2>1
<1>12. Taken(b, W, V, anc, below, cur, e, d, owed, n)
  BY <1>1, <1>2, <1>4, <1>8, <1>9, <1>10, <1>11 DEF Taken
<1> QED
  BY <1>12 DEF V, e

\* One value less is owed at the innermost of d levels.
Spent(owed, left, d) ==
  /\ owed[d - 1] \in Nat /\ owed[d - 1] > 0 /\ left[d - 1] = owed[d - 1] - 1
  /\ \A l \in 0..(d - 1) : l # d - 1 => left[l] = owed[l]

LEMMA SpendLevel ==
  ASSUME NEW below \in [Nat -> Nat], NEW rest \in [Nat -> Nat], NEW d \in Nat, d > 0,
         NEW owed, NEW left, Spent(owed, left, d), Sums(below, d, owed),
         rest[d] = below[d] - 1, \A l \in 0..(d - 1) : rest[l] = below[l]
  PROVE  Sums(rest, d, left)
<1>1. d - 1 \in Nat /\ d - 1 \in 0..d /\ d - 1 # d /\ (d - 1) + 1 = d /\ d - 1 \in 0..(d - 1)
  OBVIOUS
<1>2. /\ below[d] \in Nat /\ below[d - 1] \in Nat /\ below[d] = below[d - 1] + owed[d - 1]
      /\ below[d - 1] <= below[d] - 1
  <2>1. below[(d - 1) + 1] = below[d - 1] + owed[d - 1]
    BY <1>1 DEF Sums
  <2>2. below[d] \in Nat /\ below[d - 1] \in Nat
    BY <1>1
  <2>3. owed[d - 1] \in Nat /\ owed[d - 1] > 0
    BY DEF Spent
  <2> QED
    BY <1>1, <2>1, <2>2, <2>3
<1>3. ASSUME NEW l \in 0..(d - 1) PROVE rest[l + 1] = rest[l] + left[l]
  <2>1. rest[l] = below[l] /\ below[l + 1] = below[l] + owed[l]
    BY DEF Sums
  <2>2. CASE l = d - 1
    <3>1. l + 1 = d /\ rest[l + 1] = below[d] - 1 /\ rest[l] = below[d - 1]
      BY <1>1, <2>1, <2>2
    <3>2. left[l] = owed[d - 1] - 1 /\ owed[d - 1] \in Nat
      BY <2>2 DEF Spent
    <3> QED
      BY <1>2, <3>1, <3>2
  <2>3. CASE l # d - 1
    <3>1. l + 1 \in 0..(d - 1)
      BY <2>3
    <3>2. rest[l + 1] = below[l + 1]
      BY <3>1
    <3>3. left[l] = owed[l]
      BY <2>3 DEF Spent
    <3> QED
      BY <2>1, <3>2, <3>3
  <2> QED
    BY <2>2, <2>3
<1>4. ASSUME NEW l \in 0..d, NEW m \in 0..d, l <= m PROVE rest[l] <= rest[m]
  <2>0. l \in Nat /\ m \in Nat
    OBVIOUS
  <2>1. below[l] \in Nat /\ below[m] \in Nat
    BY <2>0
  <2>2. CASE m # d
    <3>1. l \in 0..(d - 1) /\ m \in 0..(d - 1)
      BY <1>4, <2>2
    <3>2. rest[l] = below[l] /\ rest[m] = below[m]
      BY <3>1
    <3> QED
      BY <1>4, <3>2 DEF Sums
  <2>3. CASE m = d /\ l = d
    <3>1. rest[d] \in Nat
      BY <1>1
    <3> QED
      BY <2>3, <3>1
  <2>4. CASE m = d /\ l # d
    <3>1. l <= d - 1 /\ l \in 0..(d - 1)
      BY <2>0, <2>4
    <3>2. below[l] <= below[d - 1]
      BY <1>1, <3>1 DEF Sums
    <3>3. rest[l] = below[l] /\ rest[m] = below[d] - 1
      BY <2>4, <3>1
    <3> QED
      BY <1>2, <2>1, <3>2, <3>3
  <2> QED
    BY <2>2, <2>3, <2>4
<1> QED
  BY <1>3, <1>4 DEF Sums

\* A scalar is over as soon as it is taken.
LEMMA LeafWalk ==
  ASSUME NEW b \in Seq(0..255), NEW cur \in Nat, NEW W, NEW anc, NEW below,
         NEW d \in Nat, d > 0, NEW owed, NEW n \in Nat,
         Walk(b, W, anc, below, cur, d, owed, n), HeaderEnd(b, cur) <= Len(b),
         Charge(b[cur + 1]) <= MAX_DEPTH - 2 * (d - 1), Arity(b, cur) = 0,
         NEW left, Spent(owed, left, d)
  PROVE  \E V, ranc, rest : Walk(b, V, ranc, rest, EndAt(b, cur), d, left, n + 1)
<1> DEFINE V == W \cup {cur}
<1> DEFINE e == EndAt(b, cur)
<1> DEFINE rest == [below EXCEPT ![d] = below[d] - 1]
<1>0. Taken(b, W, V, anc, below, cur, e, d, owed, n)
  BY TakeWalk DEF Spent
<1> HIDE DEF V, e
<1>1. /\ W \in SUBSET (0..(cur - 1)) /\ e \in Nat /\ cur < e
      /\ Walked(b, V, e, n + 1)
      /\ below[d] \in Nat /\ below[d] > 0
      /\ Announced(b, V, cur) = below[d]
      /\ Announced(b, V, e) = below[d] - 1
      /\ Opened(b, V, anc, below, d)
      /\ \A q \in W : \/ \E l \in 1..(d - 1) : anc[l] = q
                      \/ \E r \in V : /\ q < r
                                      /\ Announced(b, V, r) < Announced(b, V, q)
  <2>1. Announced(b, V, e) = below[d] - 1 + Arity(b, cur) /\ below[d] \in Nat
    BY <1>0 DEF Taken
  <2>2. Announced(b, V, e) = below[d] - 1
    BY <2>1
  <2>3. below[d] > 0
    BY <1>0, SMTT(30) DEF Taken, Spent
  <2> QED
    BY <1>0, <2>2, <2>3 DEF Taken
<1>2. below \in [Nat -> Nat] /\ below[0] = 0 /\ Sums(below, d, owed)
  BY DEF Walk, Levelled
<1>3. /\ rest \in [Nat -> Nat] /\ rest[d] = below[d] - 1
      /\ \A l \in Nat : l # d => rest[l] = below[l]
  <2>1. below[d] - 1 \in Nat
    BY <1>1
  <2> QED
    BY <1>2, <2>1
<1> HIDE DEF rest
<1>4. Levelled(b, V, rest, e, d, left)
  <2>1. \A l \in 0..(d - 1) : l \in Nat /\ l # d
    OBVIOUS
  <2>2. \A l \in 0..(d - 1) : rest[l] = below[l]
    BY <1>3, <2>1
  <2>3. Sums(rest, d, left)
    BY <1>2, <1>3, <2>2, SpendLevel
  <2>4. rest[0] = 0
    BY <1>2, <1>3
  <2>5. Announced(b, V, e) = rest[d]
    BY <1>1, <1>3
  <2> QED
    BY <1>3, <2>3, <2>4, <2>5 DEF Levelled
<1>5. Opened(b, V, anc, rest, d)
  <2>1. \A l \in 1..(d - 1) : l \in Nat /\ l # d
    OBVIOUS
  <2>2. \A l \in 1..(d - 1) : rest[l] = below[l]
    BY <1>3, <2>1
  <2> QED
    BY <1>1, <2>2 DEF Opened
<1>6. Closed(b, V, anc, e, d)
  <2>1. Announced(b, V, e) < Announced(b, V, cur)
    BY <1>1
  <2> QED
    BY <1>1, <2>1 DEF Closed, V
<1> QED
  BY <1>1, <1>4, <1>5, <1>6 DEF Walk, e

\* A container opens a level of its own for what it holds.
LEMMA OpenWalk ==
  ASSUME NEW b \in Seq(0..255), NEW cur \in Nat, NEW W, NEW anc, NEW below,
         NEW d \in Nat, d > 0, NEW owed, NEW n \in Nat,
         Walk(b, W, anc, below, cur, d, owed, n), HeaderEnd(b, cur) <= Len(b),
         Charge(b[cur + 1]) <= MAX_DEPTH - 2 * (d - 1),
         NEW left, Spent(owed, left, d), left[d] = Arity(b, cur)
  PROVE  \E V, ranc, rest : Walk(b, V, ranc, rest, EndAt(b, cur), d + 1, left, n + 1)
<1> DEFINE V == W \cup {cur}
<1> DEFINE e == EndAt(b, cur)
<1> DEFINE k == Arity(b, cur)
<1> DEFINE rest == [below EXCEPT ![d] = below[d] - 1, ![d + 1] = below[d] - 1 + k]
<1> DEFINE ranc == [anc EXCEPT ![d] = cur]
<1>0. Taken(b, W, V, anc, below, cur, e, d, owed, n) /\ k \in Nat
  BY TakeWalk, ValueFacts DEF Spent
<1>0a. cur \in V /\ \A r \in V : r \in W \/ r = cur
  OBVIOUS
<1> HIDE DEF V, e, k
<1>1. /\ W \in SUBSET (0..(cur - 1)) /\ e \in Nat /\ cur < e
      /\ Walked(b, V, e, n + 1)
      /\ below[d] \in Nat /\ below[d] > 0
      /\ Announced(b, V, cur) = below[d]
      /\ Announced(b, V, e) = below[d] - 1 + k
      /\ Opened(b, V, anc, below, d)
      /\ \A q \in W : \/ \E l \in 1..(d - 1) : anc[l] = q
                      \/ \E r \in V : /\ q < r
                                      /\ Announced(b, V, r) < Announced(b, V, q)
  <2>1. below[d] > 0
    BY <1>0, SMTT(30) DEF Taken, Spent
  <2> QED
    BY <1>0, <2>1 DEF Taken, k
<1>2. below \in [Nat -> Nat] /\ below[0] = 0 /\ Sums(below, d, owed)
  BY DEF Walk, Levelled
<1>2a. d + 1 \in Nat /\ d + 1 # d /\ below[d] - 1 \in Nat /\ below[d] - 1 + k \in Nat
  BY <1>0, <1>1, SMTT(30)
<1>3. /\ rest \in [Nat -> Nat] /\ rest[d] = below[d] - 1 /\ rest[d + 1] = below[d] - 1 + k
      /\ \A l \in Nat : l # d /\ l # d + 1 => rest[l] = below[l]
  BY <1>2, <1>2a
<1>3a. /\ ranc \in [Nat -> Nat] /\ ranc[d] = cur
       /\ \A l \in Nat : l # d => ranc[l] = anc[l]
  BY DEF Walk, Opened
<1>3b. \A l \in 0..(d - 1) : l \in Nat /\ l # d /\ l # d + 1
  OBVIOUS
<1>3c. \A l \in 1..((d + 1) - 1) : l = d \/ l \in 1..(d - 1)
  OBVIOUS
<1>3d. \A l \in 1..(d - 1) : l \in Nat /\ l # d /\ l # d + 1 /\ l \in 1..((d + 1) - 1)
  OBVIOUS
<1> HIDE DEF rest, ranc
<1>4. Levelled(b, V, rest, e, d + 1, left)
  <2>1. \A l \in 0..(d - 1) : rest[l] = below[l]
    BY <1>3, <1>3b
  <2>2. Sums(rest, d, left)
    BY <1>2, <1>3, <2>1, SpendLevel
  <2>3. rest[d + 1] = rest[d] + left[d]
    BY <1>3 DEF k
  <2>4. \A l \in 0..((d + 1) - 1) : l = d \/ l \in 0..(d - 1)
    OBVIOUS
  <2>5. ASSUME NEW l \in 0..(d + 1), NEW m \in 0..(d + 1), l <= m PROVE rest[l] <= rest[m]
    <3>1. l \in Nat /\ m \in Nat
      OBVIOUS
    <3>2. /\ rest[l] \in Nat /\ rest[m] \in Nat /\ rest[d] \in Nat
          /\ rest[d + 1] \in Nat /\ rest[d] <= rest[d + 1]
      <4>1. rest[l] \in Nat /\ rest[m] \in Nat
        BY <1>3, <3>1
      <4>2. rest[d] \in Nat /\ rest[d + 1] \in Nat
        BY <1>2a, <1>3
      <4>3. rest[d] <= rest[d + 1]
        <5>1. below[d] \in Nat /\ k \in Nat
          BY <1>0, <1>1
        <5>2. below[d] - 1 <= below[d] - 1 + k
          BY <5>1
        <5> QED
          BY <1>3, <5>2, Zenon
      <4> QED
        BY <4>1, <4>2, <4>3
    <3>3. CASE m # d + 1
      <4>1. l \in 0..d /\ m \in 0..d
        BY <2>5, <3>3
      <4> QED
        BY <2>2, <2>5, <4>1 DEF Sums
    <3>4. CASE m = d + 1 /\ l = d + 1
      BY <3>2, <3>4
    <3>5. CASE m = d + 1 /\ l # d + 1
      <4>1. l \in 0..d /\ d \in 0..d /\ l <= d
        BY <3>5
      <4>2. rest[l] <= rest[d]
        BY <2>2, <4>1 DEF Sums
      <4> QED
        BY <3>2, <3>5, <4>2
    <3> QED
      BY <3>3, <3>4, <3>5
  <2>6. Sums(rest, d + 1, left)
    BY <2>2, <2>3, <2>4, <2>5 DEF Sums
  <2>7. rest[0] = 0
    BY <1>2, <1>3
  <2> QED
    BY <1>1, <1>3, <2>6, <2>7 DEF Levelled
<1>5. Opened(b, V, ranc, rest, d + 1)
  <2>1. ASSUME NEW l \in 1..((d + 1) - 1)
        PROVE  /\ ranc[l] \in V /\ Announced(b, V, ranc[l]) = rest[l] + 1
               /\ \A r \in V : ranc[l] < r => Announced(b, V, r) >= rest[l] + 1
    <3>1. CASE l = d
      <4>1. \A r \in V : ~(cur < r)
        BY <1>0a, <1>1
      <4>2. below[d] = (below[d] - 1) + 1
        BY <1>1
      <4> QED
        BY <1>0a, <1>1, <1>3, <1>3a, <3>1, <4>1, <4>2
    <3>2. CASE l \in 1..(d - 1)
      <4>1. ranc[l] = anc[l] /\ rest[l] = below[l]
        BY <1>3, <1>3a, <1>3d, <3>2
      <4> QED
        BY <1>1, <3>2, <4>1 DEF Opened
    <3> QED
      BY <1>3c, <3>1, <3>2
  <2>2. ASSUME NEW l \in 1..((d + 1) - 1), NEW m \in 1..((d + 1) - 1), l < m
        PROVE  ranc[l] < ranc[m]
    <3>1. l \in 1..(d - 1)
      BY <2>2
    <3>2. anc[l] \in W
      BY <3>1 DEF Walk, Opened
    <3>3. ranc[l] = anc[l]
      BY <1>3a, <1>3d, <3>1
    <3>4. CASE m = d
      <4>0. \A r \in 0..(cur - 1) : r < cur
        OBVIOUS
      <4>1. anc[l] < cur
        BY <1>1, <3>2, <4>0, Zenon
      <4>2. ranc[m] = cur
        BY <1>3a, <3>4
      <4> QED
        BY <3>3, <4>1, <4>2
    <3>5. CASE m \in 1..(d - 1)
      <4>1. ranc[m] = anc[m]
        BY <1>3a, <1>3d, <3>5
      <4>2. anc[l] < anc[m]
        BY <2>2, <3>1, <3>5 DEF Walk, Opened
      <4> QED
        BY <3>3, <4>1, <4>2
    <3> QED
      BY <1>3c, <3>4, <3>5
  <2> QED
    BY <1>3a, <2>1, <2>2 DEF Opened
<1>6. Closed(b, V, ranc, e, d + 1)
  <2> SUFFICES ASSUME NEW q \in V
               PROVE  \/ \E l \in 1..((d + 1) - 1) : ranc[l] = q
                      \/ \E r \in V \cup {e} :
                           q < r /\ Announced(b, V, r) < Announced(b, V, q)
    BY DEF Closed
  <2>1. CASE q = cur
    <3>1. d \in 1..((d + 1) - 1)
      OBVIOUS
    <3> QED
      BY <1>3a, <2>1, <3>1
  <2>2. CASE \E l \in 1..(d - 1) : anc[l] = q
    BY <1>3a, <1>3d, <2>2
  <2>3. CASE \E r \in V : q < r /\ Announced(b, V, r) < Announced(b, V, q)
    BY <2>3
  <2> QED
    BY <1>0a, <1>1, <2>1, <2>2, <2>3
<1> QED
  BY <1>1, <1>4, <1>5, <1>6 DEF Walk, e

-----------------------------------------------------------------------------
(* What was walked is the beginning of every value that goes on from it. *)

\* Two byte strings agree as far as both go.
Agree(b, f) == \A i \in 1..Len(b) : i <= Len(f) => b[i] = f[i]

\* S and f have at p what W and b have there.
Alike(b, W, f, S, p) ==
  /\ p \in S \cup {Len(f)} /\ Before(S, p) = Before(W, p)
  /\ Announced(f, S, p) = Announced(b, W, p)

\* The values of f that start where those walked end are the values walked.
LEMMA AlikeNext ==
  ASSUME NEW b \in Seq(0..255), NEW f \in Seq(0..255), Agree(b, f),
         NEW cur \in Nat, NEW W \in SUBSET (0..(cur - 1)), EndToEnd(b, W, cur),
         NEW S \in Starts(f), IsValue(f, S),
         NEW q \in W, Announced(b, W, q) > 0, Alike(b, W, f, S, q)
  PROVE  Alike(b, W, f, S, EndAt(b, q))
<1>1. S \in SUBSET (0..(Len(f) - 1)) /\ Len(f) \in Nat /\ EndToEnd(f, S, Len(f))
  BY DEF Starts, IsValue
<1>2. q \in S
  <2>1. Announced(f, S, q) > 0
    BY DEF Alike
  <2>2. Announced(f, S, Len(f)) = 0
    BY DEF IsValue
  <2>3. q # Len(f)
    BY <2>1, <2>2
  <2> QED
    BY <2>3 DEF Alike
<1>3. /\ HeaderEnd(b, q) <= Len(b) /\ Arity(b, q) \in Nat
      /\ EndAt(b, q) \in W \cup {cur}
      /\ Before(W, EndAt(b, q)) = Before(W, q) \cup {q}
  BY NextStart
<1>4. /\ HeaderEnd(f, q) <= Len(f) /\ EndAt(f, q) \in S \cup {Len(f)}
      /\ Before(S, EndAt(f, q)) = Before(S, q) \cup {q}
  BY <1>1, <1>2, NextStart
<1>5. EndAt(f, q) = EndAt(b, q) /\ Arity(f, q) = Arity(b, q)
  <2>1. q \in Nat /\ \A r \in 0..(Len(f) - 1) : r < Len(f)
    BY <1>1
  <2>2. q < Len(f)
    BY <1>1, <1>2, <2>1, Zenon
  <2> QED
    BY <1>3, <1>4, <2>1, <2>2, SameValue DEF Agree
<1>6. Announced(f, S, EndAt(f, q)) = Announced(f, S, q) - 1 + Arity(f, q)
  BY <1>1, <1>2, AnnouncedAlong
<1>7. Announced(b, W, EndAt(b, q)) = Announced(b, W, q) - 1 + Arity(b, q)
  BY AnnouncedAlong
<1>8. Announced(f, S, q) = Announced(b, W, q) /\ Before(S, q) = Before(W, q)
  BY DEF Alike
<1>9. Announced(f, S, EndAt(b, q)) = Announced(b, W, EndAt(b, q))
  BY <1>5, <1>6, <1>7, <1>8
<1>10. EndAt(b, q) \in S \cup {Len(f)}
  BY <1>4, <1>5
<1>11. Before(S, EndAt(b, q)) = Before(W, EndAt(b, q))
  BY <1>3, <1>4, <1>5, <1>8
<1> QED
  BY <1>9, <1>10, <1>11 DEF Alike

LEMMA AlikeAlong ==
  ASSUME NEW b \in Seq(0..255), NEW f \in Seq(0..255), Agree(b, f),
         NEW cur \in Nat, NEW W \in SUBSET (0..(cur - 1)), EndToEnd(b, W, cur),
         \A p \in W : Announced(b, W, p) > 0,
         NEW S \in Starts(f), IsValue(f, S)
  PROVE  \A p \in W \cup {cur} : Alike(b, W, f, S, p)
<1> DEFINE bad == {p \in W \cup {cur} : ~Alike(b, W, f, S, p)}
<1>1. ASSUME bad # {} PROVE FALSE
  <2>0. bad \subseteq Nat
    <3>1. \A r \in W : r \in Nat
      OBVIOUS
    <3> QED
      BY <3>1
  <2>1. PICK r \in bad : \A c \in bad : r <= c
    BY <1>1, <2>0, LeastNat
  <2>2. r \in W \cup {cur} /\ r \in Nat /\ ~Alike(b, W, f, S, r)
    BY <2>0
  <2>3. CASE r = 0
    <3>1. Before(W, 0) = {}
      <4>1. \A q \in W : ~(q < 0)
        OBVIOUS
      <4> QED
        BY <4>1 DEF Before
    <3>2. Before(S, 0) = {}
      <4>1. \A q \in S : ~(q < 0)
        BY DEF Starts
      <4> QED
        BY <4>1 DEF Before
    <3>3. Announced(f, S, 0) = Announced(b, W, 0)
      <4>1. Slots(f, S, 0) = {} /\ Slots(b, W, 0) = {}
        BY <3>1, <3>2 DEF Slots
      <4> QED
        BY <3>1, <3>2, <4>1 DEF Announced
    <3>4. 0 \in S \cup {Len(f)}
      BY DEF IsValue, EndToEnd
    <3> QED
      BY <2>2, <2>3, <3>1, <3>2, <3>3, <3>4 DEF Alike
  <2>4. CASE r # 0
    <3>1. PICK q \in W : EndAt(b, q) = r
      BY <2>2, <2>4 DEF EndToEnd
    <3>2. q < r /\ q \in Nat
      BY <3>1, NextStart
    <3>3. Alike(b, W, f, S, q)
      BY <2>1, <2>2, <3>2
    <3>4. Alike(b, W, f, S, EndAt(b, q))
      BY <3>3, AlikeNext
    <3> QED
      BY <2>2, <3>1, <3>4
  <2> QED
    BY <2>3, <2>4
<1> QED
  BY <1>1

\* While something is announced, a value of f starts where the walk stands.
LEMMA LegalGoesOn ==
  ASSUME NEW b \in Seq(0..255), NEW f \in Seq(0..255), Agree(b, f),
         NEW cur \in Nat, NEW W, NEW n, Walked(b, W, cur, n),
         Announced(b, W, cur) > 0, NEW S \in Starts(f), IsValue(f, S)
  PROVE  GoesOn(b, W, cur, f, S)
<1>1. /\ W \in SUBSET (0..(cur - 1)) /\ EndToEnd(b, W, cur)
      /\ \A p \in W : Announced(b, W, p) > 0
  BY DEF Walked
<1>2. \A p \in W \cup {cur} : Alike(b, W, f, S, p)
  BY <1>1, AlikeAlong
<1>3. cur \in S
  <2>1. Announced(f, S, cur) > 0 /\ cur \in S \cup {Len(f)}
    BY <1>2 DEF Alike
  <2>2. Announced(f, S, Len(f)) = 0
    BY DEF IsValue
  <2>3. cur # Len(f)
    BY <2>1, <2>2
  <2> QED
    BY <2>1, <2>3
<1>4. Before(S, cur) = W
  <2>1. Before(S, cur) = Before(W, cur)
    BY <1>2 DEF Alike
  <2>2. \A r \in 0..(cur - 1) : r < cur
    OBVIOUS
  <2>3. Before(W, cur) = W
    BY <1>1, <2>2, Zenon DEF Before
  <2> QED
    BY <2>1, <2>3
<1>5. S \subseteq Nat
  BY DEF Starts
<1>6. \A p \in W \cup {cur} : Announced(b, W, p) \in Int
  BY <1>1, AnnouncedInt
<1> QED
  BY <1>2, <1>3, <1>4, <1>5, <1>6 DEF GoesOn, Alike

\* What the limits leave for the value at cur of a frame f, with n values before it
\* and d - 1 containers around it.
Fits(f, cur, d, n) ==
  /\ HeaderEnd(f, cur) <= Len(f) /\ EndAt(f, cur) <= Len(f) /\ Len(f) <= MAX_FRAME
  /\ n + 1 + Arity(f, cur) <= MAX_VALUES
  /\ Charge(f[cur + 1]) <= MAX_DEPTH - 2 * (d - 1)

\* A frame holds at least the values walked, the next one and what that one holds.
LEMMA ValuesAtLeast ==
  ASSUME NEW b, NEW f \in Seq(0..255), NEW cur \in Nat, NEW W,
         NEW S \in Starts(f), IsValue(f, S), GoesOn(b, W, cur, f, S),
         Announced(b, W, cur) > 0
  PROVE  Cardinality(W) + 1 + Arity(f, cur) <= Cardinality(S)
<1>1. /\ S \in SUBSET (0..(Len(f) - 1)) /\ Len(f) \in Nat /\ EndToEnd(f, S, Len(f))
      /\ cur \in S /\ Before(S, cur) = W
      /\ Announced(f, S, cur) = Announced(b, W, cur)
  BY DEF Starts, IsValue, GoesOn
<1> DEFINE e == EndAt(f, cur)
<1>2. e \in S \cup {Len(f)} /\ Arity(f, cur) \in Nat
  BY <1>1, NextStart
<1>3. Cardinality(Slots(f, S, e)) = Cardinality(Slots(f, S, cur)) + Arity(f, cur)
  BY <1>1, AnnouncedAlong
<1>4. /\ IsFiniteSet(Slots(f, S, cur)) /\ Cardinality(Slots(f, S, cur)) \in Nat
      /\ IsFiniteSet(Slots(f, S, Len(f))) /\ Cardinality(Slots(f, S, Len(f))) \in Nat
      /\ Cardinality(Slots(f, S, e)) \in Nat
  BY <1>1, <1>2, FiniteSlots
<1>5. Cardinality(S) \in Nat /\ Cardinality(W) \in Nat
  BY <1>1, FiniteBefore
<1>6. Slots(f, S, e) \subseteq Slots(f, S, Len(f))
  <2>1. Before(S, e) \subseteq Before(S, Len(f))
    <3>1. \A r \in 0..(Len(f) - 1) : r < Len(f)
      BY <1>1
    <3> QED
      BY <1>1, <3>1, Zenon DEF Before
  <2> HIDE DEF e
  <2> QED
    BY <2>1 DEF Slots
<1>7. Before(S, Len(f)) = S
  <2>1. \A r \in 0..(Len(f) - 1) : r < Len(f)
    BY <1>1
  <2> QED
    BY <1>1, <2>1, Zenon DEF Before
<1> HIDE DEF e
<1>8. Cardinality(Slots(f, S, e)) <= Cardinality(Slots(f, S, Len(f)))
  BY <1>4, <1>6, FS_Subset
<1>9. 1 + Cardinality(Slots(f, S, Len(f))) - Cardinality(S) = 0
  BY <1>7 DEF IsValue, Announced
<1>10. 1 + Cardinality(Slots(f, S, cur)) - Cardinality(W) > 0
  BY <1>1 DEF Announced
<1> QED
  BY <1>2, <1>3, <1>4, <1>5, <1>8, <1>9, <1>10

\* A sendable frame that goes on as was received fits at the next value.
LEMMA LegalFits ==
  ASSUME NEW b \in Seq(0..255), NEW f \in Legal, Agree(b, f),
         NEW cur \in Nat, NEW W, NEW anc, NEW below, NEW d \in Nat, d > 0,
         NEW owed, NEW n, Walk(b, W, anc, below, cur, d, owed, n),
         owed[d - 1] \in Nat, owed[d - 1] > 0
  PROVE  f \in Seq(0..255) /\ Fits(f, cur, d, n)
<1>1. f \in Seq(0..255) /\ Len(f) <= MAX_FRAME
  BY LimitsAssumption DEF Legal, Sendable
<1>2. PICK S \in Starts(f) : IsValue(f, S) /\ WithinLimits(f, S)
  BY DEF Legal, Sendable
<1>3. Owing(below, d) /\ Announced(b, W, cur) = below[d] /\ below[d] \in Nat /\ below[d] > 0
  <2>1. /\ below \in [Nat -> Nat] /\ Announced(b, W, cur) = below[d]
        /\ \A l, m \in 0..d : l <= m => below[l] <= below[m]
    BY DEF Walk, Levelled, Sums
  <2>2. d - 1 \in Nat /\ d - 1 \in 0..(d - 1) /\ (d - 1) + 1 = d
    OBVIOUS
  <2>3. below[(d - 1) + 1] = below[d - 1] + owed[d - 1]
    BY <2>2 DEF Walk, Levelled, Sums
  <2>4. below[d] \in Nat /\ below[d - 1] \in Nat
    BY <2>1, <2>2
  <2>5. below[d] = below[d - 1] + owed[d - 1]
    BY <2>2, <2>3
  <2>6. below[d] >= below[d - 1] + 1 /\ below[d] > 0
    BY <2>4, <2>5
  <2> QED
    BY <2>1, <2>4, <2>6 DEF Owing
<1>4. GoesOn(b, W, cur, f, S)
  BY <1>1, <1>2, <1>3, LegalGoesOn DEF Walk
<1>5. Cardinality(Around(f, S, cur)) = d - 1
  BY <1>3, <1>4, AroundOpen DEF Walk
<1>6. cur \in S
  BY <1>4 DEF GoesOn
<1>7. Charge(f[cur + 1]) <= MAX_DEPTH - 2 * (d - 1)
  BY <1>2, <1>5, <1>6 DEF WithinLimits
<1>8. n + 1 + Arity(f, cur) <= MAX_VALUES
  <2>1. Cardinality(W) + 1 + Arity(f, cur) <= Cardinality(S)
    BY <1>1, <1>2, <1>3, <1>4, ValuesAtLeast
  <2>2. Cardinality(S) <= MAX_VALUES /\ Cardinality(W) = n
    BY <1>2 DEF WithinLimits, Walk, Walked
  <2>3. Cardinality(W) \in Nat /\ Cardinality(S) \in Nat /\ Arity(f, cur) \in Nat
    <3>1. S \in SUBSET (0..(Len(f) - 1)) /\ Len(f) \in Nat /\ EndToEnd(f, S, Len(f))
      BY <1>1, <1>2 DEF Starts, IsValue
    <3>2. Before(S, cur) = W
      BY <1>4 DEF GoesOn
    <3> QED
      BY <1>1, <1>6, <3>1, <3>2, FiniteBefore, NextStart
  <2> QED
    BY <2>1, <2>2, <2>3, LimitsAssumption
<1>9. HeaderEnd(f, cur) <= Len(f) /\ EndAt(f, cur) <= Len(f)
  <2>1. HeaderEnd(f, cur) <= Len(f) /\ EndAt(f, cur) \in S \cup {Len(f)}
    BY <1>2, <1>6 DEF IsValue, EndToEnd
  <2>2. \A r \in 0..(Len(f) - 1) : r <= Len(f)
    OBVIOUS
  <2>3. \A r \in S : r <= Len(f)
    BY <2>2, Zenon DEF Starts
  <2>4. Len(f) <= Len(f)
    BY <1>1
  <2> QED
    BY <2>1, <2>3, <2>4
<1> QED
  BY <1>1, <1>7, <1>8, <1>9 DEF Fits

\* What was received and agrees with no sendable frame is rightly refused.
LEMMA NoneAgrees ==
  ASSUME NEW b \in Seq(0..255), \A f \in Legal : ~Agree(b, f)
  PROVE  b \notin Beginnings /\ \A k \in 0..Len(b) : SubSeq(b, 1, k) \notin Legal
<1>1. \A f \in Legal : f \in Seq(0..255)
  BY LimitsAssumption DEF Legal
<1>2. ASSUME b \in Beginnings PROVE FALSE
  <2>0. PICK f \in Legal : b \in {SubSeq(f, 1, k) : k \in 0..Len(f)}
    BY <1>2 DEF Beginnings
  <2>1. PICK k \in 0..Len(f) : b = SubSeq(f, 1, k)
    BY <2>0
  <2>2. f \in Seq(0..255)
    BY <1>1
  <2>3. Agree(b, f)
    BY <2>1, <2>2 DEF Agree
  <2> QED
    BY <2>3
<1>3. ASSUME NEW k \in 0..Len(b), SubSeq(b, 1, k) \in Legal PROVE FALSE
  <2>1. Agree(b, SubSeq(b, 1, k))
    BY DEF Agree
  <2> QED
    BY <1>3, <2>1
<1> QED
  BY <1>2, <1>3

-----------------------------------------------------------------------------
(* The scan is a walk. *)

InHand  == pc \in {"marker", "body"}

\* Where the values walked end, what the levels owe and how many values were walked:
\* the value in hand is not one of them yet.
Cur     == IF InHand THEN start ELSE pos
Owed    == IF InHand THEN [stack EXCEPT ![depth - 1] = @ + 1] ELSE stack
Counted == IF InHand THEN seen - 1 ELSE seen

WalkInv ==
  pc \notin {"refused", "closed"} =>
    /\ seen <= MAX_VALUES
    /\ \E W, anc, below : Walk(buf, W, anc, below, Cur, depth, Owed, Counted)

\* A read is awaited only for a frame that is not there yet.
WaitsForMore == pc = "read" => \A k \in 0..Len(buf) : SubSeq(buf, 1, k) \notin Legal

ScanInv == FrameInv /\ WalkInv /\ RefusalJustified /\ WaitsForMore

\* The marker, the length and the end of the value in hand are the reference's.
LEMMA HandIsValue ==
  ASSUME FrameInv, pc = "body"
  PROVE  /\ pos = start + 1 /\ start < Len(buf) /\ Marker = buf[start + 1]
         /\ HeaderEnd(buf, start) = pos + Width
         /\ HasField <=> HeaderEnd(buf, start) <= Len(buf)
         /\ LengthAt(buf, start) = Length
         /\ ValueEnd = EndAt(buf, start)
         /\ Container(Marker) => /\ EndAt(buf, start) = pos + Width
                                 /\ Arity(buf, start) = Declared(Marker, Length)
         /\ ~Container(Marker) => Arity(buf, start) = 0
<1>1. pos = start + 1 /\ start < Len(buf) /\ Marker = buf[start + 1]
  BY DEF FrameInv, HandInv, Marker
<1>2. HeaderEnd(buf, start) = pos + Width /\ LengthAt(buf, start) = Length
  BY <1>1 DEF HeaderEnd, LengthAt, Width, Length
<1>3. ValueEnd = EndAt(buf, start)
  BY <1>1, <1>2 DEF ValueEnd, EndAt
<1>4. Container(Marker) => Payload(Marker, Length) = 0
  BY DEF Container, Payload
<1>5. Container(Marker) => EndAt(buf, start) = pos + Width
  <2>1. Width \in Nat /\ pos \in Nat
    BY BodyFacts DEF FrameInv, ScanTypeOK
  <2> QED
    BY <1>3, <1>4, <2>1 DEF ValueEnd
<1> QED
  BY <1>1, <1>2, <1>3, <1>5 DEF HasField, Arity

\* The value in hand, or the next one to be claimed, is owed.
LEMMA OwedFacts ==
  ASSUME FrameInv, WalkInv, pc \notin {"refused", "closed"}, depth > 0,
         InHand \/ stack[depth - 1] > 0
  PROVE  /\ Cur \in Nat /\ Counted \in Nat /\ Owed \in [Levels -> Nat]
         /\ Owed[depth - 1] \in Nat /\ Owed[depth - 1] > 0
<1>1. depth - 1 \in Levels
  BY LevelInUse
<1>2. stack \in [Levels -> Nat] /\ stack[depth - 1] \in Nat
  BY <1>1 DEF FrameInv, ScanTypeOK
<1>3. start \in Nat /\ pos \in Nat /\ seen \in Nat /\ (InHand => seen > 0)
  BY DEF FrameInv, ScanTypeOK, HandInv, InHand
<1>4. Cur \in Nat /\ Counted \in Nat
  BY <1>3 DEF Cur, Counted
<1>5. CASE InHand
  <2>1. Owed = [stack EXCEPT ![depth - 1] = stack[depth - 1] + 1]
    BY <1>5 DEF Owed
  <2>2. Owed \in [Levels -> Nat] /\ Owed[depth - 1] = stack[depth - 1] + 1
    BY <1>1, <1>2, <2>1
  <2> QED
    BY <1>2, <1>4, <2>2
<1>6. CASE ~InHand
  BY <1>2, <1>4, <1>6 DEF Owed
<1> QED
  BY <1>5, <1>6

\* No sendable frame goes on as was received where one does not fit.
LEMMA OnlyWhatFits ==
  ASSUME ScanInv, pc \notin {"refused", "closed"}, depth > 0,
         InHand \/ stack[depth - 1] > 0,
         NEW f \in Legal, Agree(buf, f)
  PROVE  f \in Seq(0..255) /\ Fits(f, Cur, depth, Counted)
<1>1. /\ Cur \in Nat /\ Owed[depth - 1] \in Nat /\ Owed[depth - 1] > 0
      /\ buf \in Seq(0..255) /\ depth \in Nat
  BY OwedFacts, BufBytes DEF ScanInv, FrameInv, ScanTypeOK
<1>2. PICK W, anc, below : Walk(buf, W, anc, below, Cur, depth, Owed, Counted)
  BY DEF ScanInv, WalkInv
<1> HIDE DEF Legal
<1> QED
  BY <1>1, <1>2, LegalFits

\* What is known of a sendable frame at a value that was received as far as its
\* header goes.
LEMMA FitsReceived ==
  ASSUME NEW b \in Seq(0..255), NEW f \in Seq(0..255), Agree(b, f),
         NEW cur \in Nat, NEW d, NEW n, Fits(f, cur, d, n)
  PROVE  /\ cur < Len(f)
         /\ cur < Len(b) => /\ f[cur + 1] = b[cur + 1]
                            /\ HeaderEnd(b, cur) = HeaderEnd(f, cur)
         /\ cur < Len(b) /\ HeaderEnd(b, cur) <= Len(b) =>
              EndAt(b, cur) = EndAt(f, cur) /\ Arity(b, cur) = Arity(f, cur)
<1>1. HeaderEnd(f, cur) <= Len(f)
  BY DEF Fits
<1>2. cur < Len(f)
  BY <1>1, ValueFacts
<1>3. \A i \in 1..Len(f) : i <= Len(b) => f[i] = b[i]
  <2>1. Len(f) \in Nat /\ Len(b) \in Nat
    OBVIOUS
  <2> QED
    BY <2>1 DEF Agree
<1> QED
  BY <1>1, <1>2, <1>3, SameValue

\* Where the bytes run out, a sendable frame has more of them.
LEMMA MoreToCome ==
  ASSUME ScanInv, NoMarker \/ NoLength \/ NoPayload,
         NEW f \in Legal, Agree(buf, f)
  PROVE  f \in Seq(0..255) /\ Len(buf) < Len(f) /\ Len(f) <= MAX_FRAME
<1>1. InHand /\ depth > 0 /\ Cur = start /\ start \in Nat /\ FrameInv
  BY DEF ScanInv, FrameInv, ScanTypeOK, HandInv, InHand, Cur, NoMarker, NoLength, NoPayload,
         PayloadFits
<1>2. f \in Seq(0..255) /\ Fits(f, start, depth, Counted)
  BY <1>1, OnlyWhatFits DEF InHand
<1>3. buf \in Seq(0..255) /\ Len(buf) \in Nat /\ Len(f) \in Nat
  BY <1>1, <1>2, BufBytes DEF FrameInv
<1> HIDE DEF Legal
<1>4. /\ start < Len(f)
      /\ start < Len(buf) => HeaderEnd(buf, start) = HeaderEnd(f, start)
      /\ start < Len(buf) /\ HeaderEnd(buf, start) <= Len(buf) =>
           EndAt(buf, start) = EndAt(f, start)
  BY <1>1, <1>2, <1>3, FitsReceived
<1>5. HeaderEnd(f, start) <= Len(f) /\ EndAt(f, start) <= Len(f) /\ Len(f) <= MAX_FRAME
  BY <1>2 DEF Fits
<1>6. CASE NoMarker
  <2>1. start = Len(buf)
    BY <1>1, <1>6 DEF NoMarker, FrameInv, HandInv
  <2> QED
    BY <1>2, <1>4, <1>5, <2>1
<1>7. CASE NoLength
  <2>1. pc = "body" /\ ~HasField
    BY <1>7 DEF NoLength
  <2>2. start < Len(buf) /\ ~(HeaderEnd(buf, start) <= Len(buf))
    BY <1>1, <2>1, HandIsValue
  <2>3. HeaderEnd(f, start) \in Nat
    BY <1>1, <1>2, <1>5, ValueFacts
  <2> QED
    BY <1>2, <1>3, <1>4, <1>5, <2>2, <2>3
<1>8. CASE NoPayload
  <2>1. pc = "body" /\ HasField /\ ValueEnd > Len(buf)
    BY <1>8 DEF NoPayload, PayloadFits
  <2>2. start < Len(buf) /\ HeaderEnd(buf, start) <= Len(buf) /\ EndAt(buf, start) > Len(buf)
    BY <1>1, <2>1, HandIsValue
  <2>3. EndAt(f, start) \in Nat
    BY <1>1, <1>2, <1>5, ValueFacts
  <2> QED
    BY <1>2, <1>3, <1>4, <1>5, <2>2, <2>3
<1> QED
  BY <1>6, <1>7, <1>8

\* A value that the scan refuses fits no sendable frame.
LEMMA NoRoom ==
  ASSUME ScanInv, NEW f \in Legal, Agree(buf, f),
         \/ Claim /\ pc' = "refused"
         \/ TakeMarker /\ pc' = "refused"
         \/ OpenContainer /\ pc' = "refused"
         \/ PayloadTooLarge
  PROVE  FALSE
<1>1. FrameInv /\ buf \in Seq(0..255) /\ depth \in Nat
  BY BufBytes DEF ScanInv, FrameInv, ScanTypeOK
<1>2. depth > 0 /\ pc \notin {"refused", "closed"} /\ (InHand \/ stack[depth - 1] > 0)
  BY <1>1 DEF FrameInv, HandInv, InHand, Claim, TakeMarker, OpenContainer, PayloadTooLarge
<1>3. f \in Seq(0..255) /\ Fits(f, Cur, depth, Counted)
  BY <1>2, OnlyWhatFits
<1>4. Cur \in Nat /\ Counted \in Nat
  BY <1>1, <1>2, OwedFacts DEF ScanInv
<1> HIDE DEF Legal
<1>5. /\ Cur < Len(f)
      /\ Cur < Len(buf) => /\ f[Cur + 1] = buf[Cur + 1]
                           /\ HeaderEnd(buf, Cur) = HeaderEnd(f, Cur)
      /\ Cur < Len(buf) /\ HeaderEnd(buf, Cur) <= Len(buf) =>
           EndAt(buf, Cur) = EndAt(f, Cur) /\ Arity(buf, Cur) = Arity(f, Cur)
  BY <1>1, <1>3, <1>4, FitsReceived
<1>6. /\ HeaderEnd(f, Cur) <= Len(f) /\ EndAt(f, Cur) <= Len(f) /\ Len(f) <= MAX_FRAME
      /\ Counted + 1 + Arity(f, Cur) <= MAX_VALUES
      /\ Charge(f[Cur + 1]) <= MAX_DEPTH - 2 * (depth - 1)
  BY <1>3 DEF Fits
<1>7. Arity(f, Cur) \in Nat /\ EndAt(f, Cur) \in Nat /\ Len(f) \in Nat
  BY <1>3, <1>4, <1>6, ValueFacts
<1>8. CASE Claim /\ pc' = "refused"
  <2>1. seen + 1 > MAX_VALUES
    BY <1>8 DEF Claim
  <2>2. Counted = seen /\ seen \in Nat
    BY <1>1, <1>8 DEF Claim, Counted, InHand, FrameInv, ScanTypeOK
  <2> QED
    BY <1>6, <1>7, <2>1, <2>2, LimitsAssumption
<1>9. CASE TakeMarker /\ pc' = "refused"
  <2>1. /\ pc = "marker" /\ pos = start /\ Cur = start /\ pos < Len(buf)
        /\ budget[depth - 1] < Charge(buf[pos + 1])
    BY <1>1, <1>9 DEF TakeMarker, FrameInv, HandInv, Cur, InHand
  <2>2. budget[depth - 1] = MAX_DEPTH - 2 * (depth - 1)
    BY <1>1, <1>2, LevelInUse DEF FrameInv, BudgetInv
  <2>3. f[Cur + 1] = buf[pos + 1]
    BY <1>5, <2>1
  <2>4. Charge(buf[pos + 1]) \in Nat
    BY DEF Charge
  <2> QED
    BY <1>1, <1>6, <2>1, <2>2, <2>3, <2>4, LimitsAssumption
<1>10. CASE OpenContainer /\ pc' = "refused"
  <2>1. /\ pc = "body" /\ HasField /\ Container(Marker)
        /\ seen + Declared(Marker, Length) > MAX_VALUES
    BY <1>10 DEF OpenContainer
  <2>2. Cur = start /\ Counted = seen - 1 /\ seen \in Nat
    BY <1>1, <2>1 DEF Cur, Counted, InHand, FrameInv, ScanTypeOK
  <2>3. /\ start < Len(buf) /\ HeaderEnd(buf, start) <= Len(buf)
        /\ Arity(buf, start) = Declared(Marker, Length)
    BY <1>1, <2>1, HandIsValue
  <2>4. Arity(f, Cur) = Declared(Marker, Length)
    BY <1>5, <2>2, <2>3
  <2> QED
    BY <1>6, <1>7, <2>1, <2>2, <2>4, LimitsAssumption
<1>11. CASE PayloadTooLarge
  <2>1. /\ pc = "body" /\ HasField /\ ~Container(Marker) /\ Width > 0 /\ Length > MAX_FRAME
    BY <1>11 DEF PayloadTooLarge
  <2>2. Cur = start
    BY <2>1 DEF Cur, InHand
  <2>3. start < Len(buf) /\ HeaderEnd(buf, start) <= Len(buf) /\ ValueEnd = EndAt(buf, start)
    BY <1>1, <2>1, HandIsValue
  <2>4. Length \in Nat /\ Width \in Nat /\ pos \in Nat /\ Marker \in 0..255
    BY <1>1, <2>1, BodyFacts DEF FrameInv, ScanTypeOK
  <2>5. Payload(Marker, Length) >= Length
    <3>1. Marker \in 217..219 \cup 196..198 \/ Marker \in 199..201
      BY <2>1, <2>4 DEF Width, LenBytes, Container
    <3>2. CASE Marker \in 217..219 \cup 196..198
      <4>1. Payload(Marker, Length) = Length
        BY <3>2 DEF Payload
      <4> QED
        BY <2>4, <4>1
    <3>3. CASE Marker \in 199..201
      <4>1. Payload(Marker, Length) = 1 + Length
        BY <3>3 DEF Payload
      <4> QED
        BY <2>4, <4>1
    <3> QED
      BY <3>1, <3>2, <3>3
  <2>6. ValueEnd > MAX_FRAME
    <3>1. Payload(Marker, Length) \in Nat
      BY <1>1, <2>1, BodyFacts
    <3> QED
      BY <2>1, <2>4, <2>5, <3>1, LimitsAssumption DEF ValueEnd
  <2> QED
    BY <1>5, <1>6, <1>7, <2>2, <2>3, <2>6, LimitsAssumption
<1> QED
  BY <1>8, <1>9, <1>10, <1>11

LEMMA InitScanInv == Init => ScanInv
<1> SUFFICES ASSUME Init PROVE ScanInv
  OBVIOUS
<1>1. FrameInv
  BY InitFrameInv
<1>2. WalkInv
  <2>1. /\ pc = "scan" /\ pos = 0 /\ depth = 1 /\ seen = 0 /\ stack = FreshStack
    BY DEF Init
  <2>2. Cur = 0 /\ Counted = 0 /\ Owed = stack
    BY <2>1 DEF Cur, Counted, Owed, InHand
  <2>3. stack[0] = 1
    BY <2>1, LimitsAssumption DEF FreshStack, Levels
  <2>4. \E anc, below : Walk(buf, {}, anc, below, 0, 1, stack, 0)
    BY <2>3, FreshWalk
  <2>5. \E W, anc, below : Walk(buf, W, anc, below, Cur, depth, Owed, Counted)
    BY <2>1, <2>2, <2>4
  <2> QED
    BY <2>1, <2>5, LimitsAssumption DEF WalkInv
<1>3. RefusalJustified /\ WaitsForMore
  BY DEF Init, RefusalJustified, WaitsForMore
<1> QED
  BY <1>1, <1>2, <1>3 DEF ScanInv

\* Suspending the scan leaves the walk as it was.
LEMMA RewindWalk ==
  ASSUME ScanInv, InHand, Rewind
  PROVE  WalkInv'
<1>1. Cur' = Cur /\ Counted' = Counted /\ Owed' = Owed
  BY DEF Cur, Counted, Owed, InHand, Rewind, Refuse
<1>2. buf' = buf /\ depth' = depth
  BY DEF Rewind
<1>3. PICK W, anc, below : Walk(buf, W, anc, below, Cur, depth, Owed, Counted)
  BY DEF ScanInv, WalkInv, InHand
<1>4. seen' <= MAX_VALUES
  BY LimitsAssumption DEF ScanInv, WalkInv, InHand, Rewind, FrameInv, ScanTypeOK
<1>5. (\E V, u, v : Walk(buf, V, u, v, Cur, depth, Owed, Counted))'
  BY <1>1, <1>2, <1>3
<1> QED
  BY <1>4, <1>5 DEF WalkInv

\* Taking or opening the value in hand spends what its claim took.
LEMMA SpendClaim ==
  ASSUME ScanInv, pc = "body"
  PROVE  /\ \A s : /\ \A l \in 0..(depth - 1) : s[l] = stack[l]
                   => Spent(Owed, s, depth)
         /\ Cur = start /\ start \in Nat /\ Counted + 1 = seen /\ Counted \in Nat
         /\ depth \in Nat /\ depth > 0
         /\ Charge(buf[start + 1]) <= MAX_DEPTH - 2 * (depth - 1)
         /\ buf \in Seq(0..255)
<1>1. FrameInv /\ buf \in Seq(0..255) /\ depth \in Nat /\ depth > 0 /\ start \in Nat
  BY BufBytes DEF ScanInv, FrameInv, ScanTypeOK, HandInv
<1>2. Cur = start /\ Counted + 1 = seen /\ Counted \in Nat
  BY DEF Cur, Counted, InHand, ScanInv, FrameInv, ScanTypeOK, HandInv
<1>3. depth - 1 \in Levels /\ depth - 1 \in 0..(depth - 1)
  BY <1>1, LevelInUse
<1>4. stack \in [Levels -> Nat] /\ stack[depth - 1] \in Nat
  BY <1>1, <1>3 DEF FrameInv, ScanTypeOK
<1>5. /\ Owed[depth - 1] = stack[depth - 1] + 1
      /\ \A l \in 0..(depth - 1) : l # depth - 1 => Owed[l] = stack[l]
  <2>1. Owed = [stack EXCEPT ![depth - 1] = stack[depth - 1] + 1]
    BY DEF Owed, InHand
  <2>2. 0..(depth - 1) \subseteq Levels
    BY <1>1, LimitsAssumption DEF Levels, FrameInv, StackInBounds
  <2> QED
    BY <1>3, <1>4, <2>1, <2>2
<1>6. ASSUME NEW s, \A l \in 0..(depth - 1) : s[l] = stack[l] PROVE Spent(Owed, s, depth)
  <2>1. s[depth - 1] = stack[depth - 1]
    BY <1>3, <1>6
  <2>2. Owed[depth - 1] \in Nat /\ Owed[depth - 1] > 0 /\ s[depth - 1] = Owed[depth - 1] - 1
    BY <1>4, <1>5, <2>1
  <2> QED
    BY <1>5, <1>6, <2>2 DEF Spent
<1>7. Charge(buf[start + 1]) <= MAX_DEPTH - 2 * (depth - 1)
  <2>1. budget[depth - 1] >= Charge(buf[start + 1])
    BY DEF ScanInv, FrameInv, HandInv
  <2>2. budget[depth - 1] = MAX_DEPTH - 2 * (depth - 1)
    BY <1>1, <1>3 DEF FrameInv, BudgetInv
  <2>3. Charge(buf[start + 1]) \in Nat
    BY DEF Charge
  <2> QED
    BY <1>1, <2>1, <2>2, <2>3, LimitsAssumption
<1> QED
  BY <1>1, <1>2, <1>6, <1>7

LEMMA StepWalkInv ==
  ASSUME ScanInv, [Next]_vars
  PROVE  WalkInv'
<1>0. FrameInv /\ FrameInv' /\ buf \in Seq(0..255) /\ depth \in Nat
  BY StepFrameInv, BufBytes DEF ScanInv, FrameInv, ScanTypeOK
<1>1. CASE PopLevel
  <2>1. /\ pc = "scan" /\ pc' = "scan" /\ depth > 0 /\ stack[depth - 1] = 0
        /\ depth' = depth - 1 /\ UNCHANGED <<buf, pos, seen, stack>>
    BY <1>1 DEF PopLevel
  <2>2. Cur = pos /\ Owed = stack /\ Counted = seen /\ Cur' = pos /\ Owed' = stack /\ Counted' = seen
    BY <2>1 DEF Cur, Owed, Counted, InHand
  <2>3. PICK W, anc, below : Walk(buf, W, anc, below, pos, depth, stack, seen)
    BY <2>1, <2>2 DEF ScanInv, WalkInv
  <2>4. Walk(buf, W, anc, below, pos, depth - 1, stack, seen)
    <3>1. pos \in Nat
      BY <1>0 DEF FrameInv, ScanTypeOK
    <3> QED
      BY <1>0, <2>1, <2>3, <3>1, PopWalk
  <2>5. (\E V, u, v : Walk(buf, V, u, v, Cur, depth, Owed, Counted))'
    BY <2>1, <2>2, <2>4
  <2> QED
    BY <2>1, <2>5 DEF WalkInv, ScanInv
<1>2. CASE Claim
  <2>1. /\ pc = "scan" /\ depth > 0 /\ stack[depth - 1] > 0
        /\ stack' = [stack EXCEPT ![depth - 1] = stack[depth - 1] - 1]
        /\ seen' = seen + 1 /\ start' = pos /\ UNCHANGED <<buf, pos, depth>>
    BY <1>2 DEF Claim
  <2>2. CASE pc' = "refused"
    BY <2>2 DEF WalkInv
  <2>3. CASE pc' # "refused"
    <3>1. pc' = "marker" /\ ~(seen + 1 > MAX_VALUES)
      BY <1>2, <2>3 DEF Claim, Refuse
    <3>2. depth - 1 \in Levels /\ stack \in [Levels -> Nat] /\ stack[depth - 1] \in Nat
      BY <1>0, <2>1, LevelInUse DEF FrameInv, ScanTypeOK
    <3>3. Owed' = [stack' EXCEPT ![depth - 1] = stack'[depth - 1] + 1]
      BY <2>1, <3>1 DEF Owed, InHand
    <3>4. Owed' = stack
      <4>1. stack'[depth - 1] = stack[depth - 1] - 1
        BY <2>1, <3>2
      <4>2. (stack[depth - 1] - 1) + 1 = stack[depth - 1]
        BY <3>2
      <4> QED
        BY <2>1, <3>2, <3>3, <4>1, <4>2
    <3>5. seen \in Nat
      BY <1>0 DEF FrameInv, ScanTypeOK
    <3>6. Cur' = pos /\ Counted' = seen /\ Cur = pos /\ Counted = seen /\ Owed = stack
      BY <2>1, <3>1, <3>5 DEF Cur, Counted, Owed, InHand
    <3>7. PICK W, anc, below : Walk(buf, W, anc, below, pos, depth, stack, seen)
      BY <2>1, <3>6 DEF ScanInv, WalkInv
    <3>8. (\E V, u, v : Walk(buf, V, u, v, Cur, depth, Owed, Counted))'
      BY <2>1, <3>4, <3>6, <3>7
    <3>9. seen' <= MAX_VALUES
      BY <2>1, <3>1, <3>5, LimitsAssumption
    <3> QED
      BY <3>8, <3>9 DEF WalkInv
  <2> QED
    BY <2>2, <2>3
<1>3. CASE NoMarker \/ NoLength \/ NoPayload
  BY <1>3, RewindWalk DEF NoMarker, NoLength, NoPayload, PayloadFits, InHand
<1>4. CASE TakeMarker
  <2>1. CASE pc' = "refused"
    BY <2>1 DEF WalkInv
  <2>2. CASE pc' # "refused"
    <3>1. /\ pc = "marker" /\ pc' = "body"
          /\ UNCHANGED <<buf, seen, stack, depth, start>>
      BY <1>4, <2>2 DEF TakeMarker, Refuse
    <3>2. Cur' = Cur /\ Counted' = Counted /\ Owed' = Owed
      BY <3>1 DEF Cur, Counted, Owed, InHand
    <3>3. PICK W, anc, below : Walk(buf, W, anc, below, Cur, depth, Owed, Counted)
      BY <3>1 DEF ScanInv, WalkInv
    <3>4. (\E V, u, v : Walk(buf, V, u, v, Cur, depth, Owed, Counted))'
      BY <3>1, <3>2, <3>3
    <3> QED
      BY <3>1, <3>4 DEF WalkInv, ScanInv
  <2> QED
    BY <2>1, <2>2
<1>5. CASE OpenContainer
  <2>1. CASE pc' = "refused"
    BY <2>1 DEF WalkInv
  <2>2. CASE pc' # "refused"
    <3>1. /\ pc = "body" /\ HasField /\ Container(Marker) /\ pos' = pos + Width
          /\ pc' = "scan" /\ depth' = depth + 1
          /\ stack' = [stack EXCEPT ![depth] = Declared(Marker, Length)]
          /\ UNCHANGED <<buf, seen>>
      BY <1>5, <2>2 DEF OpenContainer, Refuse
    <3>2. /\ Cur = start /\ start \in Nat /\ Counted + 1 = seen /\ Counted \in Nat
          /\ depth > 0 /\ Charge(buf[start + 1]) <= MAX_DEPTH - 2 * (depth - 1)
      BY <3>1, SpendClaim
    <3>3. /\ HeaderEnd(buf, start) <= Len(buf) /\ EndAt(buf, start) = pos + Width
          /\ Arity(buf, start) = Declared(Marker, Length)
      BY <1>0, <3>1, HandIsValue
    <3>4. depth \in Levels /\ 0..(depth - 1) \subseteq Levels
      <4>1. depth + 1 <= MAX_DEPTH
        BY <1>0, <3>1 DEF FrameInv, StackInBounds
      <4> QED
        BY <1>0, <3>2, <4>1, LimitsAssumption DEF Levels
    <3>5. /\ \A l \in 0..(depth - 1) : stack'[l] = stack[l]
          /\ stack'[depth] = Arity(buf, start)
      <4>1. stack \in [Levels -> Nat]
        BY <1>0 DEF FrameInv, ScanTypeOK
      <4>2. \A l \in 0..(depth - 1) : l # depth
        BY <1>0
      <4> QED
        BY <3>1, <3>3, <3>4, <4>1, <4>2
    <3>6. Spent(Owed, stack', depth)
      BY <3>1, <3>5, SpendClaim
    <3>7. PICK W, anc, below : Walk(buf, W, anc, below, start, depth, Owed, Counted)
      BY <3>1, <3>2 DEF ScanInv, WalkInv
    <3>8. \E V, u, v : Walk(buf, V, u, v, EndAt(buf, start), depth + 1, stack', Counted + 1)
      BY <1>0, <3>2, <3>3, <3>5, <3>6, <3>7, OpenWalk
    <3>9. Cur' = EndAt(buf, start) /\ Counted' = Counted + 1 /\ Owed' = stack'
      BY <3>1, <3>2, <3>3 DEF Cur, Counted, Owed, InHand
    <3>10. (\E V, u, v : Walk(buf, V, u, v, Cur, depth, Owed, Counted))'
      BY <3>1, <3>8, <3>9
    <3> QED
      BY <3>1, <3>10 DEF WalkInv, ScanInv
  <2> QED
    BY <2>1, <2>2
<1>6. CASE PayloadTooLarge
  BY <1>6 DEF PayloadTooLarge, Refuse, WalkInv
<1>7. CASE TakeValue
  <2>1. /\ pc = "body" /\ HasField /\ ~Container(Marker) /\ pos' = ValueEnd
        /\ pc' = "scan" /\ UNCHANGED <<buf, seen, stack, depth>>
    BY <1>7 DEF TakeValue, PayloadFits
  <2>2. /\ Cur = start /\ start \in Nat /\ Counted + 1 = seen /\ Counted \in Nat
        /\ depth > 0 /\ Charge(buf[start + 1]) <= MAX_DEPTH - 2 * (depth - 1)
    BY <2>1, SpendClaim
  <2>3. /\ HeaderEnd(buf, start) <= Len(buf) /\ EndAt(buf, start) = ValueEnd
        /\ Arity(buf, start) = 0
    BY <1>0, <2>1, HandIsValue
  <2>4. Spent(Owed, stack, depth)
    BY <2>1, SpendClaim
  <2>5. PICK W, anc, below : Walk(buf, W, anc, below, start, depth, Owed, Counted)
    BY <2>1, <2>2 DEF ScanInv, WalkInv
  <2>6. \E V, u, v : Walk(buf, V, u, v, EndAt(buf, start), depth, stack, Counted + 1)
    BY <1>0, <2>2, <2>3, <2>4, <2>5, LeafWalk
  <2>7. Cur' = EndAt(buf, start) /\ Counted' = Counted + 1 /\ Owed' = stack
    BY <2>1, <2>2, <2>3 DEF Cur, Counted, Owed, InHand
  <2>8. (\E V, u, v : Walk(buf, V, u, v, Cur, depth, Owed, Counted))'
    BY <2>1, <2>6, <2>7
  <2> QED
    BY <2>1, <2>8 DEF WalkInv, ScanInv
<1>8. CASE Deliver
  <2>1. pc' = "scan" /\ pos' = 0 /\ depth' = 1 /\ seen' = 0 /\ stack' = FreshStack
    BY <1>8 DEF Deliver
  <2>2. Cur' = 0 /\ Counted' = 0 /\ Owed' = stack'
    BY <2>1 DEF Cur, Counted, Owed, InHand
  <2>3. stack'[0] = 1
    BY <2>1, LimitsAssumption DEF FreshStack, Levels
  <2>4. \E u, v : Walk(buf', {}, u, v, 0, 1, stack', 0)
    BY <2>3, FreshWalk
  <2>5. (\E V, u, v : Walk(buf, V, u, v, Cur, depth, Owed, Counted))'
    BY <2>1, <2>2, <2>4
  <2> QED
    BY <2>1, <2>5, LimitsAssumption DEF WalkInv
<1>9. CASE Read
  <2>1. /\ pc = "read" /\ pc' = "scan" /\ UNCHANGED <<pos, seen, stack, depth>>
    BY <1>9 DEF Read, scanVars
  <2>2. PICK n \in 1..MaxRead : \E chunk \in [1..n -> Bytes] : buf' = buf \o chunk
    BY <1>9 DEF Read
  <2>3. PICK chunk \in [1..n -> Bytes] : buf' = buf \o chunk
    BY <2>2
  <2>4. chunk \in Seq(0..255)
    <3>1. chunk \in Seq(Bytes)
      BY LimitsAssumption
    <3> QED
      BY <3>1, SentBytes
  <2>5. buf' \in Seq(0..255) /\ Len(buf) <= Len(buf') /\ Agree(buf, buf')
    BY <1>0, <2>3, <2>4 DEF Agree
  <2>6. /\ Cur = pos /\ Owed = stack /\ Counted = seen
        /\ Cur' = pos /\ Owed' = stack /\ Counted' = seen
    BY <2>1 DEF Cur, Owed, Counted, InHand
  <2>7. PICK W, anc, below : Walk(buf, W, anc, below, pos, depth, stack, seen)
    BY <2>1, <2>6 DEF ScanInv, WalkInv
  <2>8. \A p \in W : HeaderEnd(buf, p) <= Len(buf')
    <3> SUFFICES ASSUME NEW p \in W PROVE HeaderEnd(buf, p) <= Len(buf')
      OBVIOUS
    <3>1. HeaderEnd(buf, p) <= Len(buf) /\ p \in Nat
      BY <2>7 DEF Walk, Walked, EndToEnd
    <3>2. HeaderEnd(buf, p) \in Nat
      BY <1>0, <3>1, ValueFacts
    <3> QED
      BY <1>0, <2>5, <3>1, <3>2
  <2>9. Walk(buf', W, anc, below, pos, depth, stack, seen)
    <3>1. pos \in Nat
      BY <1>0 DEF FrameInv, ScanTypeOK
    <3> QED
      BY <1>0, <2>5, <2>7, <2>8, <3>1, GrowWalk DEF Agree
  <2>10. (\E V, u, v : Walk(buf, V, u, v, Cur, depth, Owed, Counted))'
    BY <2>1, <2>6, <2>9
  <2> QED
    BY <2>1, <2>10 DEF WalkInv, ScanInv
<1>10. CASE ReadEof
  BY <1>10 DEF ReadEof, WalkInv
<1>11. CASE UNCHANGED vars
  <2>1. Cur' = Cur /\ Counted' = Counted /\ Owed' = Owed
    BY <1>11 DEF vars, scanVars, Cur, Counted, Owed, InHand
  <2> QED
    BY <1>11, <2>1 DEF vars, scanVars, ScanInv, WalkInv
<1> QED
  BY <1>1, <1>2, <1>3, <1>4, <1>5, <1>6, <1>7, <1>8, <1>9, <1>10, <1>11 DEF Next

\* A step that refuses the peer refuses what no sendable frame goes on from.
LEMMA StepRefusal ==
  ASSUME ScanInv, Next, pc' = "refused"
  PROVE  RefusalJustified'
<1>1. ASSUME NEW f \in Legal, Agree(buf, f) PROVE FALSE
  <2>1. CASE NoMarker \/ NoLength \/ NoPayload
    <3>1. Len(buf) > MAX_FRAME
      BY <2>1 DEF NoMarker, NoLength, NoPayload, Rewind
    <3>2. f \in Seq(0..255) /\ Len(buf) < Len(f) /\ Len(f) <= MAX_FRAME
      BY <1>1, <2>1, MoreToCome
    <3>3. Len(buf) \in Nat /\ Len(f) \in Nat
      BY <3>2, BufBytes DEF ScanInv, FrameInv
    <3> QED
      BY <3>1, <3>2, <3>3, LimitsAssumption
  <2>2. CASE Claim \/ TakeMarker \/ OpenContainer \/ PayloadTooLarge
    BY <1>1, <2>2, NoRoom
  <2> QED
    BY <2>1, <2>2 DEF Next, PopLevel, TakeValue, Deliver, Read, ReadEof, ScanInv, FrameInv,
                      ScanTypeOK
<1>2. buf \in Seq(0..255) /\ buf' = buf
  <2>1. pc \in {"scan", "marker", "body"}
    BY DEF Next, PopLevel, Claim, NoMarker, TakeMarker, NoLength, OpenContainer, NoPayload,
           PayloadFits, PayloadTooLarge, TakeValue, Deliver, Read, ReadEof
  <2>2. buf' = buf
    BY DEF Next, PopLevel, Claim, NoMarker, TakeMarker, NoLength, OpenContainer, NoPayload,
           PayloadTooLarge, TakeValue, Deliver, Read, ReadEof, Rewind
  <2> QED
    BY <2>2, BufBytes DEF ScanInv, FrameInv
<1>3. buf \notin Beginnings /\ \A k \in 0..Len(buf) : SubSeq(buf, 1, k) \notin Legal
  BY <1>1, <1>2, NoneAgrees
<1> QED
  BY <1>2, <1>3 DEF RefusalJustified, Beginnings, Legal

LEMMA StepScanInv ==
  ASSUME ScanInv, [Next]_vars
  PROVE  ScanInv'
<1>1. FrameInv' /\ WalkInv'
  BY StepFrameInv, StepWalkInv DEF ScanInv
<1>2. RefusalJustified'
  <2>1. CASE pc' # "refused"
    BY <2>1 DEF RefusalJustified
  <2>2. CASE pc' = "refused" /\ Next
    BY <2>2, StepRefusal
  <2>3. CASE UNCHANGED vars
    BY <2>3 DEF vars, scanVars, ScanInv, RefusalJustified, Beginnings, Legal
  <2> QED
    BY <2>1, <2>2, <2>3
<1>3. WaitsForMore'
  <2>1. CASE pc' # "read"
    BY <2>1 DEF WaitsForMore
  <2>2. CASE UNCHANGED vars
    BY <2>2 DEF vars, scanVars, ScanInv, WaitsForMore, Legal
  <2>3. CASE pc' = "read" /\ Next
    <3>1. NoMarker \/ NoLength \/ NoPayload
      BY <2>3 DEF Next, PopLevel, Claim, TakeMarker, OpenContainer, PayloadTooLarge,
                  TakeValue, Deliver, Read, ReadEof, Refuse, ScanInv, FrameInv, ScanTypeOK
    <3>2. buf' = buf /\ buf \in Seq(0..255)
      BY <3>1, BufBytes DEF NoMarker, NoLength, NoPayload, Rewind, ScanInv, FrameInv
    <3>3. ASSUME NEW k \in 0..Len(buf), SubSeq(buf, 1, k) \in Legal PROVE FALSE
      <4>1. Agree(buf, SubSeq(buf, 1, k)) /\ Len(SubSeq(buf, 1, k)) = k
        BY <3>2 DEF Agree
      <4>2. Len(buf) < Len(SubSeq(buf, 1, k))
        BY <3>1, <3>3, <4>1, MoreToCome
      <4> QED
        BY <3>2, <4>1, <4>2
    <3> QED
      BY <3>2, <3>3 DEF WaitsForMore, Legal
  <2> QED
    BY <2>1, <2>2, <2>3
<1> QED
  BY <1>1, <1>2, <1>3 DEF ScanInv

\* A walk that has closed every level is one value that keeps to the limits.
LEMMA WalkedToTheEnd ==
  ASSUME ScanInv
  PROVE  AcceptedDecodes
<1> SUFFICES ASSUME pc = "scan", depth = 0
             PROVE  \E S \in Starts(SubSeq(buf, 1, pos)) :
                      /\ IsValue(SubSeq(buf, 1, pos), S)
                      /\ WithinLimits(SubSeq(buf, 1, pos), S)
                      /\ Cardinality(S) = seen
  BY DEF AcceptedDecodes
<1> DEFINE f == SubSeq(buf, 1, pos)
<1>1. /\ buf \in Seq(0..255) /\ pos \in Nat /\ pos <= Len(buf)
      /\ seen \in Nat /\ seen <= MAX_VALUES
  <2>1. FrameInv /\ seen <= MAX_VALUES
    BY DEF ScanInv, WalkInv
  <2>2. buf \in Seq(0..255)
    BY <2>1, BufBytes DEF FrameInv
  <2> QED
    BY <2>1, <2>2 DEF FrameInv, ScanTypeOK
<1>2. f \in Seq(0..255) /\ Len(f) = pos /\ Agree(buf, f)
  <2>1. Len(f) = pos /\ \A i \in 1..pos : f[i] = buf[i]
    BY <1>1
  <2>2. f \in Seq(0..255)
    <3>0. \A i \in 1..pos : i \in 1..Len(buf)
      BY <1>1
    <3>1. \A i \in 1..pos : buf[i] \in 0..255
      <4>1. \A i \in 1..Len(buf) : buf[i] \in 0..255
        BY <1>1, SeqElement
      <4> QED
        BY <3>0, <4>1, Zenon
    <3>2. f = [i \in 1..pos |-> buf[i]]
      BY <1>1
    <3>3. [i \in 1..pos |-> buf[i]] \in Seq(0..255)
      BY <1>1, <3>1
    <3> QED
      BY <3>2, <3>3
  <2> HIDE DEF f
  <2>3. Agree(buf, f)
    BY <1>1, <2>1 DEF Agree
  <2> QED
    BY <2>1, <2>2, <2>3
<1>3. PICK W, anc, below : Walk(buf, W, anc, below, pos, 0, stack, seen)
  BY DEF ScanInv, WalkInv, Cur, Owed, Counted, InHand
<1>4. W \in SUBSET (0..(pos - 1)) /\ EndToEnd(buf, W, pos)
  BY <1>3 DEF Walk, Walked
<1>5. \A p \in W : HeaderEnd(buf, p) <= Len(f)
  <2> SUFFICES ASSUME NEW p \in W PROVE HeaderEnd(buf, p) <= pos
    BY <1>2
  <2>1. p \in Nat /\ HeaderEnd(buf, p) <= Len(buf) /\ EndAt(buf, p) \in W \cup {pos}
    BY <1>4 DEF EndToEnd
  <2>2. HeaderEnd(buf, p) \in Nat /\ EndAt(buf, p) \in Nat /\ HeaderEnd(buf, p) <= EndAt(buf, p)
    BY <1>1, <2>1, ValueFacts
  <2>3. \A r \in 0..(pos - 1) : r <= pos
    BY <1>1
  <2>4. \A r \in W : r <= pos
    BY <1>4, <2>3, Zenon
  <2>5. EndAt(buf, p) <= pos
    <3>1. pos <= pos
      BY <1>1
    <3> QED
      BY <2>1, <2>4, <3>1, Zenon
  <2> QED
    BY <1>1, <2>2, <2>5
<1> HIDE DEF f
<1>6. Walk(f, W, anc, below, pos, 0, stack, seen)
  BY <1>1, <1>2, <1>3, <1>5, GrowWalk DEF Agree
<1>7. IsValue(f, W)
  BY <1>2, <1>6 DEF Walk, Walked, Levelled, IsValue
<1>8. WithinLimits(f, W) /\ Cardinality(W) = seen
  BY <1>1, <1>6 DEF Walk, Walked, WithinLimits
<1>9. W \in Starts(f)
  BY <1>2, <1>4 DEF Starts
<1> QED
  BY <1>7, <1>8, <1>9 DEF f

LEMMA ScanInvariant == Spec => []ScanInv
BY InitScanInv, StepScanInv, PTL DEF Spec

\* What the scan hands to the decoder, cut into reads in whatever way, is exactly one
\* value, with as many values in it as were counted, that keeps to the count and the
\* depth the decoder allows.
THEOREM AcceptedIsOneValue == Spec => []AcceptedDecodes
BY ScanInvariant, WalkedToTheEnd, PTL

\* Every way scan_frame and the reader refuse a peer for its bytes (one value too many,
\* a declared count, a nesting, a declared length, a full buffer) refuses only what no
\* sender that keeps to encode_checked's limits and to the depth can have sent.
THEOREM RefusesOnlyTheUnsendable == Spec => []RefusalJustified
<1>1. ScanInv => RefusalJustified
  BY DEF ScanInv
<1> QED
  BY ScanInvariant, <1>1, PTL

\* The reader never goes back to the transport while a whole sendable frame is
\* buffered: Scan::NeedMore means that more bytes are needed.
THEOREM NeverWaitsForWhatIsThere == Spec => []WaitsForMore
<1>1. ScanInv => WaitsForMore
  BY DEF ScanInv
<1> QED
  BY ScanInvariant, <1>1, PTL

=============================================================================
