----------------------------- MODULE FrameScan -----------------------------
(***************************************************************************)
(* How the reader of an Rpc connection finds the end of a frame            *)
(* (crates/bemtvi-rpc/src/lib.rs: scan_frame, FrameScan and the loop of    *)
(* reader_task around them).  The scan walks the msgpack markers with a    *)
(* stack of its own, charges every declared size against three limits      *)
(* before the decoder acts on it, and is suspended when the bytes run out: *)
(* the value it was in is given back and walked again after the next read. *)
(*                                                                         *)
(* Bytes are the real ones; only the limits and the buffer are small.      *)
(***************************************************************************)
EXTENDS Integers, Sequences, FiniteSets

CONSTANTS
  MAX_FRAME, MAX_DEPTH, MAX_VALUES,
  Bytes,      \* the bytes the peer may send
  MaxRead,    \* bound on the bytes of one read
  MaxBuf,     \* bound on the bytes buffered
  Frames      \* byte strings a peer may want to send, for RefusalJustified

ASSUME LimitsAssumption ==
  /\ MAX_FRAME \in Nat /\ MAX_DEPTH \in Nat \ {0, 1} /\ MAX_VALUES \in Nat
  /\ Bytes \subseteq 0..255
  /\ MaxRead \in Nat /\ MaxBuf \in Nat
  /\ Frames \subseteq Seq(0..255)

VARIABLES
  buf,      \* buffered bytes, from the start of the current frame
  pos,      \* FrameScan::pos, bytes walked
  seen,     \* FrameScan::seen, values counted
  budget,   \* FrameScan::budget, the depth budget of each level
  stack,    \* FrameScan::stack, the values owed at each level
  depth,    \* FrameScan::depth, levels in use
  start,    \* value_start of the value in hand
  pc,       \* where the reader is
  reject    \* why it refused the peer

scanVars == <<pos, seen, budget, stack, depth>>
vars == <<buf, scanVars, start, pc, reject>>

Levels == 0..(MAX_DEPTH - 1)

-----------------------------------------------------------------------------
(* The markers *)

\* Arrays and maps.
Container(m) == m \in 128..159 \cup 220..223

\* The depth units a value needs, as rmpv's decoder spends them: containers and
\* bin payloads 2, str and ext payloads 3, scalars 1.
Charge(m) ==
  IF Container(m) \/ m \in 196..198 THEN 2
  ELSE IF m \in 160..191 \cup 217..219 \cup 212..216 \cup 199..201 THEN 3
  ELSE 1

\* The width of the length field after the marker.
LenBytes(m) ==
  IF m \in {217, 196, 199} THEN 1
  ELSE IF m \in {218, 197, 200, 220, 222} THEN 2
  ELSE IF m \in {219, 198, 201, 221, 223} THEN 4
  ELSE 0

\* The values a container declares: two for every entry of a map.
Declared(m, len) ==
  IF m \in 144..159 THEN m - 144
  ELSE IF m \in 128..143 THEN 2 * (m - 128)
  ELSE IF m \in {220, 221} THEN len
  ELSE 2 * len

\* The bytes that follow marker and length field.
Payload(m, len) ==
  CASE m \in {204, 208}               -> 1
    [] m \in {205, 209}               -> 2
    [] m \in {206, 210, 202}          -> 4
    [] m \in {207, 211, 203}          -> 8
    [] m \in 160..191                 -> m - 160
    [] m \in 217..219 \cup 196..198   -> len
    [] m = 212                        -> 2
    [] m = 213                        -> 3
    [] m = 214                        -> 5
    [] m = 215                        -> 9
    [] m = 216                        -> 17
    [] m \in 199..201                 -> 1 + len
    [] OTHER                          -> 0

\* Big-endian number in the n bytes of b after its first p.
read_be(b, p, n) ==
  LET pair(i) == b[i] * 256 + b[i + 1] IN
  IF n = 1 THEN b[p + 1]
  ELSE IF n = 2 THEN pair(p + 1)
  ELSE IF n = 4 THEN pair(p + 1) * 65536 + pair(p + 3)
  ELSE 0

-----------------------------------------------------------------------------
(* FrameScan::new: one value, the frame, is owed at the root. *)
FreshBudget == [l \in Levels |-> MAX_DEPTH]
FreshStack  == [l \in Levels |-> IF l = 0 THEN 1 ELSE 0]

Init ==
  /\ buf = <<>> /\ pos = 0 /\ seen = 0
  /\ budget = FreshBudget /\ stack = FreshStack /\ depth = 1
  /\ start = 0 /\ pc = "scan" /\ reject = "none"

Refuse(why) == pc' = "refused" /\ reject' = why

\* Mutants: the value in hand is not owed again; the walk goes on behind its
\* marker.
RewindForgotten ==
  /\ stack' = stack
  /\ seen' = seen - 1 /\ pos' = start
  /\ IF Len(buf) > MAX_FRAME THEN Refuse("frame") ELSE pc' = "read" /\ UNCHANGED reject
  /\ UNCHANGED <<buf, budget, depth, start>>

\* incomplete!: the claim on the value in hand is undone and the walk kept; the
\* reader waits for more unless the frame has outgrown the buffer.
Rewind ==
  /\ stack' = [stack EXCEPT ![depth - 1] = @ + 1]
  /\ seen' = seen - 1 /\ pos' = start
  /\ IF Len(buf) > MAX_FRAME THEN Refuse("frame") ELSE pc' = "read" /\ UNCHANGED reject
  /\ UNCHANGED <<buf, budget, depth, start>>

\* Nothing is owed at the innermost level any more.
PopLevel ==
  /\ pc = "scan" /\ depth > 0 /\ stack[depth - 1] = 0
  /\ depth' = depth - 1
  /\ UNCHANGED <<buf, pos, seen, budget, stack, start, pc, reject>>

\* Mutant: the limit is refused where the sender's count still allows it.
ClaimOffByOne ==
  /\ pc = "scan" /\ depth > 0 /\ stack[depth - 1] > 0
  /\ stack' = [stack EXCEPT ![depth - 1] = @ - 1]
  /\ seen' = seen + 1 /\ start' = pos
  /\ IF seen + 1 >= MAX_VALUES THEN Refuse("values")
     ELSE pc' = "marker" /\ UNCHANGED reject
  /\ UNCHANGED <<buf, pos, budget, depth>>

\* The next value is claimed and counted.
Claim ==
  /\ pc = "scan" /\ depth > 0 /\ stack[depth - 1] > 0
  /\ stack' = [stack EXCEPT ![depth - 1] = @ - 1]
  /\ seen' = seen + 1 /\ start' = pos
  /\ IF seen + 1 > MAX_VALUES THEN Refuse("values")
     ELSE pc' = "marker" /\ UNCHANGED reject
  /\ UNCHANGED <<buf, pos, budget, depth>>

NoMarker == pc = "marker" /\ pos = Len(buf) /\ Rewind

TakeMarker ==
  /\ pc = "marker" /\ pos < Len(buf)
  /\ pos' = pos + 1
  /\ IF budget[depth - 1] < Charge(buf[pos + 1]) THEN Refuse("depth")
     ELSE pc' = "body" /\ UNCHANGED reject
  /\ UNCHANGED <<buf, seen, budget, stack, depth, start>>

\* The value in hand: its marker, and its length field once that is buffered.
Marker   == buf[start + 1]
Width    == LenBytes(Marker)
Length   == read_be(buf, pos, Width)
HasField == pos + Width <= Len(buf)

NoLength == pc = "body" /\ ~HasField /\ Rewind

\* container!: the declared count is charged against the value limit at once,
\* then becomes a level of its own.
OpenContainer ==
  /\ pc = "body" /\ HasField /\ Container(Marker)
  /\ pos' = pos + Width
  /\ LET count == Declared(Marker, Length) IN
       IF seen + count > MAX_VALUES
       THEN Refuse("values") /\ UNCHANGED <<budget, stack, depth>>
       ELSE /\ budget' = [budget EXCEPT ![depth] = budget[depth - 1] - 2]
            /\ stack' = [stack EXCEPT ![depth] = count]
            /\ depth' = depth + 1
            /\ pc' = "scan" /\ UNCHANGED reject
  /\ UNCHANGED <<buf, seen, start>>

\* payload!: a declared length that could never be buffered.
PayloadTooLarge ==
  /\ pc = "body" /\ HasField /\ ~Container(Marker)
  /\ Width > 0 /\ Length > MAX_FRAME
  /\ Refuse("payload")
  /\ UNCHANGED <<buf, scanVars, start>>

\* Where the value in hand ends: length field, then payload.
ValueEnd == pos + Width + Payload(Marker, Length)

PayloadFits ==
  /\ pc = "body" /\ HasField /\ ~Container(Marker)
  /\ ~(Width > 0 /\ Length > MAX_FRAME)

NoPayload == PayloadFits /\ ValueEnd > Len(buf) /\ Rewind

TakeValue ==
  /\ PayloadFits /\ ValueEnd <= Len(buf)
  /\ pos' = ValueEnd /\ pc' = "scan"
  /\ UNCHANGED <<buf, seen, budget, stack, depth, start, reject>>

\* Scan::Complete: the frame is decoded, dispatched and dropped from the buffer,
\* and the next scan starts afresh.
Deliver ==
  /\ pc = "scan" /\ depth = 0
  /\ buf' = SubSeq(buf, pos + 1, Len(buf))
  /\ pos' = 0 /\ seen' = 0
  /\ budget' = FreshBudget /\ stack' = FreshStack /\ depth' = 1
  /\ start' = 0
  /\ UNCHANGED <<pc, reject>>

\* reader.read: the next chunk, cut wherever the transport cuts it ...
Read ==
  /\ pc = "read"
  /\ \E n \in 1..MaxRead : \E chunk \in [1..n -> Bytes] :
       Len(buf) + n <= MaxBuf /\ buf' = buf \o chunk
  /\ pc' = "scan"
  /\ UNCHANGED <<scanVars, start, reject>>

\* ... or the end of the connection.
ReadEof ==
  /\ pc = "read" /\ pc' = "closed"
  /\ UNCHANGED <<buf, scanVars, start, reject>>

Next ==
  \/ PopLevel \/ Claim \/ NoMarker \/ TakeMarker \/ NoLength \/ OpenContainer
  \/ PayloadTooLarge \/ NoPayload \/ TakeValue \/ Deliver \/ Read \/ ReadEof

Spec == Init /\ [][Next]_vars

-----------------------------------------------------------------------------
(***************************************************************************)
(* The reference: what it is for a byte string f to be one msgpack value.  *)
(* S is the set of positions at which values start, the value itself and   *)
(* everything inside it; nothing here knows of a scan, of a stack or of    *)
(* reads.                                                                  *)
(***************************************************************************)

\* The value at position p: where its marker and length field end, where its own
\* bytes end, and how many values it holds.
LengthAt(f, p)  == read_be(f, p + 1, LenBytes(f[p + 1]))
HeaderEnd(f, p) == p + 1 + LenBytes(f[p + 1])
EndAt(f, p)     == HeaderEnd(f, p) + Payload(f[p + 1], LengthAt(f, p))
Arity(f, p)     == IF Container(f[p + 1]) THEN Declared(f[p + 1], LengthAt(f, p)) ELSE 0

\* The values of S lie end to end from the start of f to position e.
EndToEnd(f, S, e) ==
  /\ 0 \in S \cup {e}
  /\ \A p \in S : HeaderEnd(f, p) <= Len(f) /\ EndAt(f, p) \in S \cup {e}
  /\ \A p, q \in S : p < q => EndAt(f, p) <= q
  /\ \A p \in S \cup {e} : p # 0 => \E q \in S : EndAt(f, q) = p

\* The values that were announced before position p, the frame itself and what the
\* containers hold, and did not start before p.
Before(S, p)      == {q \in S : q < p}
Slots(f, S, p)    == UNION {{q} \X (1..Arity(f, q)) : q \in Before(S, p)}
Announced(f, S, p) == 1 + Cardinality(Slots(f, S, p)) - Cardinality(Before(S, p))

\* The containers around the value at p: since they started, there were never fewer
\* values announced than when they did.
Around(f, S, p) ==
  {q \in Before(S, p) :
     \A r \in S : q < r /\ r <= p => Announced(f, S, r) >= Announced(f, S, q)}

\* f is one value: nothing is missing at its end, and at no earlier point was it
\* complete.
IsValue(f, S) ==
  /\ EndToEnd(f, S, Len(f))
  /\ \A p \in S : Announced(f, S, p) > 0
  /\ Announced(f, S, Len(f)) = 0

\* within_value_budget and the depth that read_value_with_max_depth allows.
WithinLimits(f, S) ==
  /\ Cardinality(S) <= MAX_VALUES
  /\ \A p \in S : Charge(f[p + 1]) <= MAX_DEPTH - 2 * Cardinality(Around(f, S, p))

Starts(f) == SUBSET (0..(Len(f) - 1))

\* What encode_checked lets out, and the decoder takes in.
Sendable(f) ==
  Len(f) <= MAX_FRAME /\ \E S \in Starts(f) : IsValue(f, S) /\ WithinLimits(f, S)

-----------------------------------------------------------------------------
(* Properties *)

ScanTypeOK ==
  /\ buf \in Seq(Bytes)
  /\ pos \in 0..Len(buf) /\ start \in 0..Len(buf)
  /\ seen \in Nat
  /\ budget \in [Levels -> Nat] /\ stack \in [Levels -> Nat]
  /\ depth \in Nat
  /\ pc \in {"scan", "marker", "body", "read", "refused", "closed"}
  /\ reject \in {"none", "values", "depth", "payload", "frame"}

\* scan_frame indexes two arrays of MAX_DEPTH entries with no check of its own:
\* the depth budget alone keeps the level it pushes inside them, and with it the
\* nesting the decoder will recurse through.
StackInBounds == 2 * (depth - 1) <= MAX_DEPTH /\ depth <= MAX_DEPTH

\* A frame the scan lets through, in however many reads it came, is one value that
\* read_value_with_max_depth decodes: it ends where the scan says, it has as many
\* values as were counted, and none is too deep.
AcceptedDecodes ==
  pc = "scan" /\ depth = 0 =>
    LET f == SubSeq(buf, 1, pos) IN
    \E S \in Starts(f) : /\ IsValue(f, S) /\ WithinLimits(f, S)
                         /\ Cardinality(S) = seen

\* A peer that keeps to the limits of encode_checked (and of the depth) is never
\* refused: what was received neither begins with a frame that keeps to them nor is
\* the beginning of one.
Legal      == {f \in Frames : Sendable(f)}
Beginnings == UNION {{SubSeq(f, 1, k) : k \in 0..Len(f)} : f \in Legal}

RefusalJustified ==
  pc = "refused" =>
    buf \notin Beginnings /\ \A k \in 0..Len(buf) : SubSeq(buf, 1, k) \notin Legal

=============================================================================
