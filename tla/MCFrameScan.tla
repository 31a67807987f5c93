---------------------------- MODULE MCFrameScan ----------------------------
(***************************************************************************)
(* An instance of FrameScan for TLC, and a second reference: the decoder   *)
(* that recurses through a frame with a budget by value.  The frames a     *)
(* peer may want to send are those it decodes; FrameScan's own reference   *)
(* is compared with it on every one of them, and on every short byte       *)
(* string.                                                                 *)
(***************************************************************************)
EXTENDS FrameScan

RECURSIVE Decode(_, _, _), DecodeAll(_, _, _, _)

\* The value at p of f: where it ends, how many values it has, and whether a marker
\* in it is nested too deep.  What is missing of f ends beyond it.
Decode(f, p, units) ==
  IF p >= Len(f) THEN [pos |-> Len(f) + 1, n |-> 1, deep |-> FALSE]
  ELSE LET m    == f[p + 1]
           body == HeaderEnd(f, p)
       IN  IF units < Charge(m) \/ body > Len(f)
           THEN [pos |-> Len(f) + 1, n |-> 1, deep |-> units < Charge(m)]
           ELSE IF Container(m)
           THEN LET kids == DecodeAll(f, body, units - 2, Arity(f, p))
                IN  [kids EXCEPT !.n = @ + 1]
           ELSE [pos |-> EndAt(f, p), n |-> 1, deep |-> FALSE]

DecodeAll(f, p, units, k) ==
  IF k = 0 THEN [pos |-> p, n |-> 0, deep |-> FALSE]
  ELSE IF p >= Len(f) THEN [pos |-> Len(f) + 1, n |-> k, deep |-> FALSE]
  ELSE LET one  == Decode(f, p, units)
           rest == DecodeAll(f, one.pos, units, k - 1)
       IN  IF one.deep THEN one
           ELSE [pos |-> rest.pos, n |-> one.n + rest.n, deep |-> rest.deep]

Decodes(f) ==
  LET frame == Decode(f, 0, MAX_DEPTH) IN
  frame.pos = Len(f) /\ ~frame.deep /\ frame.n <= MAX_VALUES /\ Len(f) <= MAX_FRAME

ShortFrames(n) == UNION {{SubSeq(f, 1, k) : f \in [1..k -> Bytes]} : k \in 1..n}

DecodedFrames == {f \in ShortFrames(MAX_FRAME) : Decodes(f)}

\* The two references agree: what the decoder takes is Sendable, and nothing else
\* of up to three bytes is.
ASSUME ReferencesAgree ==
  /\ \A f \in Frames : Sendable(f)
  /\ \A f \in ShortFrames(3) : Sendable(f) => Decodes(f)

=============================================================================
