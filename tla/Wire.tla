-------------------------------- MODULE Wire --------------------------------
(***************************************************************************)
(* internal/web/wire: the positional accessors of index.go, the chunked    *)
(* framing, the extraction of one rpc's result and the classification of   *)
(* decode.go, and the status helpers of status.go.                         *)
(*                                                                         *)
(* A JSON value is a record whose one field names its kind.  A string that *)
(* holds encoded JSON is [text |-> value], since the protocol nests        *)
(* encodings; a string whose content is not JSON is [str |-> s].  A body   *)
(* is the sequence of its lines.                                           *)
(***************************************************************************)
EXTENDS Integers, Sequences, FiniteSets, SequencesExt

Null     == [null |-> TRUE]
JStr(s)  == [str |-> s]
JText(v) == [text |-> v]
JNum(n)  == [num |-> n]
JFrac    == [frac |-> TRUE]          \* a number that is no int64
JBool(b) == [bool |-> b]
JList(l) == [list |-> l]
JMap(f)  == [map |-> f]
NotJSON  == [malformed |-> TRUE]

Is(kind, v) == kind \in DOMAIN v

-----------------------------------------------------------------------------
(* index.go: a value, or the reason of a ShapeDriftError *)

Ok(v)         == [ok |-> v]
Drift(reason) == [drift |-> reason]
Found(r)      == Is("ok", r)

Descend(v, idx) ==
  LET Pick(there, value) == IF there THEN Ok(value) ELSE Drift("out_of_range")
  IN IF Is("list", v)
     THEN IF ~Is("num", idx) THEN Drift("not_an_index")
          ELSE Pick(idx.num >= 0 /\ idx.num < Len(v.list), v.list[idx.num + 1])
     ELSE IF Is("map", v)
     THEN IF ~Is("str", idx) THEN Drift("not_a_key")
          ELSE Pick(idx.str \in DOMAIN v.map, v.map[idx.str])
     ELSE Drift(IF Is("null", v) THEN "out_of_range" ELSE "not_a_list")

Step(r, idx) == IF Found(r) THEN Descend(r.ok, idx) ELSE r

\* The value at the end of a path, or the first drift on the way.
At(v, path) ==
  LET walk[k \in 0..Len(path)] == IF k = 0 THEN Ok(v) ELSE Step(walk[k - 1], path[k])
  IN walk[Len(path)]

\* Op of v, which TLC computes once.
Once(Op(_), v) == CHOOSE r \in {Op(x) : x \in {v}} : TRUE

\* The path of one position.
Slot(i) == <<JNum(i)>>

Typed(r, kind, reason) ==
  IF ~Found(r) THEN r ELSE IF Is(kind, r.ok) THEN Ok(r.ok[kind]) ELSE Drift(reason)

IntAt(v, path)  == Typed(At(v, path), "num", "not_an_int")
BoolAt(v, path) == Typed(At(v, path), "bool", "not_a_bool")
\* A string slot, whether or not its content happens to be JSON.
StrAt(v, path) ==
  LET r == At(v, path)
  IN IF Found(r) /\ Is("text", r.ok) THEN Ok("(encoded JSON)") ELSE Typed(r, "str", "not_a_string")
\* A null slot is an empty list.
ListAt(v, path) ==
  LET r == At(v, path)
  IN IF Found(r) /\ Is("null", r.ok) THEN Ok(<<>>) ELSE Typed(r, "list", "not_a_list_value")

\* The best-effort variants: any failure is the absent value.
OrElse(r, absent) == IF Found(r) THEN r.ok ELSE absent
OptStr(v, path)  == OrElse(StrAt(v, path), "")
OptBool(v, path) == OrElse(BoolAt(v, path), FALSE)
OptInt(v, path)  == IntAt(v, path)
OptList(v, path) == ListAt(v, path)

-----------------------------------------------------------------------------
(* decode.go: framing *)

Header(n)      == [count |-> n]
Line(v)        == [json |-> v]
Blank          == [blank |-> TRUE]
Garbage        == [garbage |-> TRUE]       \* the ")]}'" prefix, a line of HTML

\* A list of lists: the only legal payload.
ValidPayload(line) ==
  /\ Is("json", line) /\ Is("list", line.json)
  /\ \A i \in DOMAIN line.json.list : Is("list", line.json.list[i])

\* Ten percent, from the tenth record on.
Exceeded(records, bad) == records >= 10 /\ bad * 10 > records

\* The positions after which a payload is due: a header that is no payload itself.
Awaits(body) ==
  LET awaits[i \in 0..Len(body)] == i > 0 /\ Is("count", body[i]) /\ ~awaits[i - 1] IN awaits

\* A header takes the next line, whatever it is; a blank line counts for nothing
\* elsewhere.  A wrong count is only counted.  The chunk of a line that is no payload is
\* empty.  failed stands for ErrTooManyMalformed,
\* which a header without a next line is too, however few records there are.
ParseChunked(body) ==
  LET awaits == Awaits(body)
      records  == {i \in DOMAIN body : ~awaits[i - 1] /\ ~Is("blank", body[i])}
      payloads == {i \in DOMAIN body : awaits[i - 1] \/ (i \in records /\ ~Is("count", body[i]))}
      bad      == {i \in payloads : ~ValidPayload(body[i])}
      Until(S, i) == Cardinality(S \cap 1..i)
  IN [ chunks |-> [i \in DOMAIN body |->
                     IF i \in payloads /\ ValidPayload(body[i]) THEN body[i].json.list ELSE <<>>],
       failed |-> awaits[Len(body)] \/ \E i \in bad : Exceeded(Until(records, i), Until(bad, i)) ]

-----------------------------------------------------------------------------
(* decode.go: the frames of one rpc *)

\* A frame has a place: its line, and its position there.
Places(chunks)   == UNION {{<<i, j>> : j \in DOMAIN chunks[i]} : i \in DOMAIN chunks}
FramesOf(chunks) == [p \in Places(chunks) |-> chunks[p[1]][p[2]]]

Before(p, q)        == p[1] < q[1] \/ (p[1] = q[1] /\ p[2] < q[2])
FirstPlace(places)  == CHOOSE p \in places : \A q \in places : q = p \/ Before(p, q)
LastPlace(places)   == CHOOSE p \in places : \A q \in places : q = p \/ Before(q, p)

\* Op of the frames; nothing is taken from a body with too many bad lines.
OfFrames(Op(_), body) ==
  LET Taken(parsed) == IF parsed.failed THEN [err |-> "malformed"] ELSE Once(Op, FramesOf(parsed.chunks))
  IN Once(Taken, ParseChunked(body))

\* frame[i] as a string, "" when it is none.
Field(frame, i) == OptStr(frame, Slot(i))
IsAnswer(frame, id) == Field(frame, 0) = "wrb.fr" /\ Field(frame, 1) = id
Names(frame) == Len(frame.list) >= 2 /\ Field(frame, 0) \in {"wrb.fr", "er"} /\ Field(frame, 1) # ""

CollectRPCIDs(frames) == {Field(f, 1) : f \in {g \in ToSet(frames) : Names(g)}}

\* The text of a null: empty, or an encoded null.
IsNullish(v) == (Is("str", v) /\ v.str = "") \/ (Is("text", v) /\ Is("null", v.text))
IsText(v)    == Is("str", v) \/ Is("text", v)
Content(v)   == IF Is("text", v) THEN v.text ELSE NotJSON

HasResult(frame, id) ==
  /\ Len(frame.list) >= 3 /\ IsAnswer(frame, id)
  /\ IsText(frame.list[3]) /\ ~IsNullish(frame.list[3])

ResultOf(frame)     == Content(frame.list[3])
Results(frames, id) == {p \in DOMAIN frames : HasResult(frames[p], id)}

Picked(Pick(_), frames, results) ==
  IF results = {} THEN [err |-> "decoding"] ELSE [val |-> ResultOf(frames[Pick(results)])]

\* Seeded fault: the first result of the rpc, not the last.
FaultExtractFirst(body, id) ==
  OfFrames(LAMBDA frames : Picked(FirstPlace, frames, Results(frames, id)), body)

\* The last non-null result of the rpc; "decoding" stands for ErrDecoding.
ExtractResult(body, id) ==
  OfFrames(LAMBDA frames : Picked(LastPlace, frames, Results(frames, id)), body)

\* Slot 5 of a null frame: a list, or the text of one.
Captured(frame) ==
  LET slot == At(frame, Slot(5))
      list == IF Found(slot) /\ Is("text", slot.ok) THEN slot.ok.text ELSE OrElse(slot, Null)
  IN IF Is("list", list) THEN <<list.list>> ELSE <<>>

NoValue(frame) == Is("null", frame.list[3]) \/ IsNullish(frame.list[3])
ValueOf(frame) == IF IsText(frame.list[3]) THEN Content(frame.list[3]) ELSE frame.list[3]
HasStatus(frame) == NoValue(frame) /\ Captured(frame) # <<>>

\* The last value and the last status among the frames of the rpc, each at most
\* one.  A frame with no slot 2 is an index out of range.
Scan(frames, id) ==
  LET mine   == {p \in DOMAIN frames : IsAnswer(frames[p], id)}
      values == {p \in mine : ~NoValue(frames[p])}
      nulls  == {p \in mine : HasStatus(frames[p])}
  IN IF \E p \in mine : Len(frames[p].list) < 3 THEN [panic |-> TRUE]
     ELSE [ raw    |-> IF values = {} THEN <<>> ELSE <<ValueOf(frames[LastPlace(values)])>>,
            status |-> IF nulls = {} THEN <<>> ELSE Captured(frames[LastPlace(nulls)])[1] ]

GrpcStatus(status) ==
  IF status # <<>> /\ Is("num", status[1]) THEN status[1].num ELSE -1

\* Seeded fault: every null is success.
FaultClassify(st, named, id, allowNull) ==
  IF st.raw # <<>> THEN [val |-> st.raw[1]] ELSE [val |-> Null]

\* The tree of DecodeResponse, once the frames are read.
Classify(st, named, id, allowNull) ==
  LET code   == GrpcStatus(st.status)
      reason == CASE code = 5                         -> "not_found"
                  [] code = 7                         -> "permission"
                  [] code >= 0 /\ code \notin {5, 7}  -> "rpc"
                  [] code < 0                         -> "empty"
  IN IF id \notin named THEN [err |-> IF named = {} THEN "no_rpcs" ELSE "unknown_rpc"]
     ELSE IF st.raw # <<>> THEN [val |-> st.raw[1]]
     ELSE IF allowNull THEN [val |-> Null]
     ELSE [err |-> reason]

\* A value (Null for an allowed null), an error, or the panic of Scan.
DecodeResponse(body, id, allowNull) ==
  LET Decide(frames) ==
        Once(LAMBDA st : IF Is("panic", st) THEN [err |-> "panic"]
                         ELSE Classify(st, CollectRPCIDs(frames), id, allowNull),
             Scan(frames, id))
  IN OfFrames(Decide, body)
=============================================================================
