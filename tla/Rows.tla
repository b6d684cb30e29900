-------------------------------- MODULE Rows --------------------------------
(***************************************************************************)
(* internal/web/rows/{notebooks,sources}.go and the envelopes around the   *)
(* rows: what the feature calls of internal/web/features and the           *)
(* namespaces of notebooklm/ read out of one decoded payload.              *)
(*                                                                         *)
(* A decoder returns [val |-> view] or [err |-> "drift"].  An absent       *)
(* number is None, an absent string "".                                    *)
(***************************************************************************)
EXTENDS Wire

CONSTANTS
  TrimAll(_),      \* the string without the white space around it
  CutThought(_)    \* the string without a leading "thought\n"

None == -1
View(v) == [val |-> v]
ShapeDrift == [err |-> "drift"]

-----------------------------------------------------------------------------
(* notebooks.go *)

SharePermissionOwner == 1

NoMetadata == [role |-> None, viewed |-> None, created |-> None, emoji |-> "", sources |-> 0]
NoNotebook == [id |-> "", title |-> "", shared |-> FALSE, created |-> None, metadata |-> {}]

StripThoughtPrefix(title) == TrimAll(CutThought(title))

\* The first number of the list in a slot, unless it is 0.
ReadTimestamp(meta, slot) ==
  LET secs == IntAt(meta, <<JNum(slot), JNum(0)>>)
  IN IF Found(secs) /\ secs.ok # 0 THEN secs.ok ELSE None

Role(meta) == OrElse(OptInt(meta, Slot(0)), None)

\* metadata is a singleton when any of its fields was on the wire.
DecodeNotebook(row) ==
  LET title   == OptStr(row, Slot(0))
      sources == OptList(row, Slot(1))
      emoji   == StrAt(row, Slot(3))
      metas   == OptList(row, Slot(5))
      meta    == IF Found(metas) THEN JList(metas.ok) ELSE JList(<<>>)
      hasMeta == meta.list # <<>>
  IN IF Is("null", row) THEN NoNotebook
     ELSE [ id       |-> OptStr(row, Slot(2)),
            title    |-> IF title = "" THEN "" ELSE StripThoughtPrefix(title),
            shared   |-> Role(meta) \notin {None, SharePermissionOwner},
            created  |-> ReadTimestamp(meta, 8),
            metadata |-> IF ~Found(sources) /\ ~Found(emoji) /\ ~hasMeta THEN {}
                         ELSE {[ role    |-> Role(meta),
                                 viewed  |-> ReadTimestamp(meta, 5),
                                 created |-> ReadTimestamp(meta, 8),
                                 emoji   |-> OrElse(emoji, ""),
                                 sources |-> IF Found(sources) THEN Len(sources.ok) ELSE 0 ]} ]

ValidNotebookID(id) == id # "" /\ TrimAll(id) = id

-----------------------------------------------------------------------------
(* sources.go *)

NoSource == [id |-> "", title |-> "", kind |-> "", status |-> ""]

\* The id is the first slot, or heads the list there, or heads the third
\* element of that list.
ExtractSourceID(row) ==
  LET ids == <<StrAt(row, Slot(0)), StrAt(row, <<JNum(0), JNum(0)>>),
               StrAt(row, <<JNum(0), JNum(2), JNum(0)>>)>>
      usable == {i \in 1..3 : Found(ids[i]) /\ ids[i].ok # ""}
  IN IF usable = {} THEN "" ELSE ids[Min(usable)].ok

SourceStatus == <<"PROCESSING", "READY", "ERROR">>
SourceKinds  == <<"url", "youtube", "drive", "text", "file">>

Named(names, r) == IF Found(r) /\ r.ok \in DOMAIN names THEN names[r.ok] ELSE ""

DecodeStatusLabel(row) == Named(SourceStatus, IntAt(row, <<JNum(3), JNum(1)>>))
DecodeSourceKind(row)  == Named(SourceKinds, IntAt(row, <<JNum(2), JNum(4)>>))

DecodeSource(row) ==
  IF Is("null", row) THEN NoSource
  ELSE [id |-> ExtractSourceID(row), title |-> OptStr(row, Slot(1)),
        kind |-> DecodeSourceKind(row), status |-> DecodeStatusLabel(row)]

-----------------------------------------------------------------------------
(* notebooklm/notebooks.go: envelopes of the public namespace.  raw is the  *)
(* decoded list, empty for the nil of an absent result.                    *)

Capped(s, maxItems) == IF maxItems > 0 /\ Len(s) > maxItems THEN SubSeq(s, 1, maxItems) ELSE s
Mapped(Op(_), s)    == Once(LAMBDA t : [i \in DOMAIN t |-> Op(t[i])], s)

\* Anything that is no list of rows is an empty page.
PageFromList(raw, maxItems) ==
  IF raw = <<>> \/ ~Is("list", raw[1]) THEN View(<<>>)
  ELSE View(Capped(Mapped(DecodeNotebook, raw[1].list), maxItems))

NotebookFromEnvelope(raw) ==
  View(IF raw = <<>> THEN NoNotebook ELSE DecodeNotebook(JList(raw)))

Topics(list) ==
  Mapped(LAMBDA row : [question |-> OptStr(row, Slot(0)), prompt |-> OptStr(row, Slot(1))],
         SelectSeq(list, LAMBDA row : Is("list", row) /\ Len(row.list) >= 2))

\* result[0][0][0] and the rows of result[0][1][0].
SummaryFromEnvelope(raw) ==
  LET v == JList(raw)
      topics == At(v, <<JNum(0), JNum(1), JNum(0)>>)
  IN View([summary |-> OptStr(v, <<JNum(0), JNum(0), JNum(0)>>),
           topics  |-> IF Found(topics) /\ Is("list", topics.ok) THEN Topics(topics.ok.list) ELSE <<>>])

NoShare == [id |-> "", public |-> FALSE, access |-> 0, people |-> {}]

Number(v)   == OrElse(IntAt(v, <<>>), 0)
People(v)   == IF ~Is("list", v) THEN {}
               ELSE {[email |-> OptStr(r, Slot(0)), role |-> Number(r.list[2])] :
                       r \in {q \in ToSet(v.list) : /\ Is("list", q) /\ Len(q.list) >= 2
                                                    /\ IsText(q.list[1]) /\ Number(q.list[2]) # 0}}

\* Slot 1 of the first list is read after a look at its slot 0 only: a list of
\* one element is an index out of range, outside the recover of call.
ShareStateFromEnvelope(raw) ==
  LET first == IF raw = <<>> \/ ~Is("list", raw[1]) THEN <<>> ELSE raw[1].list
      level == IntAt(JList(raw), <<JNum(1), JNum(0)>>)
      lists == {i \in 3..Len(raw) : People(raw[i]) # {}}
  IN IF first = <<>> THEN View(NoShare)
     ELSE IF Len(first) = 1 THEN [err |-> "panic"]
     ELSE View([ id     |-> OptStr(raw[1], Slot(0)),
                 public |-> OptBool(raw[1], Slot(1)),
                 access |-> OrElse(level, 0),
                 people |-> IF lists = {} THEN {} ELSE People(raw[Min(lists)]) ])

-----------------------------------------------------------------------------
(* internal/web/features: the same envelopes, with drift for a shape nobody *)
(* sends.  v is the payload, Null for the nil of an allowed null.           *)

\* features/sources.go and notebooks.go: the rows at a path, none when a list
\* on the way is null or ends early, drift when it is no list.
Rest(v) == [rest |-> v]

Enter(r, idx) ==
  IF ~Is("rest", r) THEN r
  ELSE IF Is("null", r.rest) THEN View(<<>>)
  ELSE IF ~Is("list", r.rest) THEN ShapeDrift
  ELSE IF idx >= Len(r.rest.list) THEN View(<<>>)
  ELSE Rest(r.rest.list[idx + 1])

RowsOf(r) ==
  IF ~Is("rest", r) THEN r
  ELSE IF Is("null", r.rest) THEN View(<<>>)
  ELSE IF Is("list", r.rest) THEN View(r.rest.list)
  ELSE ShapeDrift

RowsAt(v, path) ==
  LET walk[k \in 0..Len(path)] == IF k = 0 THEN Rest(v) ELSE Enter(walk[k - 1], path[k])
  IN RowsOf(walk[Len(path)])

WithRows(rows, Op(_)) ==
  Once(LAMBDA r : IF Is("val", r) THEN View(Mapped(Op, r.val)) ELSE r, rows)

DecodeNotebookRows(v) == WithRows(RowsAt(v, <<0>>), DecodeNotebook)
DecodeSourceRows(v)   == WithRows(RowsAt(v, <<0, 1>>), DecodeSource)

\* The added row heads the payload; no payload is the zero Source.
DecodeAddedSourceRow(v) ==
  View(IF ~Is("list", v) \/ v.list = <<>> THEN NoSource ELSE DecodeSource(v.list[1]))

\* features.Get: the row heads the payload; an empty payload is ErrNotFound.
DecodeGet(v) ==
  IF ~Is("list", v) \/ v.list = <<>> THEN [err |-> "not_found"] ELSE View(DecodeNotebook(v.list[1]))

DecodeDescription(v) == SummaryFromEnvelope(IF Is("list", v) THEN v.list ELSE <<>>)
=============================================================================
