----------------------------- MODULE ChatHistory -----------------------------
(***************************************************************************)
(* internal/web/rows/chat.go: the history of a conversation, in the three   *)
(* shapes a reply may have, and the passage of an answer that a citation    *)
(* marks.                                                                  *)
(***************************************************************************)
EXTENDS ChatStream

\* A set of at most one id with its turns.
NoEnvelope == {}

StartUTF16(cite) == OrElse(IntAt(cite, <<JNum(2), JNum(0)>>), 0)
EndUTF16(cite)   == OrElse(IntAt(cite, <<JNum(2), JNum(1)>>), 0)

\* A row without a source id in slot 1 is left out.
DecodeCitations(cites) ==
  Mapped(LAMBDA c : [source |-> StrAt(c, Slot(1)).ok, from |-> StartUTF16(c), to |-> EndUTF16(c)],
         SelectSeq(cites, LAMBDA c : Is("list", c) /\ Found(StrAt(c, Slot(1)))))

FlattenCitations(cites) == Mapped(LAMBDA c : c.source, SelectSeq(cites, LAMBDA c : c.source # ""))

DecodeTurn(row) ==
  LET cites == DecodeCitations(OrElse(ListAt(row, <<JNum(1), JNum(1)>>), <<>>))
  IN [ author  |-> StrAt(row, Slot(0)).ok,
       text    |-> OptStr(row, <<JNum(1), JNum(0)>>),
       sources |-> FlattenCitations(cites),
       cites   |-> cites,
       created |-> OrElse(IntAt(row, Slot(2)), None) ]

\* A row without an author is left out.
DecodeTurns(rows) ==
  Mapped(DecodeTurn, SelectSeq(rows, LAMBDA row : Is("list", row) /\ Found(StrAt(row, Slot(0)))))

\* [id, turns], or [turns, id]; the second slot of a frame is a string, so that a
\* frame is no envelope.
TryHistoryEnvelope(v) ==
  LET Holds(kind, i) == Found(At(v, Slot(i))) /\ Is(kind, At(v, Slot(i)).ok)
      IdAt(i)        == Holds("str", i) /\ StrAt(v, Slot(i)).ok # ""
      places         == {p \in {<<0, 1>>, <<1, 0>>} : IdAt(p[1]) /\ Holds("list", p[2])}
  IN {[id |-> v.list[p[1] + 1].str, turns |-> DecodeTurns(v.list[p[2] + 1].list)] : p \in places}

\* The envelope at a path, if there is one.
EnvelopeAt(payload, path) ==
  UNION {TryHistoryEnvelope(r.ok) : r \in {s \in {At(payload, path)} : Found(s)}}

HasBareId(payload) == OptStr(payload, Slot(3)) # ""

\* The id of slot 3 counts, whatever the envelope of slot 4 says.
FromSlotB(payload, envelopes) ==
  {[id    |-> OptStr(payload, Slot(3)),
    turns |-> IF envelopes = NoEnvelope THEN <<>> ELSE (CHOOSE e \in envelopes : TRUE).turns]}

\* The envelope of slot 3, or the id there, or the payload itself is the envelope.
Chosen(payload, envelope) ==
  IF envelope[Slot(3)] # NoEnvelope THEN envelope[Slot(3)]
  ELSE IF HasBareId(payload) THEN FromSlotB(payload, envelope[Slot(4)])
  ELSE envelope[<<>>]

Conversations(payload) == Chosen(payload, [path \in {Slot(3), Slot(4), <<>>} |-> EnvelopeAt(payload, path)])

\* One JSON value.
IsDocument(body) == Len(body) = 1 /\ Is("json", body[1])

DecodeChatHistory(body) ==
  IF ~IsDocument(body) THEN Failed("json")
  ELSE LET Conversation(found) == IF found = {} THEN Failed("shape") ELSE View(CHOOSE c \in found : TRUE)
       IN Once(Conversation, Once(Conversations, body[1].json))

ExtractConversationID(body) ==
  LET FromPayload(payload) ==
        LET ids == {e.id : e \in EnvelopeAt(payload, Slot(3))}
        IN IF ids # {} THEN View(CHOOSE id \in ids : TRUE)
           ELSE IF HasBareId(payload) THEN View(OptStr(payload, Slot(3)))
           ELSE Failed("shape")
  IN IF ~IsDocument(body) THEN Failed("json") ELSE Once(FromPayload, body[1].json)

SliceAnswerByCitation(answer, cite) ==
  IF answer = "" \/ cite.source = "" THEN "" ELSE UTF16Slice(answer, cite.from, cite.to)

-----------------------------------------------------------------------------
(* A caller: one question, or the history of one conversation. *)

ChatRequest(c) ==
  CASE c.op = "Ask" -> BuildChatStreamRequest(c)
    [] c.op \in {"History", "ConversationID"} -> Sends("GetConversationTurns", Row(<<JStr(c.conv)>>), FALSE)

ChatAnswer(c, body) ==
  CASE c.op = "Ask"            -> ParseChatStream(body)
    [] c.op = "History"        -> DecodeChatHistory(body)
    [] c.op = "ConversationID" -> ExtractConversationID(body)
=============================================================================
