----------------------------- MODULE ChatStream -----------------------------
(***************************************************************************)
(* internal/web/rows/{chatstream,chat,utf16}.go and params/chatstream.go:   *)
(* the request of a question, the answer put together from the lines of a   *)
(* streamed reply, its citations, and the history of a conversation.  No    *)
(* namespace of the SDK calls them yet.                                    *)
(*                                                                         *)
(* wire.Unmarshal makes a json.Number of every number.  asIndex takes one;  *)
(* the readers that expect an int or a float64 never find theirs, so the    *)
(* next steps, the scores and the number of an "e" frame are always absent  *)
(* and have no definition here.                                            *)
(***************************************************************************)
EXTENDS Features

CONSTANTS
  IsUUID(_),
  MaxNesting      \* how deep a source id is looked for, 10 in the code

-----------------------------------------------------------------------------
(* params/chatstream.go *)

Placeholder == "__NOTEBOOKLM_CHATSTREAM_NOTEBOOK_ID__"

\* nil, which is null on the wire, for no ids.
NestSourceIDs(ids) == IF ids = <<>> THEN Null ELSE Row(Mapped(LAMBDA id : Row(<<Row(<<JStr(id)>>)>>), ids))

BuildChatStreamRequest(c) ==
  Checked(c.query # "",
          Sends("Chat", Row(<<NestSourceIDs(c.about), JStr(c.query), Null, Row(<<JStr("")>>), JStr(c.conv),
                              Null, Null, JStr(Placeholder), JNum(1)>>), FALSE))

-----------------------------------------------------------------------------
(* chatstream.go: citations *)

\* The first string in a tree that looks like an id, "" when there is none.  A list
\* gives way to its elements, a level at a time.
ExtractUUID(v, depth) ==
  LET Opened(w) == IF Is("list", w) THEN w.list ELSE <<w>>
      level[d \in 1..depth] ==
        IF d = 1 THEN <<v>> ELSE FlattenSeq(Mapped(Opened, level[d - 1]))
      FirstId(leaves) ==
        LET ids == {i \in DOMAIN leaves : Is("str", leaves[i]) /\ IsUUID(leaves[i].str)}
        IN IF ids = {} THEN "" ELSE leaves[Min(ids)].str
  IN Once(FirstId, level[depth])

Block(el) == [from |-> IntAt(el, Slot(0)), to |-> IntAt(el, Slot(1)), text |-> StrAt(el, Slot(2))]

BuildBlocks(elements) ==
  LET Usable(b) == Found(b.from) /\ Found(b.to) /\ Found(b.text) /\ b.to.ok > b.from.ok
      Plain(b)  == [from |-> b.from.ok, to |-> b.to.ok, text |-> b.text.ok]
  IN SortSeq(Mapped(Plain, SelectSeq(Mapped(Block, elements), Usable)), LAMBDA b, d : b.from < d.from)

UTF16Slice(s, lo, hi) ==
  LET end == IF hi > Len(s) THEN Len(s) ELSE hi
      first == IF lo < 0 THEN 0 ELSE IF lo > end THEN end ELSE lo
  IN SubSeq(s, first + 1, end)

\* What an earlier block has not covered.
Uncovered(b, cursor) ==
  IF b.from < cursor /\ cursor - b.from <= Len(b.text)
  THEN UTF16Slice(b.text, cursor - b.from, Len(b.text)) ELSE b.text

\* Blocks in order of their start; an inner block adds nothing.
ExtractTextPassages(blocks) ==
  LET Add(acc, b) ==
        IF b.to <= acc.cursor THEN acc
        ELSE [text |-> acc.text \o Uncovered(b, acc.cursor), cursor |-> b.to]
  IN IF blocks = <<>> THEN [text |-> "", cursor |-> 0]
     ELSE FoldLeft(Add, [text |-> "", cursor |-> blocks[1].from], blocks)

\* [null, start, end]: both absent, or in order.
ExtractFragmentRange(detail) ==
  LET from == IntAt(detail, <<JNum(3), JNum(0), JNum(1)>>)
      to   == IntAt(detail, <<JNum(3), JNum(0), JNum(2)>>)
  IN IF Found(from) /\ Found(to) /\ 0 <= from.ok /\ from.ok <= to.ok THEN <<from.ok, to.ok>> ELSE <<0, 0>>

Reference(cite, number) ==
  LET detail   == At(cite, Slot(1)).ok
      blocks   == BuildBlocks(OrElse(ListAt(detail, <<JNum(4), JNum(0)>>), <<>>))
      passages == ExtractTextPassages(blocks)
      ids      == At(detail, Slot(5))
  IN [ source   |-> IF Found(ids) THEN ExtractUUID(ids.ok, MaxNesting) ELSE "",
       text     |-> passages.text,
       from     |-> IF blocks = <<>> THEN 0 ELSE blocks[1].from,
       to       |-> passages.cursor,
       chunk    |-> OptStr(cite, <<JNum(0), JNum(0)>>),
       fragment |-> ExtractFragmentRange(detail),
       number   |-> number ]

HasDetail(cite) == Found(At(cite, Slot(1))) /\ Is("list", At(cite, Slot(1)).ok)

\* Seeded fault: the survivors are numbered anew.
FaultParseCitations(cites) ==
  LET usable == SelectSeq(cites, LAMBDA c : HasDetail(c) /\ Reference(c, 0).source # "")
  IN [i \in DOMAIN usable |-> Reference(usable[i], i)]

\* A row that is left out leaves a hole in the numbers.
ParseCitations(cites) ==
  LET rows == [i \in DOMAIN cites |-> IF HasDetail(cites[i]) THEN Reference(cites[i], i) ELSE [source |-> ""]]
  IN SelectSeq(rows, LAMBDA r : r.source # "")

-----------------------------------------------------------------------------
(* chatstream.go: one line *)

NoTurn  == <<>>
NoChunk == [parseable |-> FALSE, text |-> "", isAnswer |-> FALSE, final |-> FALSE, refs |-> <<>>,
            conversation |-> "", turn |-> NoTurn]

\* Session, turn and code; the last two may be missing.
TurnKey(first) ==
  LET session == OptStr(first, <<JNum(2), JNum(0)>>)
  IN IF session = "" THEN NoTurn
     ELSE <<session, OptStr(first, <<JNum(2), JNum(1)>>),
            OrElse(IntAt(first, <<JNum(2), JNum(2)>>), None)>>

IsMarked(first)   == IntAt(first, <<JNum(4), JNum(4)>>) = Ok(1)
IsFinal(envelope) == BoolAt(envelope, Slot(4)) = Ok(TRUE)

\* A slot that holds something else than a list is drift: the text is kept, the rest
\* is not.
Answered(envelope, first) ==
  LET cites   == At(first, <<JNum(4), JNum(3)>>)
      drifted == Found(cites) /\ DOMAIN cites.ok \cap {"list", "null"} = {}
      kept    == [ NoChunk EXCEPT !.parseable = TRUE, !.text = OptStr(first, Slot(0)),
                                  !.isAnswer = IsMarked(first),
                                  !.conversation = OptStr(first, <<JNum(2), JNum(0)>>) ]
  IN IF drifted THEN kept
     ELSE [ kept EXCEPT !.final = IsFinal(envelope),
                        !.refs = ParseCitations(OrElse(ListAt(first, <<JNum(4), JNum(3)>>), <<>>)) ]

Envelope(frame) == frame.list[3].text
First(frame)    == At(Envelope(frame), Slot(0))
Opens(frame)    == Len(frame.list) >= 3 /\ Field(frame, 0) = "wrb.fr" /\ Is("text", frame.list[3])
HasFirst(frame) == Opens(frame) /\ Found(First(frame)) /\ Is("list", First(frame).ok)
Answers(frame)  == HasFirst(frame) /\ OptStr(First(frame).ok, Slot(0)) # ""
HasTurn(frame)  == HasFirst(frame) /\ TurnKey(First(frame).ok) # NoTurn

\* An "er" frame, or a null result with a status.
Rejects(frame) ==
  \/ Field(frame, 0) = "er"
  \/ /\ Len(frame.list) >= 3 /\ Field(frame, 0) = "wrb.fr" /\ ~IsText(frame.list[3])
     /\ Found(At(frame, Slot(5))) /\ Is("list", At(frame, Slot(5)).ok)

\* The positions of the frames of a line, up to the first one that rejects or answers.
Read(line) ==
  LET frames == {i \in DOMAIN line : Is("list", line[i]) /\ Len(line[i].list) >= 2}
      ends   == {i \in frames : Rejects(line[i]) \/ Answers(line[i])}
  IN {i \in frames : \A j \in ends : i <= j}

ExtractFrames(line, read) ==
  LET turns == {i \in read : HasTurn(line[i])}
      last  == line[Max(read)]
      found == IF Answers(last) THEN Answered(Envelope(last), First(last).ok)
               ELSE [NoChunk EXCEPT !.parseable = \E i \in read : Opens(line[i])]
  IN IF read = {} THEN NoChunk
     ELSE IF Rejects(last) THEN [err |-> "chat"]
     ELSE IF turns = {} THEN found
     ELSE [found EXCEPT !.turn = TurnKey(First(line[Max(turns)]).ok)]

ExtractChunk(line) ==
  IF ~Is("json", line) \/ ~Is("list", line.json) THEN NoChunk
  ELSE Once(LAMBDA frames : ExtractFrames(frames, Read(frames)), line.json.list)

-----------------------------------------------------------------------------
(* chatstream.go: the whole reply *)

\* What the lines say: the line after a header, whatever it is; other lines but the
\* blank ones.
Chunks(body) ==
  LET awaits == Awaits(body)
  IN [i \in DOMAIN body |->
        IF awaits[i - 1] \/ ~(Is("blank", body[i]) \/ Is("count", body[i]))
        THEN ExtractChunk(body[i]) ELSE NoChunk]

\* The first of the longest texts.
Longest(chunks, places) ==
  CHOOSE i \in places :
    \A j \in places :
      \/ Len(chunks[j].text) < Len(chunks[i].text)
      \/ Len(chunks[j].text) = Len(chunks[i].text) /\ i <= j

\* Seeded fault: the longest draft counts, although a final answer came.
FaultSelectAnswer(chunks) ==
  LET texts  == {i \in DOMAIN chunks : chunks[i].text # ""}
      marked == {i \in texts : chunks[i].isAnswer}
  IN IF marked # {} THEN chunks[Longest(chunks, marked)]
     ELSE IF texts # {} THEN chunks[Longest(chunks, texts)]
     ELSE NoChunk

\* The last final answer, else the longest answer, else the longest text.
SelectAnswer(chunks) ==
  LET texts  == {i \in DOMAIN chunks : chunks[i].text # ""}
      marked == {i \in texts : chunks[i].isAnswer}
      final  == {i \in marked : chunks[i].final}
  IN IF final # {} THEN chunks[Max(final)]
     ELSE IF marked # {} THEN chunks[Longest(chunks, marked)]
     ELSE IF texts # {} THEN chunks[Longest(chunks, texts)]
     ELSE NoChunk

LastOf(values, absent) ==
  LET there == SelectSeq(values, LAMBDA v : v # absent) IN IF there = <<>> THEN absent ELSE Last(there)

Assemble(chunks) ==
  LET best == SelectAnswer(chunks)
  IN IF \E c \in ToSet(chunks) : Is("err", c) THEN Failed("chat")
     ELSE IF \A c \in ToSet(chunks) : ~c.parseable THEN Failed("parse")
     ELSE View([ answer |-> best.text, refs |-> best.refs,
                 conversation |-> LastOf(Mapped(LAMBDA c : c.conversation, chunks), ""),
                 turn |-> LastOf(Mapped(LAMBDA c : c.turn, chunks), NoTurn) ])

ParseChatStream(body) == Once(Assemble, Chunks(body))
=============================================================================
