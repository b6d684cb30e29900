--------------------------------- MODULE Sdk ---------------------------------
(***************************************************************************)
(* One call of the public SDK from its arguments to what it returns: the    *)
(* checks, the payload, the POSTs with their retries, the body and its      *)
(* decoding, for every method of the Notebooks and Sources namespaces,      *)
(* Resolve, ResolveID, the feature calls, and a caller that streams an       *)
(* answer or reads a conversation with the parsers of internal/web/rows.    *)
(*                                                                         *)
(* The server is the environment.  It reads a payload by position, applies  *)
(* it, and wraps the answer as batchexecute does; other users edit its      *)
(* notebooks meanwhile.  RPCCall is seen from outside: Chain and Client      *)
(* model its steps.                                                        *)
(***************************************************************************)
EXTENDS ChatHistory, FiniteSets

CONSTANTS
  NbIds,        \* the ids of notebooks
  SourceIds,    \* the ids of sources, a sequence
  Servers,      \* the notebooks there may be at first
  Calls,        \* the calls a caller may make
  Shapes,       \* what GetNotebook answers with: the row, or a list that holds it
  MaxRetries,   \* 5 in the code
  MaxEdits,     \* bound on what other users do during the call
  MaxLines,     \* bound on what a streamed answer says
  Passage       \* the text of every source

\* The methods of each namespace.
Methods ==
  [ notebooks |-> {"List", "GetRecent", "GetStarred", "GetSharedWithMe", "GetByProject", "Create", "Get",
                   "Metadata", "Summary", "Delete", "Rename", "Share", "Unshare", "GetShareStatus",
                   "RemoveCollaborator", "AddSource", "RemoveSource"},
    features  |-> {"List", "Get", "Summary", "Describe", "Create", "Delete", "Rename", "Share", "Unshare",
                   "RemoveFromRecent", "RemoveCollaborator"},
    sources   |-> {"List", "AddURL", "AddYouTube", "AddText", "AddFile", "AddDrive"},
    resolve   |-> {"Resolve"},
    resolveID |-> {"ResolveID"},
    chat      |-> {"Ask", "History", "ConversationID"} ]

\* What the server keeps of a notebook.
NotebookFields == {"live", "title", "public", "guest", "sources"}

\* The texts that a stream says: a thought, drafts, and an answer shorter than a draft.
Texts == {"thinking", "al", "alpha", "alp"}

ASSUME SdkAssumption ==
  /\ MaxRetries \in Nat
  /\ MaxEdits \in Nat
  /\ MaxLines \in Nat
  /\ Shapes \subseteq {"row", "wrapped"}
  /\ IsFiniteSet(NbIds)
  /\ \A s \in Servers : DOMAIN s = NbIds /\ \A n \in NbIds : DOMAIN s[n] = NotebookFields
  /\ \A c \in Calls : "nb" \in DOMAIN c /\ c.api \in DOMAIN Methods /\ c.op \in Methods[c.api]
  /\ TrimAll("") = "" /\ StripThoughtPrefix("") = ""
  /\ \A text \in Texts : Len(text) \in Nat

VARIABLES
  nbs,       \* the server's notebooks, by id
  shape,
  pc,        \* "idle", "posted", "pausing", "streaming", "answered", "returned"
  call,      \* the arguments
  leg,       \* which rpc of the call
  request,
  tries,     \* POSTs of this rpc that failed
  body,      \* the body the chain handed back
  result,
  \* history
  reply,     \* what the last body is: "answer", "missing", "denied", "page"
  served,    \* the notebooks right after the answer to a leg, if it was answered
  seen,      \* the ids and titles there were during the call
  added,     \* what the call made: notebooks and sources
  edits,
  sent        \* what a streamed answer has said

wire    == <<body, reply>>
history == <<served, seen, added, edits, sent>>
vars    == <<nbs, shape, pc, call, leg, request, tries, wire, result, history>>

Live(s) == {n \in NbIds : s[n].live}
\* Ids and titles, as a row shows them.
Labels(s) == {[id |-> n, title |-> StripThoughtPrefix(s[n].title)] : n \in Live(s)}

-----------------------------------------------------------------------------
(* The server: rows *)

KindCode(kind) == CHOOSE k \in DOMAIN SourceKinds : SourceKinds[k] = kind

SourceRow(s) ==
  JList(<<JStr(s.id), JStr(s.text), JList(Nulls(4) \o <<JNum(KindCode(s.kind))>>),
          JList(<<Null, JNum(2)>>)>>)

NotebookRow(s, n) ==
  JList(<<JStr(s[n].title), JList(Mapped(SourceRow, s[n].sources)), JStr(n), Null, Null,
          JList(<<JNum(SharePermissionOwner)>>)>>)

NotebookRows(s) == JList(<<JList(Mapped(LAMBDA n : NotebookRow(s, n), SetToSeq(Live(s))))>>)

Shaped(row) == IF shape = "row" THEN row ELSE JList(<<row>>)

ShareRow(s, n) ==
  JList(<<JList(<<JStr(n), JBool(s[n].public)>>), JList(<<JNum(IF s[n].public THEN 1 ELSE 0)>>),
          JList(<<JList(<<JStr(s[n].guest), JNum(3)>>)>>)>>)

SummaryRow ==
  JList(<<JList(<<JList(<<JStr("about")>>),
                  JList(<<JList(<<JList(<<JStr("why"), JStr("ask")>>)>>)>>)>>)>>)

-----------------------------------------------------------------------------
(* The server: an outcome is the notebooks after it, its answer, and what it *)
(* made.  Null answers a mutation.                                          *)

Outcome(s, answer, made) == [nbs |-> s, answer |-> answer, made |-> made]
Says(answer)             == Outcome(nbs, answer, {})
Changes(s)               == Outcome(s, Null, {})

\* The spec of a source that is added.
SpecOf(payload) == JList(OrElse(ListAt(payload, <<JNum(0), JNum(0)>>), <<>>))

\* The kind of an added source is told by the slot that is filled: so say the documents and
\* the comments at the specs.  The code behind it is 1 for every kind and tells none.
SlotOf == [ file    |-> Slot(0),
            drive   |-> <<JNum(0), JNum(0)>>,
            text    |-> <<JNum(1), JNum(1)>>,
            url     |-> <<JNum(2), JNum(0)>>,
            youtube |-> <<JNum(7), JNum(0)>> ]

Filled(spec) ==
  {r \in {<<kind, StrAt(spec, SlotOf[kind])>> : kind \in DOMAIN SlotOf} : Found(r[2])}

\* Where the documents put the source-type code of every kind.  A server that goes by them
\* finds nothing to add in a spec without it; one that goes by the filled slot does.
CodeSlot == 10
Coded(spec, i) == IntAt(spec, Slot(i)) = Ok(1)
Unread(r) == r.rpc = "AddSource" /\ ~Coded(SpecOf(r.payload), CodeSlot)

AddsSource(payload) ==
  LET nb == OptStr(payload, Slot(1))
      Made(f) ==
        LET src == [id |-> SourceIds[Len(nbs[nb].sources) + 1], kind |-> f[1], text |-> f[2].ok]
        IN Outcome([nbs EXCEPT ![nb].sources = Append(@, src)], JList(<<SourceRow(src)>>),
                   {[nb |-> nb, id |-> src.id, kind |-> src.kind, text |-> src.text]})
  IN IF nb \notin Live(nbs) \/ Len(nbs[nb].sources) >= Len(SourceIds) THEN {}
     ELSE {Made(f) : f \in Once(Filled, SpecOf(payload))}

Creates(title) ==
  {LET after == [nbs EXCEPT ![n].live = TRUE, ![n].title = title]
   IN Outcome(after, NotebookRow(after, n),
              {[nb |-> n, id |-> n, kind |-> "notebook", text |-> title]})
     : n \in NbIds \ Live(nbs)}

Shares(payload) ==
  LET row == <<JNum(0), JNum(0)>>
      n   == OptStr(payload, row \o Slot(0))
      who == StrAt(payload, row \o <<JNum(1), JNum(0), JNum(0)>>)
      on  == IntAt(payload, row \o <<JNum(2), JNum(0)>>)
  IN IF n \notin Live(nbs) THEN {}
     ELSE IF Found(who) THEN {Changes([nbs EXCEPT ![n].guest = IF @ = who.ok THEN "" ELSE @])}
     ELSE IF Found(on) THEN {Changes([nbs EXCEPT ![n].public = on.ok = 1])}
     ELSE {}

Renames(payload) ==
  LET n     == OptStr(payload, Slot(0))
      title == StrAt(payload, <<JNum(1), JNum(0), JNum(3), JNum(1)>>)
  IN IF n \notin Live(nbs) THEN {}
     ELSE {IF Found(title) /\ title.ok # "" THEN Changes([nbs EXCEPT ![n].title = title.ok]) ELSE Says(Null)}

\* A conversation: what was said, with a citation of a passage, and rows that are no
\* turns.
Turns == << [author |-> "user",  text |-> "why",        cites |-> <<>>],
            [author |-> "model", text |-> "alpha beta", cites |-> <<[source |-> "s1", passage |-> "beta"]>>] >>

CiteRow(c) == JList(<<JStr("chunk"), JStr(c.source), JList(<<JNum(6), JNum(10)>>)>>)
TurnRow(t) == JList(<<JStr(t.author), JList(<<JStr(t.text), JList(Mapped(CiteRow, t.cites))>>), JNum(1)>>)
TurnRows   == JList(<<Null, TurnRow(Turns[1]), JList(<<>>), TurnRow(Turns[2])>>)

\* The envelope in slot 3, either way round; the id there and the envelope behind it;
\* or nothing but the envelope.
Histories(id) ==
  LET Wrap(slots) == JList(<<JStr("wrb.fr"), JStr("khqZz"), Null>> \o slots)
      envelope    == JList(<<JStr(id), TurnRows>>)
  IN { Wrap(<<envelope>>), Wrap(<<JList(<<TurnRows, JStr(id)>>)>>),
       Wrap(<<JStr(id), JList(<<JStr("inner"), TurnRows>>)>>), envelope }

\* No outcome: there is no such notebook, or nothing that can be read.
Outcomes(rpc, payload) ==
  LET n == OptStr(payload, Slot(0))
      Ask(answer) == IF n \in Live(nbs) THEN {Says(answer)} ELSE {}
  IN CASE rpc = "ListNotebooks"   -> {Says(NotebookRows(nbs))}
       [] rpc = "GetNotebook"     -> Ask(Shaped(NotebookRow(nbs, n)))
       [] rpc = "Summarize"       -> Ask(SummaryRow)
       [] rpc = "GetShareStatus"  -> Ask(ShareRow(nbs, n))
       [] rpc = "CreateNotebook"  -> Creates(n)
       [] rpc = "DeleteNotebook"  ->
            LET d == OptStr(payload, <<JNum(0), JNum(0)>>)
            IN {Changes(IF d \in NbIds THEN [nbs EXCEPT ![d].live = FALSE] ELSE nbs)}
       [] rpc = "RenameNotebook"  -> Renames(payload)
       [] rpc = "ShareNotebook"   -> Shares(payload)
       [] rpc = "RemoveRecentlyViewed" -> Ask(Null)
       [] rpc \in {"AddSource", "AddSourceFile"} -> AddsSource(payload)
       [] rpc = "GetConversationTurns" -> {Says(h) : h \in Histories(n)}
       [] rpc = "Chat"            -> {}

-----------------------------------------------------------------------------
(* The server: bodies *)

Frame(rpc, slot, status) == JList(<<JStr("wrb.fr"), JStr(rpc), slot, Null, Null, status>>)
Result(rpc, v)  == Frame(rpc, IF v = Null THEN Null ELSE JText(v), Null)
Status(rpc, n)  == Frame(rpc, Null, JList(<<JNum(n)>>))
Stranger        == Result("Other", JList(<<JList(<<>>)>>))
Chunk(frames)   == Line(JList(frames))

\* One frame, alone or with what may come with it.
Framings(frame) ==
  { <<Chunk(<<frame>>)>>,
    <<Garbage, Blank, Header(1), Chunk(<<frame>>)>>,
    <<Chunk(<<Stranger, frame>>), Chunk(<<Stranger>>)>> }

\* A result may follow an earlier and poorer one, and go before a null.
Bodies(rpc, answer) ==
  IF rpc = "GetConversationTurns" THEN {<<Line(answer)>>}
  ELSE Framings(Result(rpc, answer)) \cup
       (IF answer = Null THEN {}
        ELSE {<<Chunk(<<Result(rpc, JList(<<>>))>>), Chunk(<<Result(rpc, answer)>>),
                Chunk(<<Frame(rpc, Null, Null)>>)>>})

\* What a failed exchange leaves: nothing, or HTML of a line or of ten.
ErrorPages == {<<>>, <<Garbage>>, [i \in 1..10 |-> Garbage]}

-----------------------------------------------------------------------------
(* The server: a streamed answer *)

\* What one line of the stream says; a citation is a source and the blocks of its
\* passage that are quoted, or no citation at all.
Said(text, marked, final, cites) == [text |-> text, marked |-> marked, final |-> final, cites |-> cites]
Quote(id, blocks) == [source |-> id, blocks |-> blocks]
Unquoted          == [source |-> "", blocks |-> <<>>]

\* The sources that the request names.
Asked(payload) ==
  LET ids == OrElse(ListAt(payload, Slot(0)), <<>>)
  IN {OptStr(ids[i], <<JNum(0), JNum(0)>>) : i \in DOMAIN ids} \cap ToSet(SourceIds)

\* Blocks that overlap, that come out of order with a gap, that lie in each other.
Quotes(payload) ==
  {<<>>} \cup UNION {{ <<Unquoted, Quote(id, << <<0, 2>>, <<1, 3>> >>)>>,
                      <<Quote(id, << <<2, 4>>, <<0, 1>> >>), Quote(id, << <<0, 3>>, <<1, 2>> >>)>> }
                    : id \in Asked(payload)}

Thought            == Said("thinking", FALSE, FALSE, <<>>)
Draft(text, cites) == Said(text, TRUE, text = "alp", cites)     \* "alp" is final

\* Thoughts, drafts, and at last the answer.
Sayings(payload) ==
  {Thought} \cup {Draft(text, cites) : text \in Texts \ {"thinking"}, cites \in Quotes(payload)}

BlockRow(b) == JList(<<JNum(b[1]), JNum(b[2]), JStr(SubSeq(Passage, b[1] + 1, b[2]))>>)
QuoteRow(q) ==
  IF q = Unquoted THEN JList(<<Null, JList(<<>>)>>)
  ELSE JList(<<JList(<<JStr("chunk")>>),
               JList(<<Null, Null, JFrac, Null, JList(<<JList(Mapped(BlockRow, q.blocks))>>),
                       JList(<<JList(<<JStr(q.source)>>)>>)>>)>>)

SaidRow(s) ==
  JList(<<JStr(s.text), Null, JList(<<JStr("stream"), JStr(s.text), JNum(Len(s.text))>>), Null,
          JList(<<Null, Null, Null, JList(Mapped(QuoteRow, s.cites)), JNum(IF s.marked THEN 1 ELSE 2)>>)>>)
SaidFrame(s) ==
  JList(<<JStr("wrb.fr"), Null, JText(JList(<<SaidRow(s), Null, Null, Null, JBool(s.final)>>))>>)

Heartbeat   == JList(<<JStr("wrb.fr"), Null, JText(JList(<<>>))>>)
Bookkeeping == JList(<<JStr("e"), JNum(4)>>)

\* The server gives up: an error frame, or a status without a result.
Refusals == {JList(<<JStr("er"), Null, JNum(429)>>), Frame("Chat", Null, JList(<<JNum(3)>>))}
Refused  == [refused |-> TRUE]

\* A frame is told after its count, between frames that say nothing.
LinesOf(frame) == <<Header(1), Chunk(<<Heartbeat, frame, Bookkeeping>>)>>

-----------------------------------------------------------------------------
(* The call *)

NoCall == [api |-> "none", op |-> "none"]
NoRequest == Refuses("none")

Init ==
  /\ nbs \in Servers
  /\ shape \in Shapes
  /\ pc = "idle" /\ call = NoCall /\ leg = 0 /\ request = NoRequest /\ tries = 0
  /\ body = <<>> /\ reply = "none"
  /\ result = Failed("none")
  /\ served = [l \in 1..2 |-> {}] /\ seen = Labels(nbs) /\ added = {} /\ edits = 0 /\ sent = <<>>

FirstRequest(c) ==
  CASE c.api = "notebooks"               -> NotebooksRequest(c)
    [] c.api \in {"resolve", "resolveID"} -> ResolveRequest(c)
    [] c.api = "sources"                 -> SourcesRequest(c)
    [] c.api = "features"                -> FeaturesLegs(c)[1]
    [] c.api = "chat"                    -> ChatRequest(c)

\* The next rpc, or the end of the call when it is refused.
Dispatch(r, number) ==
  /\ leg' = number
  /\ tries' = 0
  /\ IF Is("refused", r)
       THEN pc' = "returned" /\ result' = Failed(r.refused) /\ UNCHANGED request
       ELSE pc' = "posted" /\ request' = r /\ UNCHANGED result

Begin ==
  /\ pc = "idle"
  /\ \E c \in Calls : call' = c /\ Dispatch(FirstRequest(c), 1)
  /\ UNCHANGED <<nbs, shape, wire, history>>

\* The server takes an outcome.
Commits(o) ==
  /\ nbs' = o.nbs
  /\ seen' = seen \cup Labels(o.nbs)
  /\ added' = added \cup o.made

HandsBack(b, r) == pc' = "answered" /\ body' = b /\ reply' = r

\* A POST that is answered.
Serve ==
  /\ pc = "posted"
  /\ \E o \in Outcomes(request.rpc, request.payload) :
       /\ Commits(o)
       /\ served' = [served EXCEPT ![leg] = {o.nbs}]
       /\ \E b \in Bodies(request.rpc, o.answer) : HandsBack(b, "answer")
  /\ UNCHANGED <<shape, call, leg, request, tries, result, edits, sent>>

\* A POST that is answered with a status: nothing there or to be read, or not allowed.
Reject ==
  /\ pc = "posted"
  /\ \E r \in {"missing", "denied"} :
       /\ r = "missing" => Outcomes(request.rpc, request.payload) = {} \/ Unread(request)
       /\ \E b \in Framings(Status(request.rpc, IF r = "missing" THEN 5 ELSE 7)) : HandsBack(b, r)
  /\ served' = [served EXCEPT ![leg] = {}]
  /\ UNCHANGED <<nbs, shape, call, leg, request, tries, result, seen, added, edits, sent>>

\* The server may have done what was asked before the exchange fails.
Unsure ==
  \/ UNCHANGED <<nbs, seen, added>>
  \/ \E o \in Outcomes(request.rpc, request.payload) : Commits(o)

\* Seeded fault: the failed attempt is not counted.
FaultCounted == tries

Counted == tries + 1

MayRetry == tries < MaxRetries

\* A 429 or 5xx.  Every method is ClassSafe: it is posted again after a pause,
\* until the attempts or the time are used up, and then its body is an answer like
\* any other.  So is the body of a 4xx.  A stream is posted once.
FailedPost ==
  /\ pc = "posted"
  /\ Unsure
  /\ \/ /\ request.rpc # "Chat" /\ MayRetry
        /\ tries' = Counted
        /\ pc' = "pausing"
        /\ UNCHANGED wire
     \/ /\ \E b \in ErrorPages : HandsBack(b, "page")
        /\ UNCHANGED tries
  /\ served' = [served EXCEPT ![leg] = {}]
  /\ UNCHANGED <<shape, call, leg, request, result, edits, sent>>

\* The pause ends, or the context does.
Wake ==
  /\ pc = "pausing"
  /\ \/ pc' = "posted" /\ UNCHANGED result
     \/ pc' = "returned" /\ result' = Failed("rpc call")
  /\ UNCHANGED <<nbs, shape, call, leg, request, tries, wire, history>>

\* RPCCall fails: no connection, a deadline, a refresh that fails, a client that
\* is closed.
Lose ==
  /\ pc = "posted"
  /\ Unsure
  /\ pc' = "returned" /\ result' = Failed("rpc call")
  /\ served' = [served EXCEPT ![leg] = {}]
  /\ UNCHANGED <<shape, call, leg, request, tries, wire, edits, sent>>

Answer ==
  CASE call.api = "notebooks"                -> NotebooksAnswer(call, body, request.rpc)
    [] call.api \in {"resolve", "resolveID"} -> ResolveLeg(call, leg, body)
    [] call.api = "sources"                  -> SourcesAnswer(call, body, request)
    [] call.api = "features"                 -> FeaturesAnswer(call, body, request)
    [] call.api = "chat"                     -> ChatAnswer(call, body)

Returns(r) == pc' = "returned" /\ result' = r /\ UNCHANGED <<leg, request, tries>>

\* The body is decoded; the call goes on with its next rpc, or returns.
Decode ==
  /\ pc = "answered"
  /\ \E r \in {Answer} :
       LET more == IF call.api = "features" THEN FeaturesLegs(call) ELSE <<>>
       IN IF call.api \in {"resolve", "resolveID"} /\ FallsBack(call, leg, r)
            THEN Dispatch(ListForResolve(call), 2)
          ELSE IF Is("val", r) /\ leg < Len(more) THEN Dispatch(more[leg + 1], leg + 1)
          ELSE Returns(IF call.api = "resolveID" THEN ResolvedID(r) ELSE r)
  /\ UNCHANGED <<nbs, shape, call, wire, history>>

\* A streamed answer begins.
StreamStarts ==
  /\ pc = "posted" /\ request.rpc = "Chat"
  /\ pc' = "streaming" /\ body' = <<>> /\ reply' = "answer"
  /\ UNCHANGED <<nbs, shape, call, leg, request, tries, result, history>>

\* The next line, until the answer is final or refused.
StreamTells ==
  /\ pc = "streaming"
  /\ Len(sent) < MaxLines
  /\ \A s \in ToSet(sent) : s # Refused /\ ~s.final
  /\ \/ \E s \in Sayings(request.payload) :
          sent' = Append(sent, s) /\ body' = body \o LinesOf(SaidFrame(s))
     \/ \E frame \in Refusals :
          sent' = Append(sent, Refused) /\ body' = body \o LinesOf(frame)
  /\ UNCHANGED <<nbs, shape, pc, call, leg, request, tries, reply, result, served, seen, added, edits>>

\* The body ends, with a last frame or in the middle of a line; or its reader fails.
StreamEnds ==
  /\ pc = "streaming"
  /\ \/ pc' = "answered" /\ UNCHANGED result
        /\ \E last \in {<<>>, <<Chunk(<<Bookkeeping>>)>>, <<Garbage>>, <<Header(1)>>} : body' = body \o last
     \/ pc' = "returned" /\ result' = Failed("read") /\ UNCHANGED body
  /\ UNCHANGED <<nbs, shape, call, leg, request, tries, reply, history>>

\* Another user renames or deletes a notebook.  A streamed answer says nothing of the
\* notebooks.
Edit ==
  /\ pc \in {"posted", "answered"} /\ request.rpc # "Chat"
  /\ edits < MaxEdits
  /\ edits' = edits + 1
  /\ \E n \in Live(nbs) :
       \/ nbs' = [nbs EXCEPT ![n].title = "edited"]
       \/ nbs' = [nbs EXCEPT ![n].live = FALSE]
  /\ seen' = seen \cup Labels(nbs')
  /\ UNCHANGED <<shape, pc, call, leg, request, tries, wire, result, served, added, sent>>

Exchange == Serve \/ Reject \/ FailedPost \/ Lose \/ StreamStarts

Next == Begin \/ Exchange \/ Wake \/ StreamTells \/ StreamEnds \/ Decode \/ Edit

Spec == Init /\ [][Next]_vars

\* A step of Decode, told by the counter alone: only Decode leaves "answered".
Decodes == pc = "answered" /\ pc' \in {"posted", "returned"}

\* A POST and a pause end: the deadline budget bounds them (see Chain).  Decoding
\* is local.  A stream ends because the http.Client has a timeout.
FairSpec ==
  Spec /\ WF_vars(Exchange) /\ WF_vars(Wake) /\ WF_vars(StreamEnds) /\ WF_pc(Decodes)

-----------------------------------------------------------------------------
(* Properties *)

Succeeded == pc = "returned" /\ Is("val", result)

\* What a call carries through its steps.
TypeOK ==
  /\ DOMAIN nbs = NbIds /\ \A n \in NbIds : DOMAIN nbs[n] = NotebookFields
  /\ pc \in {"idle", "posted", "pausing", "streaming", "answered", "returned"}
  /\ pc \in {"posted", "pausing", "streaming", "answered"} => Is("rpc", request) /\ Is("payload", request)
  /\ leg \in 0..2
  /\ tries \in 0..MaxRetries
  /\ reply \in {"none", "answer", "missing", "denied", "page"}
  /\ DOMAIN result \in {{"val"}, {"err"}}
  /\ edits \in 0..MaxEdits
  /\ Len(sent) <= MaxLines

\* A listing that succeeds on an answer of the server holds what was there when
\* the server answered, whatever came with the result in the body: NotebooksAPI
\* List and GetRecent, features.ListPaged, SourcesAPI.List.
ListingsAreWhole ==
  Succeeded /\ reply = "answer" /\ call.op \in {"List", "GetRecent"} /\ call.max = 0 =>
    \A then \in served[1] :
      IF call.api = "sources"
      THEN {s.id : s \in ToSet(result.val)} = {s.id : s \in ToSet(then[call.nb].sources)}
      ELSE {[id |-> nb.id, title |-> nb.title] : nb \in ToSet(result.val)} = Labels(then)

\* The kind and the text that a caller of the Sources namespace names.
Meant(c) ==
  CASE c.op = "AddURL"     -> <<"url", c.arg.text>>
    [] c.op = "AddYouTube" -> <<"youtube", c.arg.text>>
    [] c.op = "AddText"    -> <<"text", c.arg.text>>
    [] c.op = "AddFile"    -> <<"file", c.arg.base>>
    [] c.op = "AddDrive"   -> <<"drive", c.arg.id>>

\* Every source the server added is the one the caller named, of the kind of the
\* method, in the notebook that was named: what the builders of
\* internal/web/params/sources put where, and what the retries repeat.
ServerReadsWhatWasAsked ==
  call.api = "sources" =>
    \A a \in added : a.nb = call.nb /\ <<a.kind, a.text>> = Meant(call)

\* A posted spec can be read in one way only, and has its source-type code in its last
\* slot.  That is the slot of the documents for a text and a Drive document.  For a URL and
\* a video it is not: 04-rpc-payloads.md:97 puts it at 10 on every kind, the head of url.go
\* at 11, the builders at 14.
AddsAreRead ==
  pc = "posted" /\ call.api = "sources" /\ call.op # "List" =>
    LET spec == SpecOf(request.payload) IN
      /\ Filled(spec) = {<<Meant(call)[1], Ok(Meant(call)[2])>>}
      /\ request.rpc = "AddSource" => Coded(spec, Len(spec.list) - 1)
      /\ Unread(request) <=> call.op \in {"AddURL", "AddYouTube"}

\* AddYouTube, AddDrive and features.Create, whose calls allow no null, return
\* without an error only what they made.
StrictAddsAreThere ==
  Succeeded /\ (call.op \in {"AddYouTube", "AddDrive"} \/ (call.api = "features" /\ call.op = "Create")) =>
    result.val.id \in {a.id : a \in added}

\* An add that succeeds has added what was asked for, and nothing else was added, over
\* retries of every leg; by a server that goes by the filled slot, and by one that goes by
\* the code and refuses what it cannot read.
AddsWhatWasAsked ==
  TypeOK /\ ServerReadsWhatWasAsked /\ AddsAreRead /\ StrictAddsAreThere

\* An id that ResolveID returns was the id of a notebook during the call, and that
\* notebook was called what the query says.
ResolvesToWhatWasThere ==
  Succeeded /\ call.api = "resolveID" =>
    \E nb \in seen :
      /\ nb.id = result.val
      /\ nb.id = TrimAll(call.query) \/ TitleMatches(nb.title, TrimAll(call.query), call)

\* features.Rename returns the notebook as it is after the rename: when the server
\* answered both legs and nobody edits in between, with the new title, as titles are
\* shown.
RenameShowsItsTitle ==
  Succeeded /\ call.api = "features" /\ call.op = "Rename" /\ call.title # "" =>
    \A then \in served[1] : served[2] = {then} /\ shape = "wrapped" =>
      result.val.id = call.nb /\ result.val.title = StripThoughtPrefix(call.title)

\* No feature call, no call of the Sources namespace and no parser of the chat takes
\* the body of a failed exchange for an answer, although the HTTP status never reaches
\* them.
ErrorPagesAreErrors ==
  pc = "returned" /\ call.api \in {"features", "sources", "chat"} /\ reply = "page" => Is("err", result)

\* Where an answer streamed: what was said, without the refusals.
Streamed == call.op = "Ask" /\ Succeeded /\ reply = "answer"
Heard    == {s \in ToSet(sent) : s # Refused}

\* The texts that ParseChatStream may choose from.
Best ==
  LET marked == {s \in Heard : s.marked}
      final  == {s \in marked : s.final}
  IN IF final # {} THEN final
     ELSE IF marked # {} THEN {s \in marked : \A t \in marked : Len(t.text) <= Len(s.text)}
     ELSE Heard

\* A streamed answer that is not refused is the final one, or without it the longest
\* draft; never a thought as long as there is a draft.  A stream that is cut, or whose
\* lines carry other frames, changes nothing in this, and a refusal in any line makes
\* the whole an error.
AnswerIsTheBest ==
  Streamed =>
    /\ Refused \notin ToSet(sent)
    /\ result.val.answer \in IF Heard = {} THEN {""} ELSE {s.text : s \in Best}

\* The positions of the passage that the blocks cover, in order.
Covered(blocks) ==
  FoldLeft(LAMBDA text, i : IF \E b \in ToSet(blocks) : b[1] < i /\ i <= b[2]
                            THEN text \o SubSeq(Passage, i, i) ELSE text,
           "", [i \in 1..Len(Passage) |-> i])

\* The references of an answer come from the same chunk as its text: each has the number
\* of its row on the wire, whatever rows are left out, and the text that its blocks
\* cover, once.
CitationsPointRight ==
  Streamed /\ Heard # {} =>
    \E s \in Best :
      /\ s.text = result.val.answer
      /\ {<<r.number, r.source, r.text>> : r \in ToSet(result.val.refs)}
           = {<<i, s.cites[i].source, Covered(s.cites[i].blocks)>>
                : i \in {j \in DOMAIN s.cites : s.cites[j] # Unquoted}}

\* The history of a conversation has all its turns in order, under its own id, in any
\* shape of the reply, and a citation marks the passage it was made for.
HistoryIsWhole ==
  Succeeded /\ call.api = "chat" /\ reply = "answer" =>
    CASE call.op = "ConversationID" -> result.val = call.conv
      [] call.op = "History" ->
           /\ result.val.id = call.conv
           /\ Len(result.val.turns) = Len(Turns)
           /\ \A i \in DOMAIN Turns :
                LET turn == result.val.turns[i] IN
                  /\ <<turn.author, turn.text>> = <<Turns[i].author, Turns[i].text>>
                  /\ Mapped(LAMBDA c : [source |-> c.source, passage |-> SliceAnswerByCitation(turn.text, c)],
                            turn.cites) = Turns[i].cites
      [] OTHER -> TRUE

\* The parsers of internal/web/rows lose no turn, and leave every citation, of an answer or
\* of a turn, at the passage it was made for.
PassagesAreMarked == CitationsPointRight /\ HistoryIsWhole

\* A call that has posted returns, however often the server fails.
EveryCallReturns == pc = "posted" ~> pc = "returned"

\* sources.go:171: the create is issued with internal retries disabled.
AddedOnce == call.op = "AddURL" => Cardinality(added) <= 1
=============================================================================
