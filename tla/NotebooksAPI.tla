---------------------------- MODULE NotebooksAPI ----------------------------
(***************************************************************************)
(* notebooklm/notebooks.go and resolve.go: what each method of the public  *)
(* Notebooks namespace checks, asks and makes of the answer, and the        *)
(* resolution of a query to a notebook.                                    *)
(*                                                                         *)
(* c is the record of a caller's arguments; see Sdk.  A request names the  *)
(* rpc and carries its payload, or refuses with an error before any rpc.    *)
(***************************************************************************)
EXTENDS Params

CONSTANTS
  ToLower(_),         \* the string in lower case
  HasPart(_, _)       \* the first string contains the second

Asks(rpc, payload) == [rpc |-> rpc, payload |-> payload]
Refuses(reason)    == [refused |-> reason]
Checked(valid, request) == IF valid THEN request ELSE Refuses("validation")

\* The builder panics, and the method recovers.
NotYet == Refuses("unimplemented")

-----------------------------------------------------------------------------
(* The requests *)

List      == Asks("ListNotebooks", BuildList)
GetRecent == Asks("ListNotebooks", BuildGetRecent)
GetStarred      == NotYet
GetSharedWithMe == NotYet
GetByProject(c) == Checked(c.project # "", NotYet)

Create(c)   == Checked(c.title # "", Asks("CreateNotebook", BuildCreate(c.title)))
Get(c)      == Checked(ValidNotebookID(c.nb), Asks("GetNotebook", BuildGet(c.nb)))
Metadata(c) == Checked(ValidNotebookID(c.nb), Asks("GetNotebook", BuildMetadata(c.nb)))
Summary(c)  == Checked(ValidNotebookID(c.nb), Asks("Summarize", BuildSummary(c.nb)))
Delete(c)   == Checked(ValidNotebookID(c.nb), Asks("DeleteNotebook", BuildDelete(c.nb)))

Rename(c) ==
  Checked(ValidNotebookID(c.nb) /\ ~(c.title = "" /\ c.emoji \subseteq {""}),
          Asks("RenameNotebook", BuildRename(c.nb, c.title, c.emoji)))

Share(c, public) == Checked(ValidNotebookID(c.nb), Asks("ShareNotebook", BuildShare(c.nb, public)))
Unshare(c)       == Share(c, FALSE)
GetShareStatus(c) == Checked(ValidNotebookID(c.nb), Asks("GetShareStatus", BuildGetShareStatus(c.nb)))

RemoveCollaborator(c) ==
  Checked(ValidNotebookID(c.nb) /\ EscapeEmail(c.email),
          Asks("ShareNotebook", BuildRemoveCollaborator(c.nb, c.email.text)))

AddSourceIDs(c)    == Checked(ValidNotebookID(c.nb), NotYet)
RemoveSourceIDs(c) == Checked(ValidNotebookID(c.nb), NotYet)

NotebooksRequest(c) ==
  CASE c.op = "List"               -> List
    [] c.op = "GetRecent"          -> GetRecent
    [] c.op = "GetStarred"         -> GetStarred
    [] c.op = "GetSharedWithMe"    -> GetSharedWithMe
    [] c.op = "GetByProject"       -> GetByProject(c)
    [] c.op = "Create"             -> Create(c)
    [] c.op = "Get"                -> Get(c)
    [] c.op = "Metadata"           -> Metadata(c)
    [] c.op = "Summary"            -> Summary(c)
    [] c.op = "Delete"             -> Delete(c)
    [] c.op = "Rename"             -> Rename(c)
    [] c.op = "Share"              -> Share(c, c.public)
    [] c.op = "Unshare"            -> Unshare(c)
    [] c.op = "GetShareStatus"     -> GetShareStatus(c)
    [] c.op = "RemoveCollaborator" -> RemoveCollaborator(c)
    [] c.op = "AddSource"          -> AddSourceIDs(c)
    [] c.op = "RemoveSource"       -> RemoveSourceIDs(c)

-----------------------------------------------------------------------------
(* The answers *)

Failed(reason) == [err |-> reason]

\* Op of what a decoder returns, or its error.
IfRead(Op(_), result) == Once(LAMBDA r : IF Is("err", r) THEN r ELSE Op(r.val), result)

\* call and extractResult: no body, and no result of the rpc in it, are nil
\* without an error.  The HTTP status of the answer is not known here.
Extracted(body, rpc) ==
  LET Read(r) ==
        IF Is("err", r) THEN IF r.err = "decoding" THEN View(<<>>) ELSE Failed("rpc")
        ELSE IF Is("list", r.val) THEN View(r.val.list)
        ELSE Failed("unmarshal")
  IN IF ToSet(body) \subseteq {Blank} THEN View(<<>>) ELSE Once(Read, ExtractResult(body, rpc))

MetadataOf(nb) == View(IF nb.metadata = {} THEN NoMetadata ELSE CHOOSE m \in nb.metadata : TRUE)

NotebooksAnswer(c, body, rpc) ==
  LET Read(raw) ==
        CASE c.op \in {"List", "GetRecent"} -> PageFromList(raw, c.max)
          [] c.op \in {"Create", "Get"}     -> NotebookFromEnvelope(raw)
          [] c.op = "Metadata"              -> MetadataOf(NotebookFromEnvelope(raw).val)
          [] c.op = "Summary"               -> SummaryFromEnvelope(raw)
          [] c.op = "GetShareStatus"        -> ShareStateFromEnvelope(raw)
          [] OTHER                          -> View("done")
  IN IfRead(Read, Extracted(body, rpc))

-----------------------------------------------------------------------------
(* resolve.go: at most one Get and one listing *)

TitleMatches(title, query, c) ==
  LET Fold(s) == IF c.insensitive THEN ToLower(s) ELSE s
  IN IF c.fuzzy THEN HasPart(Fold(title), Fold(query)) ELSE Fold(title) = Fold(query)

ListForResolve(c) == IF c.project = "" THEN List ELSE GetByProject(c)

\* The first leg: the id, or the titles.
ResolveRequest(c) ==
  LET query == TrimAll(c.query)
  IN IF query = "" THEN Refuses("validation")
     ELSE IF c.kind = "title" THEN ListForResolve(c)
     ELSE Get([c EXCEPT !.nb = query])

ResolveAsID(body) == IfRead(NotebookFromEnvelope, Extracted(body, "GetNotebook"))

\* The first row that matches.
ResolveAsTitle(c, body) ==
  LET Search(page) ==
        LET hits == {i \in DOMAIN page : TitleMatches(page[i].title, TrimAll(c.query), c)}
        IN IF hits = {} THEN Failed("not_found") ELSE View(page[Min(hits)])
  IN IfRead(LAMBDA raw : Once(Search, PageFromList(raw, 0).val), Extracted(body, "ListNotebooks"))

\* "auto" asks for the titles when, and only when, Get says not found.
FallsBack(c, leg, r) == leg = 1 /\ c.kind = "auto" /\ Is("err", r) /\ r.err = "not_found"

ResolveLeg(c, leg, body) ==
  IF leg = 1 /\ c.kind # "title" THEN ResolveAsID(body) ELSE ResolveAsTitle(c, body)

\* Seeded fault: the id of the row, whatever it is.
FaultResolvedID(r) == IF Is("err", r) THEN r ELSE View(r.val.id)

\* ResolveID: a row without an id is no match.
ResolvedID(r) ==
  IF Is("err", r) THEN r
  ELSE IF TrimAll(r.val.id) = "" THEN Failed("not_found")
  ELSE View(r.val.id)
=============================================================================
