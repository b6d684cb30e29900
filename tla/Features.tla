------------------------------ MODULE Features ------------------------------
(***************************************************************************)
(* internal/web/features/notebooks.go: the second set of notebook calls,    *)
(* over DecodeResponse and its errors.                                     *)
(***************************************************************************)
EXTENDS SourcesAPI

-----------------------------------------------------------------------------
(* The requests *)

OnNotebook(c, rpc, payload, nullable) ==
  Checked(ValidNotebookID(c.nb), Sends(rpc, payload, nullable))

ListPaged           == Sends("ListNotebooks", BuildList, FALSE)
FeaturesGet(c)      == OnNotebook(c, "GetNotebook", BuildGet(c.nb), FALSE)
FeaturesSummary(c)  == OnNotebook(c, "Summarize", BuildSummary(c.nb), FALSE)
Describe(c)         == OnNotebook(c, "Summarize", BuildSummary(c.nb), FALSE)
FeaturesCreate(c)   == Checked(c.title # "", Sends("CreateNotebook", BuildCreate(c.title), FALSE))
FeaturesDelete(c)   == OnNotebook(c, "DeleteNotebook", BuildDelete(c.nb), TRUE)

FeaturesRename(c) ==
  Checked(ValidNotebookID(c.nb) /\ ~(c.title = "" /\ c.emoji \subseteq {""}),
          Sends("RenameNotebook", BuildRename(c.nb, c.title, c.emoji), TRUE))

FeaturesShare(c, public) == OnNotebook(c, "ShareNotebook", BuildShare(c.nb, public), TRUE)
FeaturesUnshare(c)       == FeaturesShare(c, FALSE)
RemoveFromRecent(c)      == OnNotebook(c, "RemoveRecentlyViewed", BuildRemoveRecentlyViewed(c.nb), TRUE)

FeaturesRemoveCollaborator(c) ==
  Checked(ValidNotebookID(c.nb) /\ EscapeEmail(c.email),
          Sends("ShareNotebook", BuildRemoveCollaborator(c.nb, c.email.text), TRUE))

\* One rpc; a rename reads the notebook back.
FeaturesLegs(c) ==
  CASE c.op = "Rename"             -> <<FeaturesRename(c), FeaturesGet(c)>>
    [] c.op = "List"               -> <<ListPaged>>
    [] c.op = "Get"                -> <<FeaturesGet(c)>>
    [] c.op = "Summary"            -> <<FeaturesSummary(c)>>
    [] c.op = "Describe"           -> <<Describe(c)>>
    [] c.op = "Create"             -> <<FeaturesCreate(c)>>
    [] c.op = "Delete"             -> <<FeaturesDelete(c)>>
    [] c.op = "Share"              -> <<FeaturesShare(c, c.public)>>
    [] c.op = "Unshare"            -> <<FeaturesUnshare(c)>>
    [] c.op = "RemoveFromRecent"   -> <<RemoveFromRecent(c)>>
    [] c.op = "RemoveCollaborator" -> <<FeaturesRemoveCollaborator(c)>>

-----------------------------------------------------------------------------
(* The answers *)

CappedPage(r, maxItems) == IF Is("err", r) THEN r ELSE View(Capped(r.val, maxItems))

FeaturesAnswer(c, body, request) ==
  LET Read(v) ==
        CASE request.rpc = "GetNotebook"     -> DecodeGet(v)
          [] request.rpc = "ListNotebooks"   -> CappedPage(DecodeNotebookRows(v), c.max)
          [] request.rpc = "CreateNotebook"  -> View(DecodeNotebook(v))
          [] request.rpc = "Summarize"       ->
               IF c.op = "Summary" THEN View(DecodeDescription(v).val.summary) ELSE DecodeDescription(v)
          [] OTHER                           -> View("done")
  IN IfRead(Read, Called(body, request))
=============================================================================
