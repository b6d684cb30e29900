----------------------------- MODULE SourcesAPI -----------------------------
(***************************************************************************)
(* notebooklm/sources.go over internal/web/features/sources: what each      *)
(* method of the public Sources namespace checks, asks and makes of the     *)
(* answer.  The variants with a second slice of options do the same; text   *)
(* and file take a MIME override and drop it.                              *)
(***************************************************************************)
EXTENDS NotebooksAPI

\* nullable is the allowNull of the call.
Sends(rpc, payload, nullable) == [rpc |-> rpc, payload |-> payload, nullable |-> nullable]

-----------------------------------------------------------------------------
(* features/sources: the rpc, and whether its null is success *)

ListRows(nb)            == Sends("GetNotebook", BuildListSources(nb), FALSE)
SendURL(nb, url, mime)  == Sends("AddSource", BuildAddSourceURL(nb, url, mime), TRUE)
SendText(nb, title, s)  == Sends("AddSource", BuildAddSourceText(nb, title, s), TRUE)
SendFile(nb, name)      == Sends("AddSourceFile", BuildAddSourceFile(nb, name), TRUE)
SendDrive(nb, id, mime, title) == Sends("AddSource", BuildAddSourceDrive(nb, id, mime, title), FALSE)

SendYouTube(nb, url, mime) == Sends("AddSource", BuildAddSourceYouTube(nb, url, mime), FALSE)

-----------------------------------------------------------------------------
(* The methods *)

Mime(kind, c) == InferMIMEWithOverride(kind, c.arg, c.mime)

SourcesList(c) == Checked(ValidNotebookIDStrict(c.nb), ListRows(c.nb))

AddURL(c) ==
  Checked(ValidNotebookIDStrict(c.nb) /\ ValidateURL(c.arg),
          SendURL(c.nb, c.arg.text, Mime("url", c)))

AddYouTube(c) ==
  Checked(ValidNotebookIDStrict(c.nb) /\ ValidateYouTubeURL(c.arg),
          SendYouTube(c.nb, c.arg.text, Mime("youtube", c)))

AddText(c) ==
  Checked(ValidNotebookIDStrict(c.nb) /\ ValidateText(c.arg), SendText(c.nb, c.title, c.arg.text))

\* Registers the name: no byte of the file is sent.
AddFile(c) ==
  Checked(ValidNotebookIDStrict(c.nb) /\ ValidateFile(c.arg) /\ ValidateSource(c.arg, "file"),
          SendFile(c.nb, c.arg.base))

AddDrive(c) ==
  Checked(ValidNotebookIDStrict(c.nb) /\ ValidateDriveURL(c.arg) /\ ValidateSource(c.arg, "drive"),
          SendDrive(c.nb, ExtractDriveFileID(c.arg), Mime("drive", c), ""))

SourcesRequest(c) ==
  CASE c.op = "List"       -> SourcesList(c)
    [] c.op = "AddURL"     -> AddURL(c)
    [] c.op = "AddYouTube" -> AddYouTube(c)
    [] c.op = "AddText"    -> AddText(c)
    [] c.op = "AddFile"    -> AddFile(c)
    [] c.op = "AddDrive"   -> AddDrive(c)

-----------------------------------------------------------------------------
(* The answers *)

\* clientCaller.Call: the decoded payload, Null for an allowed null.
Called(body, request) ==
  Once(LAMBDA r : IF Is("val", r) /\ r.val = NotJSON THEN Failed("unmarshal") ELSE r,
       DecodeResponse(body, request.rpc, request.nullable))

SourcesPage(c, page) == IF Is("err", page) THEN page ELSE View(Capped(page.val, c.max))

SourcesAnswer(c, body, request) ==
  LET Read(v) ==
        IF c.op = "List" THEN Once(LAMBDA page : SourcesPage(c, page), DecodeSourceRows(v))
        ELSE DecodeAddedSourceRow(v)
  IN IfRead(Read, Called(body, request))
=============================================================================
