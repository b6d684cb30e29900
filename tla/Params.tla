------------------------------- MODULE Params -------------------------------
(***************************************************************************)
(* internal/web/params, internal/web/params/sources and                    *)
(* internal/app/sourceadd: the positional payload of every implemented RPC, *)
(* the checks a caller's argument passes before one is built, the kind of a *)
(* source argument and its MIME type.                                      *)
(*                                                                         *)
(* The argument of a source add is a record of what the code asks of the   *)
(* string: see Argument.                                                   *)
(***************************************************************************)
EXTENDS Rows

CONSTANTS
  HasScheme(_)     \* url.Parse finds a scheme in the string

Nulls(n) == [i \in 1..n |-> Null]
Row(s)   == JList(s)

\* wire.TemplateBlock: [2, null, null, [1, null x 9, [1]]].
TemplateBlock == Row(<<JNum(2), Null, Null, Row(<<JNum(1)>> \o Nulls(9) \o <<Row(<<JNum(1)>>)>>)>>)

-----------------------------------------------------------------------------
(* params/notebooks.go *)

SharePermissionRemove == 4

BuildList       == Row(<<Null, JNum(1), Null, Row(<<JNum(2)>>)>>)
BuildGetRecent  == BuildList
BuildCreate(title) == Row(<<JStr(title), Null, Null, TemplateBlock>>)
BuildDelete(nb) == Row(<<Row(<<JStr(nb)>>), Row(<<JNum(2)>>)>>)
BuildGet(nb)    == Row(<<JStr(nb), Null, TemplateBlock, Null, JNum(0)>>)
BuildMetadata(nb)    == BuildGet(nb)
BuildListSources(nb) == BuildGet(nb)
BuildSummary(nb)        == Row(<<JStr(nb), Row(<<JNum(2)>>)>>)
BuildGetShareStatus(nb) == BuildSummary(nb)
BuildRemoveRecentlyViewed(nb) == Row(<<JStr(nb)>>)

\* Seeded fault: the change without its leading null.
FaultBuildRename(nb, title, emoji) ==
  Row(<<JStr(nb), Row(<<Row(<<Null, Null, Null, Row(<<JStr(title)>>)>>)>>)>>)

\* emoji is a set of at most one: the slot is left out without one.
BuildRename(nb, title, emoji) ==
  LET change == Row(<<Null, JStr(title)>> \o (IF emoji = {} THEN <<>> ELSE <<JStr(CHOOSE e \in emoji : TRUE)>>))
  IN Row(<<JStr(nb), Row(<<Row(<<Null, Null, Null, change>>)>>)>>)

BuildShare(nb, public) ==
  LET access == JNum(IF public THEN 1 ELSE 0)
  IN Row(<<Row(<<Row(<<JStr(nb), Null, Row(<<access>>), Row(<<access, JStr("")>>)>>)>>),
           JNum(1), Null, Row(<<JNum(2)>>)>>)

BuildRemoveCollaborator(nb, email) ==
  Row(<<Row(<<Row(<<JStr(nb), Row(<<Row(<<JStr(email), Null, JNum(SharePermissionRemove)>>)>>),
                    Null, Row(<<JNum(0), JStr("")>>)>>)>>),
        JNum(0), Null, Row(<<JNum(2)>>)>>)

\* An e-mail is a record of what EscapeEmail asks.
EscapeEmail(e) == e.text # "" /\ ~e.space /\ e.at

-----------------------------------------------------------------------------
(* params/sources: one spec, the kind told by the slot that is filled *)

AddSource(spec, nb) == Row(<<Row(<<Row(spec)>>), JStr(nb), TemplateBlock>>)

DefaultMIME(mime) == JStr(IF mime = "" THEN "text/html" ELSE mime)

\* Seeded fault: the URL in the slot of a video.
FaultBuildAddSourceURL(nb, url, mime) ==
  AddSource(Nulls(7) \o <<Row(<<JStr(url)>>)>> \o Nulls(5) \o <<DefaultMIME(mime), JNum(1)>>, nb)

BuildAddSourceURL(nb, url, mime) ==
  AddSource(Nulls(2) \o <<Row(<<JStr(url)>>)>> \o Nulls(10) \o <<DefaultMIME(mime), JNum(1)>>, nb)

BuildAddSourceYouTube(nb, url, mime) ==
  AddSource(Nulls(7) \o <<Row(<<JStr(url)>>)>> \o Nulls(5) \o <<DefaultMIME(mime), JNum(1)>>, nb)

BuildAddSourceText(nb, title, content) ==
  AddSource(<<Null, Row(<<JStr(title), JStr(content)>>), Null, JNum(2)>> \o Nulls(6) \o <<JNum(1)>>, nb)

BuildAddSourceFile(nb, filename) ==
  Row(<<Row(<<Row(<<JStr(filename)>>)>>), JStr(nb), TemplateBlock>>)

\* Not migrated to the template block.
BuildAddSourceDrive(nb, fileID, mime, title) ==
  Row(<<Row(<<Row(<<Row(<<JStr(fileID), JStr(mime), JNum(1), JStr(title)>>)>> \o Nulls(9) \o <<JNum(1)>>)>>),
        JStr(nb), Row(<<JNum(2)>>), Row(<<JNum(1)>> \o Nulls(8) \o <<Row(<<JNum(1)>>)>>)>>)

-----------------------------------------------------------------------------
(* Arguments of a source add *)

\* text names the string; the rest is what is asked of it, after TrimSpace
\* where the code trims.
Argument(text) ==
  [ text |-> text,
    blank |-> text = "",       \* nothing but white space
    space |-> FALSE,           \* white space inside or around it
    control |-> FALSE,         \* a control character
    scheme |-> "",             \* "http" for http:// and https://
    host |-> "", path |-> "",  \* the path's first segment
    id |-> text,               \* between /d/ and the next / ? or #
    video |-> FALSE,           \* a v= in the query, a path after youtu.be/
    internal |-> FALSE,        \* a loopback, link-local, private or zero address
    pathShaped |-> FALSE, home |-> TRUE,   \* expandTilde succeeds
    exists |-> FALSE,          \* Lstat and Stat succeed
    inside |-> FALSE,          \* resolves inside ~/.notebooklm
    base |-> text, extension |-> "" ]

ValidateURL(a)        == a.text # "" /\ ~a.space /\ a.scheme = "http"
ValidateYouTubeURL(a) == ValidateURL(a)
ValidateText(a)       == ~a.blank /\ ~a.control
ValidateFile(a)       == ~a.blank /\ ~a.control /\ a.base \notin {"", "."}
ValidateDriveURL(a)   == a.text # "" /\ ~a.space /\ ~a.control

ValidNotebookIDStrict(id) == ValidNotebookID(id) /\ ~HasScheme(id)

ExtractDriveFileID(a) == a.id

-----------------------------------------------------------------------------
(* sourceadd: classify.go, gate.go, mime.go *)

IsDriveURL(a) ==
  \/ a.host = "drive.google.com" /\ a.path \in {"file", "document"}
  \/ a.host = "docs.google.com" /\ a.path \in {"document", "spreadsheets", "presentation"}
IsYouTubeURL(a) == a.host \in {"youtu.be", "youtube.com", "www.youtube.com"} /\ a.video
IsGenericURL(a) == a.scheme = "http" /\ a.host # ""

\* "unknown" is the ambiguous argument.
SourceKind(a) ==
  IF IsDriveURL(a) THEN "drive"
  ELSE IF IsYouTubeURL(a) THEN "youtube"
  ELSE IF IsGenericURL(a) THEN "url"
  ELSE IF a.pathShaped THEN IF a.home /\ a.exists THEN "file" ELSE "unknown"
  ELSE "text"

\* EvalSymlinks fails for a missing file; a file inside the profile is refused.
CheckFilePath(a)        == a.home /\ a.exists /\ ~a.inside
CheckInternalAddress(a) == a.host # "" /\ ~a.internal

ValidateSource(a, kind) ==
  LET k == IF kind = "unknown" THEN SourceKind(a) ELSE kind
  IN CASE k = "file"                      -> CheckFilePath(a)
       [] k \in {"url", "youtube", "drive"} -> CheckInternalAddress(a)
       [] k = "text"                      -> TRUE
       [] OTHER                           -> FALSE

InferFileMIME(a) ==
  CASE a.extension = "pdf" -> "application/pdf"
    [] a.extension = "txt" -> "text/plain"
    [] OTHER               -> "application/octet-stream"

InferMIMEWithOverride(kind, a, override) ==
  IF override # "" THEN override
  ELSE CASE kind \in {"url", "youtube"} -> "text/html"
         [] kind = "file"               -> InferFileMIME(a)
         [] kind = "text"               -> "text/plain"
         [] OTHER                       -> ""
=============================================================================
