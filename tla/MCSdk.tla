-------------------------------- MODULE MCSdk --------------------------------
EXTENDS Sdk

MCTrimAll(s) == CASE s = " n1 " -> "n1" [] s = " " -> "" [] s = " Beta" -> "Beta" [] OTHER -> s
MCCutThought(s) == IF s = "thought\n Beta" THEN " Beta" ELSE s
MCToLower(s) == CASE s = "Alpha" -> "alpha" [] s = "Beta" -> "beta" [] OTHER -> s
MCHasPart(s, part) == part = s \/ <<s, part>> \in {<<"alpha", "alp">>, <<"Alpha", "Alp">>}
MCHasScheme(s) == s = "https://x"

MCIsUUID(s) == s \in {"s1", "s2", "s3", "s4"}

MCSourceIds == <<"s1", "s2", "s3", "s4">>

Nb(title, sources) ==
  [live |-> TRUE, title |-> title, public |-> FALSE, guest |-> "a@b", sources |-> sources]
Gone == [Nb("", <<>>) EXCEPT !.live = FALSE]

Owned == <<[id |-> "s1", kind |-> "url", text |-> "https://a"]>>

\* A free id; an id that is also a title.
MCServers == { [n1 |-> Nb("Alpha", Owned), n2 |-> Gone],
               [n1 |-> Nb("thought\n Beta", Owned), n2 |-> Nb("n1", <<>>)] }

Web     == [Argument("https://a") EXCEPT !.scheme = "http", !.host = "a"]
Tube    == [Argument("https://youtu.be/v") EXCEPT !.scheme = "http", !.host = "youtu.be", !.video = TRUE]
Doc     == [Argument("https://docs/d/f1/edit") EXCEPT !.scheme = "http", !.host = "docs.google.com",
              !.path = "document", !.id = "f1"]
Inside  == [Doc EXCEPT !.internal = TRUE]
Paper   == [Argument("/tmp/p.pdf") EXCEPT !.pathShaped = TRUE, !.exists = TRUE, !.base = "p.pdf",
              !.extension = "pdf"]
Lost    == [Paper EXCEPT !.exists = FALSE]
Note    == Argument("note")
Spaced  == [Web EXCEPT !.space = TRUE]

Base(api, op) ==
  [ api |-> api, op |-> op, nb |-> "n1", title |-> "New", emoji |-> {}, public |-> TRUE,
    email |-> [text |-> "a@b", space |-> FALSE, at |-> TRUE], arg |-> Note, mime |-> "", max |-> 0,
    query |-> "n1", kind |-> "auto", project |-> "", fuzzy |-> FALSE, insensitive |-> TRUE,
    about |-> <<"s1">>, conv |-> "conv" ]

Plain(api, ops) == {Base(api, op) : op \in ops}
With(op, arg)   == [Base("sources", op) EXCEPT !.arg = arg]

\* What a caller does that asks Classify which method takes the argument.
MethodOf == [url |-> "AddURL", youtube |-> "AddYouTube", text |-> "AddText", file |-> "AddFile",
             drive |-> "AddDrive"]
Routed(arg) == With(MethodOf[SourceKind(arg)], arg)
Find(query, kind) == [Base("resolveID", "ResolveID") EXCEPT !.query = query, !.kind = kind]

MCCalls ==
  Plain("notebooks", {"List", "GetRecent", "GetStarred", "GetSharedWithMe", "GetByProject", "Create",
                      "Get", "Metadata", "Summary", "Delete", "Rename", "Share", "Unshare",
                      "GetShareStatus", "RemoveCollaborator", "AddSource", "RemoveSource"})
  \cup Plain("features", {"List", "Get", "Summary", "Describe", "Create", "Delete", "Rename", "Share",
                          "Unshare", "RemoveFromRecent", "RemoveCollaborator"})
  \cup { [Base("notebooks", "List") EXCEPT !.max = 1], [Base("features", "List") EXCEPT !.max = 1],
         [Base("features", "Rename") EXCEPT !.title = " Beta"],
         [Base("notebooks", "Rename") EXCEPT !.title = ""],
         [Base("notebooks", "Rename") EXCEPT !.title = "", !.emoji = {"bell"}],
         [Base("notebooks", "Get") EXCEPT !.nb = " n1 "],
         [Base("notebooks", "RemoveCollaborator") EXCEPT !.email.at = FALSE] }
  \cup { Base("sources", "List"), [Base("sources", "List") EXCEPT !.max = 1],
         [Base("sources", "List") EXCEPT !.nb = "https://x"],
         Routed(Web), Routed(Tube), Routed(Note), Routed(Paper), Routed(Doc), With("AddURL", Spaced),
         With("AddText", Argument("")), With("AddFile", Lost), With("AddDrive", Inside) }
  \cup { Find("n1", "auto"), Find(" n1 ", "id"), Find("beta", "title"), Find("ALPHA", "title"),
         Find("alpha", "title"), Find(" ", "auto"),
         [Find("alp", "title") EXCEPT !.fuzzy = TRUE],
         [Find("alpha", "title") EXCEPT !.insensitive = FALSE],
         [Find("alpha", "title") EXCEPT !.project = "p"],
         [Find("n1", "auto") EXCEPT !.api = "resolve", !.op = "Resolve"] }
  \cup Plain("chat", {"Ask", "History", "ConversationID"})
  \cup {[Base("chat", "Ask") EXCEPT !.query = ""]}
=============================================================================
