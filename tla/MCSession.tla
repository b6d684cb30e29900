------------------------------ MODULE MCSession -----------------------------
EXTENDS Session

Row(name, domain, path, expires) ==
  [object |-> TRUE, name |-> name, value |-> "disk", domain |-> domain, path |-> path,
   expires |-> expires, expirationDate |-> Missing, secure |-> TRUE, hostOnly |-> FALSE,
   sameSite |-> "lax?"]

HostRow(name, domain, expires) == [Row(name, domain, <<>>, expires) EXCEPT !.hostOnly = TRUE]

Stray == [Row("", <<>>, <<>>, Session) EXCEPT !.object = FALSE]

Alt(row, expires) == [row EXCEPT !.expires = Missing, !.expirationDate = expires]

Doc(shape, rows, account) == [shape |-> shape, rows |-> rows, account |-> account]

Me == [authuser |-> 1, email |-> "me"]
Old == [authuser |-> 2, email |-> "old"]

DotGoogle == Dotted(Google)

MCDocs ==
  { \* signed in: a session SID, a PSIDTS that expires, OSID on one of the two hosts
    Doc("object", <<Row("SID", DotGoogle, <<>>, Session), Row(PSIDTS, DotGoogle, <<>>, 3),
                    HostRow("OSID", Notebook, Session)>>, Me),
    \* a browser export: a bare array, the other spelling, a stray scalar
    Doc("array", <<Row("SID", DotGoogle, <<>>, Session), Stray,
                   Alt(Row(PSIDTS, DotGoogle, <<>>, Missing), 3),
                   Row("OSID", DotGoogle, <<>>, 2)>>, NoAccount),
    \* no expires at all
    Doc("object", <<Row("SID", DotGoogle, <<>>, Session), Row(PSIDTS, DotGoogle, <<>>, Missing),
                    Row("OSID", DotGoogle, <<>>, Session)>>, NoAccount),
    \* an expired PSIDTS, an unroutable one, a stranger, no binding
    Doc("object", <<Row("SID", DotGoogle, <<>>, Session), Row(PSIDTS, DotGoogle, <<>>, 1),
                    Row("OSID", DotGoogle, <<>>, Session)>>, NoAccount),
    Doc("object", <<Row("SID", DotGoogle, <<>>, Session), Row(PSIDTS, Notebook, <<>>, 3),
                    Row("OSID", DotGoogle, <<>>, Session)>>, NoAccount),
    Doc("object", <<Row("SID", DotGoogle, <<>>, Session), Row(PSIDTS, DotGoogle, <<>>, 3),
                    Row("OSID", <<"org", "other">>, <<>>, Session)>>, NoAccount),
    Doc("object", <<Row("SID", DotGoogle, <<>>, Session), Row(PSIDTS, DotGoogle, <<>>, 3)>>, Me),
    \* not decodable
    Doc("object", <<Row("SID", DotGoogle, <<>>, Fraction)>>, Me),
    Doc("scalar", <<>>, NoAccount) }

MCLegacies == {NoAccount, Old}

Url(host, path) == [host |-> host, path |-> path, https |-> TRUE]

MCURLs == {Url(Notebook, <<>>), Url(NotebookLM, <<"data">>), Url(Google, <<>>)}

\* "own" for a cookie the answering host keeps to itself, "site" for one of all.
MCResponses ==
  { <<SetCookie("OSID", "own", <<>>, <<>>, Session, TRUE)>>,
    <<SetCookie(PSIDTS, "site", DotGoogle, <<>>, 4, TRUE),
      SetCookie("SID", "site", <<"com">>, <<>>, Session, TRUE)>>,
    <<SetCookie("OSID", "site", DotGoogle, <<"data">>, 3, TRUE),
      SetCookie("SID", "site", DotGoogle, <<>>, 1, TRUE)>> }
=============================================================================
