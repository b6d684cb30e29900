---------------------------- MODULE StorageState ----------------------------
(***************************************************************************)
(* internal/auth/storage and internal/auth/profile: what is read from and  *)
(* written to storage_state.json.  A document has a shape ("object", "array"*)
(* or "scalar"), rows, and the account of its namespace.  A row may be no  *)
(* object, and each of its expiry fields may be Missing or a Fraction.     *)
(***************************************************************************)
EXTENDS CookieJar

Missing  == -2
Fraction == -3      \* 1.5, say

NoAccount == [authuser |-> 0, email |-> ""]

SameSites == {"Strict", "Lax", "None"}

-----------------------------------------------------------------------------
(* normalizers.go *)

\* normalizeCookieRows: stray scalars go, expirationDate stands in for expires.  The
\* rows that stay keep their positions, of which only the order matters.
NormalizeCookieRows(rows) ==
  LET spelled(r) == IF r.expires = Missing /\ r.expirationDate # Missing
                    THEN [r EXCEPT !.expires = r.expirationDate, !.expirationDate = Missing]
                    ELSE r
  IN [i \in {k \in DOMAIN rows : rows[k].object} |-> spelled(rows[i])]

\* The typed decode: the whole document fails on one fraction, and a field that is
\* not there is 0.
Decodes(rows) == \A i \in DOMAIN rows : rows[i].expires # Fraction

DecodedExpires(r) == IF r.expires = Missing THEN 0 ELSE r.expires

\* fromWireView and normalizeCookieAttributes: -1 is a session cookie.  Here nil is
\* Session as well.
NormalizeCookieAttributes(r) ==
  [name |-> r.name, value |-> r.value, domain |-> r.domain, path |-> r.path,
   expires |-> DecodedExpires(r), secure |-> r.secure, hostOnly |-> r.hostOnly,
   sameSite |-> IF r.sameSite \in SameSites THEN r.sameSite ELSE ""]

\* normalizeTopLevel and Unmarshal: a set of at most one storage.
Unmarshal(doc) ==
  LET rows == NormalizeCookieRows(doc.rows) IN
  IF doc.shape = "scalar" \/ ~Decodes(rows) THEN {}
  ELSE {[cookies |-> [i \in DOMAIN rows |-> NormalizeCookieAttributes(rows[i])],
         account |-> IF doc.shape = "array" THEN NoAccount ELSE doc.account]}

\* mergeInBandAccount: the account in the document wins when it says anything.
MergeInBandAccount(account, legacy) ==
  IF account # NoAccount THEN account ELSE legacy

\* Read: Unmarshal, then the legacy context.json beside the document.
ReadDocument(doc, legacy) ==
  {[s EXCEPT !.account = MergeInBandAccount(@, legacy)] : s \in Unmarshal(doc)}

\* DiskStore.Read: the same document without the legacy file.
ReadProfile(doc) == Unmarshal(doc)

\* Seeded fault: a session cookie is written as 0.
FaultToWireView(c) == [c EXCEPT !.expires = IF @ = Session THEN 0 ELSE @]

\* toWireView: a session cookie is written as -1.
ToWireView(c) == c

\* Marshal and Write.
Marshal(s) ==
  [shape |-> "object", account |-> s.account,
   rows |-> [i \in DOMAIN s.cookies |->
     LET c == ToWireView(s.cookies[i]) IN
     [object |-> TRUE, name |-> c.name, value |-> c.value, domain |-> c.domain,
      path |-> c.path, expires |-> c.expires, expirationDate |-> Missing,
      secure |-> c.secure, hostOnly |-> c.hostOnly, sameSite |-> c.sameSite]]]

-----------------------------------------------------------------------------
(* From storage to a jar *)

\* auth.storageToStdlib: every row that names a domain becomes a domain cookie.
StorageToStdlib(c) ==
  SetCookie(c.name, c.value, c.domain, c.path, c.expires, c.secure)

\* auth.seedJar: each row is set at its own domain; without one, at ".google.com".
SeedJar(s, now) ==
  LET url(c) == [host |-> IF TrimDot(c.domain) = <<>> THEN Dotted(Google)
                          ELSE TrimDot(c.domain),
                 path |-> c.path, https |-> TRUE]
      named == {i \in DOMAIN s.cookies : s.cookies[i].name # ""}
  IN SetEach({}, [i \in named |-> url(s.cookies[i])],
             [i \in named |-> StorageToStdlib(s.cookies[i])], now)

\* refresh.toStdlib: a host-only row stays host-only.
ProfileToStdlib(c) ==
  SetCookie(c.name, c.value, IF c.hostOnly THEN <<>> ELSE TrimDot(c.domain), c.path,
            c.expires, c.secure)

\* refresh.seedJar: on top of what the jar holds, rows without a domain left out.
ReseedJar(jar, s, now) ==
  LET url(c) == [host |-> TrimDot(c.domain), path |-> c.path, https |-> TRUE]
      hosted == {i \in DOMAIN s.cookies : TrimDot(s.cookies[i].domain) # <<>>}
  IN SetEach(jar, [i \in hosted |-> url(s.cookies[i])],
             [i \in hosted |-> ProfileToStdlib(s.cookies[i])], now)
=============================================================================
