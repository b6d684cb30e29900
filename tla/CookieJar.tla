----------------------------- MODULE CookieJar ------------------------------
(***************************************************************************)
(* internal/auth/cookiejar: what a jar makes of a Set-Cookie and what it   *)
(* sends, as operators on a set of entries.                                *)
(*                                                                         *)
(* A host is the sequence of its labels from the right: notebook.google.com*)
(* is <<"com", "google", "notebook">>, and a leading dot is a last label   *)
(* "".  A path is the sequence of its segments, <<>> being "/".  Times are *)
(* naturals, Session stands for the zero time.  Letter case is left out.   *)
(***************************************************************************)
EXTENDS Integers, SequencesExt

Session == -1

Google     == <<"com", "google">>
Accounts   == <<"com", "google", "accounts">>
Notebook   == <<"com", "google", "notebook">>
NotebookLM == <<"com", "google", "notebooklm">>

Dotted(h)  == Append(h, "")
TrimDot(h) == IF h # <<>> /\ Last(h) = "" THEN Front(h) ELSE h

\* A Set-Cookie, or the row a jar is seeded with.
SetCookie(name, value, domain, path, expires, secure) ==
  [name |-> name, value |-> value, domain |-> domain, path |-> path,
   expires |-> expires, maxAge |-> 0, secure |-> secure]

-----------------------------------------------------------------------------
(* publicsuffix.go: one entry of each kind of the list. *)

PublicSuffixes ==
  {<<"com">>, <<"uk", "co">>, <<"de", "google">>, <<"com", "googleusercontent">>}

IsPublicSuffix(domain) == TrimDot(domain) \in PublicSuffixes

-----------------------------------------------------------------------------
(* SetCookies *)

SecurePrefixed == {"__Secure-1PSIDTS"}
HostPrefixed   == {"__Host-id"}

\* validatePrefix
PrefixHolds(c, u) ==
  /\ c.name \in SecurePrefixed \cup HostPrefixed => c.secure /\ u.https
  /\ c.name \in HostPrefixed => c.domain = <<>> /\ c.path = <<>>

\* validateStdlibCookie
Acceptable(c, u) ==
  /\ c.domain = <<>> \/ ~IsPublicSuffix(c.domain)
  /\ PrefixHolds(c, u)

\* fromStdlib, with the host of the URL for a cookie without a Domain; a lone dot is none.
FromStdlib(c, u) ==
  LET domain == TrimDot(c.domain) IN
  [name |-> c.name, value |-> c.value, path |-> c.path, expires |-> c.expires,
   secure |-> c.secure, hostOnly |-> domain = <<>>,
   domain |-> IF domain = <<>> THEN u.host ELSE domain]

IsExpired(c, now) == c.expires # Session /\ c.expires <= now

\* Seeded fault: the path is not part of the identity.
FaultIdentity(c) == <<c.name, c.domain>>

Identity(c) == <<c.name, c.domain, c.path>>

\* What is refused or already expired is not stored.
Stored(c, u, now) ==
  Acceptable(c, u) /\ ~(c.maxAge < 0) /\ ~IsExpired(FromStdlib(c, u), now)

\* One cookie after the other, each at its URL: an entry takes the place of the one with
\* its identity, so that the last of an identity wins.
SetEach(jar, urls, cookies, now) ==
  LET stored   == {i \in DOMAIN cookies : Stored(cookies[i], urls[i], now)}
      entry(i) == FromStdlib(cookies[i], urls[i])
      replaced(c, later) == \E i \in later : Identity(entry(i)) = Identity(c)
      last(i)  == ~replaced(entry(i), {k \in stored : k > i})
  IN {c \in jar : ~replaced(c, stored)} \cup {entry(i) : i \in {k \in stored : last(k)}}

\* SetCookies: the headers of one answer.
SetCookies(jar, u, cookies, now) ==
  SetEach(jar, [i \in DOMAIN cookies |-> u], cookies, now)

-----------------------------------------------------------------------------
(* Cookies *)

DomainMatch(c, host) ==
  c.domain = host \/ (~c.hostOnly /\ IsPrefix(c.domain, host))

PathMatch(cookiePath, path) == IsPrefix(cookiePath, path)

\* Seeded fault: a cookie whose time came after it was stored is still sent.
FaultMatches(c, u, now) ==
  /\ c.secure => u.https
  /\ DomainMatch(c, u.host)
  /\ PathMatch(c.path, u.path)

Matches(c, u, now) ==
  /\ ~IsExpired(c, now)
  /\ c.secure => u.https
  /\ DomainMatch(c, u.host)
  /\ PathMatch(c.path, u.path)

\* selectCookie: the host itself before its parents, then the longest path.  Parents
\* with paths of one length come in the order of a Go map, which is any order.
Select(candidates, u) ==
  LET exact == {c \in candidates : c.domain = u.host}
      pool  == IF exact # {} THEN exact ELSE candidates
  IN {c \in pool : \A d \in pool : Len(d.path) <= Len(c.path)}

\* What Cookies may return: one winner for each name.
Cookies(jar, u, now) ==
  LET matching == {c \in jar : Matches(c, u, now)}
      of(n)    == {c \in matching : c.name = n}
      names    == {c.name : c \in matching}
      winners  == UNION {Select(of(n), u) : n \in names}
  IN {s \in SUBSET winners : \A n \in names : \E c \in s : {d \in s : d.name = n} = {c}}
=============================================================================
