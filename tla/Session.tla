------------------------------ MODULE Session -------------------------------
(***************************************************************************)
(* A signed-in session over its whole life: internal/auth.LoadFromStorage  *)
(* reads the document, seeds a jar, passes it through the policy gate and  *)
(* fetches the tokens; the transport then sends the jar's cookies and takes*)
(* the Set-Cookies of the answers, while time goes on, somebody reloads the*)
(* jar from disk and the storage is written back.                          *)
(***************************************************************************)
EXTENDS AuthPolicy, StorageState

CONSTANTS
  Docs,        \* documents that may be on disk
  Legacies,    \* accounts that may be in the context.json beside them
  URLs,        \* what is requested
  Responses,   \* the Set-Cookie headers of an answer: sequences of SetCookie
  MaxTime      \* the clock stops here

ASSUME SessionAssumption ==
  /\ MaxTime \in Nat \ {0}
  /\ \A u \in URLs : u.host # <<>>
  /\ \A d \in Docs : DOMAIN d.rows \subseteq Nat
  /\ \A r \in Responses : DOMAIN r \subseteq Nat

VARIABLES
  disk,        \* a set: the document, or nothing
  legacy,
  store,       \* a set: the storage that was read, or nothing
  jar,
  now,
  pc,          \* "new", "fetching", "ready", "failed"
  reason,      \* why it failed
  loadedAt,    \* ghost: when the jar was seeded
  sent,        \* the last request: its URL, cookies and time
  received     \* the last answer: its URL and Set-Cookies

session == <<pc, reason, loadedAt>>
vars == <<disk, legacy, store, jar, now, session, sent, received>>

NoRequest == [url |-> [host |-> <<>>, path |-> <<>>, https |-> TRUE], cookies |-> {}, at |-> 0]
NoAnswer  == [url |-> NoRequest.url, cookies |-> <<>>]

Init ==
  /\ disk \in {{}} \cup {{d} : d \in Docs}
  /\ legacy \in Legacies
  /\ store = {} /\ jar = {}
  /\ now = 1
  /\ pc = "new" /\ reason = "" /\ loadedAt = 0
  /\ sent = NoRequest /\ received = NoAnswer

-----------------------------------------------------------------------------
(* LoadFromStorage *)

\* resolveSource: what a path gives.
Resolve == UNION {ReadDocument(d, legacy) : d \in disk}

\* A file that is not there or cannot be parsed.
LoadUnreadable ==
  /\ pc = "new" /\ Resolve = {}
  /\ pc' = "failed" /\ reason' = "StorageRead"
  /\ UNCHANGED <<disk, legacy, store, jar, now, loadedAt, sent, received>>

\* seedJar: a fresh jar, which only leaves when the policy lets it.
LoadSeed ==
  /\ pc = "new"
  /\ \E s \in Resolve, verdict \in {"ok", "MissingCookie", "PSIDTSUnroutable",
                                    "UnrecognizedHost", "NoSecondaryBinding"} :
       LET seeded == SeedJar(s, now) IN
       /\ verdict \in Validate(seeded)
       /\ reason' = verdict
       /\ IF verdict = "ok"
          THEN /\ pc' = "fetching" /\ jar' = seeded /\ store' = {s} /\ loadedAt' = now
          ELSE pc' = "failed" /\ UNCHANGED <<jar, store, loadedAt>>
  /\ UNCHANGED <<disk, legacy, now, sent, received>>

\* The fetcher goes out with the jar, and the answer's cookies come into it.  Tokens
\* in the page or none decide how it ends.
LoadFetch(u, cookies) ==
  /\ pc = "fetching"
  /\ \E out \in Cookies(jar, u, now) : sent' = [url |-> u, cookies |-> out, at |-> now]
  /\ received' = [url |-> u, cookies |-> cookies]
  /\ jar' = SetCookies(jar, u, cookies, now)
  /\ \/ pc' = "ready" /\ UNCHANGED reason
     \/ pc' = "failed" /\ reason' = "TokenMissing"
  /\ UNCHANGED <<disk, legacy, store, now, loadedAt>>

\* The caller tries again; a fresh jar takes the place of the old one.
LoadAgain ==
  /\ pc = "failed"
  /\ pc' = "new" /\ reason' = "" /\ jar' = {} /\ store' = {}
  /\ UNCHANGED <<disk, legacy, now, loadedAt, sent, received>>

-----------------------------------------------------------------------------
(* A session in use *)

Request(u) ==
  /\ pc = "ready"
  /\ \E out \in Cookies(jar, u, now) : sent' = [url |-> u, cookies |-> out, at |-> now]
  /\ UNCHANGED <<disk, legacy, store, jar, now, session, received>>

Response(cookies) ==
  /\ pc = "ready" /\ sent # NoRequest
  /\ received' = [url |-> sent.url, cookies |-> cookies]
  /\ jar' = SetCookies(jar, sent.url, cookies, now)
  /\ UNCHANGED <<disk, legacy, store, now, session, sent>>

\* ReloadL1's seedJar, on the jar in use.
Reload ==
  /\ pc = "ready"
  /\ \E d \in disk : \E s \in ReadProfile(d) : jar' = ReseedJar(jar, s, now)
  /\ UNCHANGED <<disk, legacy, store, now, session, sent, received>>

\* storage.Write of what was read.
Save ==
  /\ \E s \in store : disk' = {Marshal(s)}
  /\ UNCHANGED <<legacy, store, jar, now, session, sent, received>>

Tick ==
  /\ now < MaxTime
  /\ now' = now + 1
  /\ UNCHANGED <<disk, legacy, store, jar, session, sent, received>>

Next ==
  \/ LoadUnreadable \/ LoadSeed \/ LoadAgain
  \/ \E u \in URLs, cookies \in Responses : LoadFetch(u, cookies)
  \/ \E u \in URLs : Request(u)
  \/ \E cookies \in Responses : Response(cookies)
  \/ Reload \/ Save \/ Tick

Spec == Init /\ [][Next]_vars

-----------------------------------------------------------------------------
(* Properties *)

TypeOK ==
  /\ \A d, e \in disk : d = e
  /\ \A s, t \in store : s = t
  /\ pc \in {"new", "fetching", "ready", "failed"}
  /\ now \in 1 .. MaxTime /\ loadedAt \in 0 .. now
  /\ \A c \in jar : c.domain # <<>> /\ c.hostOnly \in BOOLEAN
  /\ \A c, d \in jar : Identity(c) = Identity(d) => c = d

\* A session only starts from a document that has the two required cookies and a
\* secondary binding among the rows that had not expired when it was loaded: a file
\* of old cookies is refused before anything is sent.
StartsOnLiveRows ==
  pc = "fetching" =>
    \A s \in store :
      LET live == {s.cookies[i] : i \in {k \in DOMAIN s.cookies :
                                           ~IsExpired(s.cookies[k], loadedAt)}}
      IN /\ {SID, PSIDTS} \subseteq Names(live)
         /\ HasValidSecondaryBinding(Names(live))

\* What a host-only Set-Cookie left (its value is the host that set it) goes back to
\* that host and to no other, whatever was reloaded and saved in between: the
\* cookie of notebook.google.com is not taken for the one of notebooklm.google.com.
HostOnlyStaysHome ==
  \A c \in sent.cookies : c.value = "own" /\ c.hostOnly => c.domain = sent.url.host

\* A request carries no cookie that had expired when it was sent, one cookie of a
\* name, and for a name the host has a cookie of its own for, that one.
SentIsLive ==
  /\ \A c \in sent.cookies : ~IsExpired(c, sent.at)
  /\ \A c, d \in sent.cookies : c.name = d.name => c = d

\* Every request carries live cookies of its own host or domain, and those alone.
SendsItsOwn == TypeOK /\ HostOnlyStaysHome /\ SentIsLive

\* An answer changes the entries it names and no others: a same-named cookie of
\* another host or path survives it (issue #369).
SetIsLocal ==
  [][LET key(c)  == <<c.name, c.domain, c.path>>
         named   == {key(FromStdlib(received'.cookies[i], received'.url)) :
                       i \in DOMAIN received'.cookies}
     IN received' # received => \A c \in jar : key(c) \notin named => c \in jar']_vars

\* Saving loses nothing: reading the document back gives the storage it was written
\* from, and a legacy context.json never overrules an account that was saved.
SaveRoundTrips ==
  [][disk' # disk =>
       \A s \in store : \A l \in Legacies :
         LET back == UNION {ReadDocument(d, l) : d \in disk'} IN
         /\ {b.cookies : b \in back} = {s.cookies}
         /\ s.account # NoAccount => {b.account : b \in back} = {s.account}]_vars
=============================================================================
