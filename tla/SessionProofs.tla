---------------------------- MODULE SessionProofs ---------------------------
(***************************************************************************)
(* Proofs about a session, for any documents, accounts, URLs and answers:  *)
(* a jar has one entry of an identity, requests carry live cookies of      *)
(* their own host or domain, an answer changes only what it names, a       *)
(* session starts on live rows, and what was saved is read back.           *)
(***************************************************************************)
EXTENDS Session, SequenceTheorems, TLAPS

-----------------------------------------------------------------------------
(* The jar *)

\* What an entry of a jar is: it has a domain, and it is host-only or not.
Entry(c) == c.domain # <<>> /\ c.hostOnly \in BOOLEAN

\* A jar has one entry of an identity.
JarOK(j) ==
  /\ \A c \in j : Entry(c)
  /\ \A c, d \in j : Identity(c) = Identity(d) => c = d

\* Setting a row of cookies leaves a jar a jar, whatever their order: the last of an
\* identity takes the place of the others and of the entry that was there.
LEMMA SetEachKeepsJar ==
  ASSUME NEW j, JarOK(j), NEW urls, NEW cookies, NEW t, DOMAIN cookies \subseteq Int,
         \A i \in DOMAIN cookies : urls[i].host # <<>>
  PROVE  JarOK(SetEach(j, urls, cookies, t))
<1> DEFINE stored   == {i \in DOMAIN cookies : Stored(cookies[i], urls[i], t)}
           entry(i) == FromStdlib(cookies[i], urls[i])
           replaced(c, later) == \E i \in later : Identity(entry(i)) = Identity(c)
           last(i)  == ~replaced(entry(i), {k \in stored : k > i})
           kept     == {c \in j : ~replaced(c, stored)}
           new      == {entry(i) : i \in {k \in stored : last(k)}}
<1>1. SetEach(j, urls, cookies, t) = kept \cup new
  BY DEF SetEach
<1>2. \A i \in stored : Entry(entry(i))
  BY DEF Entry, FromStdlib
<1>3. \A c \in kept \cup new : Entry(c)
  BY <1>2 DEF JarOK
<1>4. ASSUME NEW c \in kept, NEW d \in new
      PROVE  Identity(c) # Identity(d)
  OBVIOUS
<1>5. ASSUME NEW i \in stored, NEW k \in stored, last(i), last(k),
             Identity(entry(i)) = Identity(entry(k))
      PROVE  i = k
  <2>1. ~(k > i) /\ ~(i > k)
    BY <1>5
  <2>2. QED
    BY <2>1
<1>6. ASSUME NEW c \in new, NEW d \in new, Identity(c) = Identity(d)
      PROVE  c = d
  <2>1. PICK i \in stored : last(i) /\ c = entry(i)
    OBVIOUS
  <2>2. PICK k \in stored : last(k) /\ d = entry(k)
    OBVIOUS
  <2>3. QED
    BY <1>5, <1>6, <2>1, <2>2
<1>7. \A c, d \in kept : Identity(c) = Identity(d) => c = d
  BY DEF JarOK
<1>8. \A c, d \in kept \cup new : Identity(c) = Identity(d) => c = d
  <2> HIDE DEF kept, new
  <2> QED  BY <1>4, <1>6, <1>7
<1>9. QED
  BY <1>1, <1>3, <1>8 DEF JarOK

\* An entry that no cookie of the row names stays.
LEMMA SetEachIsLocal ==
  ASSUME NEW j, NEW urls, NEW cookies, NEW t, NEW c \in j,
         \A i \in DOMAIN cookies : Identity(FromStdlib(cookies[i], urls[i])) # Identity(c)
  PROVE  c \in SetEach(j, urls, cookies, t)
BY DEF SetEach

\* An entry of the new jar was there, or comes from a cookie that had not expired.
LEMMA SetEachComesFrom ==
  ASSUME NEW j, NEW urls, NEW cookies, NEW t, NEW c \in SetEach(j, urls, cookies, t)
  PROVE  c \in j \/ \E i \in DOMAIN cookies :
                       c = FromStdlib(cookies[i], urls[i]) /\ ~IsExpired(c, t)
BY DEF SetEach, Stored

\* What a request carries comes from the jar and matches, and is one of its name.
LEMMA CookiesMatch ==
  ASSUME NEW j, NEW u, NEW t, NEW out \in Cookies(j, u, t)
  PROVE  /\ \A c \in out : c \in j /\ Matches(c, u, t)
         /\ \A c, d \in out : c.name = d.name => c = d
<1> DEFINE matching == {c \in j : Matches(c, u, t)}
           names    == {c.name : c \in matching}
           winners  == UNION {Select({c \in matching : c.name = n}, u) : n \in names}
<1>1. out \subseteq winners
  BY DEF Cookies
<1>2. winners \subseteq matching
  BY DEF Select
<1>3. \A n \in names : \E c \in out : {d \in out : d.name = n} = {c}
  BY DEF Cookies
<1>4. ASSUME NEW c \in out, NEW d \in out, c.name = d.name
      PROVE  c = d
  <2>1. c.name \in names
    BY <1>1, <1>2
  <2>2. PICK e \in out : {x \in out : x.name = c.name} = {e}
    BY <1>3, <2>1
  <2>3. c \in {x \in out : x.name = c.name} /\ d \in {x \in out : x.name = c.name}
    BY <1>4
  <2>4. QED
    BY <2>2, <2>3
<1>5. QED
  BY <1>1, <1>2, <1>4

-----------------------------------------------------------------------------
(* Documents and storages *)

\* What a read makes of a document: every row has its fields, an expiry that is neither
\* missing nor a fraction, and a spelling of sameSite that is known.  Such a row is
\* written and read back as it is.
CleanRow(c) ==
  /\ c = [name |-> c.name, value |-> c.value, domain |-> c.domain, path |-> c.path,
          expires |-> c.expires, secure |-> c.secure, hostOnly |-> c.hostOnly,
          sameSite |-> c.sameSite]
  /\ c.expires \notin {Missing, Fraction}
  /\ c.sameSite \in SameSites \cup {""}

Clean(s) ==
  /\ s = [cookies |-> s.cookies, account |-> s.account]
  /\ s.cookies = [i \in DOMAIN s.cookies |-> s.cookies[i]]
  /\ DOMAIN s.cookies \subseteq Nat
  /\ \A i \in DOMAIN s.cookies : CleanRow(s.cookies[i])

\* Whatever is decoded is clean.
LEMMA UnmarshalIsClean ==
  ASSUME NEW d, DOMAIN d.rows \subseteq Nat, NEW s \in Unmarshal(d)
  PROVE  Clean(s)
<1> DEFINE rows == NormalizeCookieRows(d.rows)
<1>1. DOMAIN rows \subseteq Nat
  BY DEF NormalizeCookieRows
<1>2. /\ Decodes(rows)
      /\ s = [cookies |-> [i \in DOMAIN rows |-> NormalizeCookieAttributes(rows[i])],
              account |-> IF d.shape = "array" THEN NoAccount ELSE d.account]
  BY DEF Unmarshal
<1> HIDE DEF rows
<1>3. ASSUME NEW i \in DOMAIN rows
      PROVE  CleanRow(NormalizeCookieAttributes(rows[i]))
  <2>1. rows[i].expires # Fraction
    BY <1>2 DEF Decodes
  <2>2. DecodedExpires(rows[i]) \notin {Missing, Fraction}
    BY <2>1 DEF DecodedExpires, Missing, Fraction
  <2>3. QED
    BY <2>2 DEF NormalizeCookieAttributes, CleanRow
<1>4. QED
  BY <1>1, <1>2, <1>3 DEF Clean

\* So is a storage with the account of the legacy file.
LEMMA ReadIsClean ==
  ASSUME NEW d, DOMAIN d.rows \subseteq Nat, NEW l, NEW s \in ReadDocument(d, l)
  PROVE  Clean(s)
<1>1. PICK r \in Unmarshal(d) : s = [r EXCEPT !.account = MergeInBandAccount(@, l)]
  BY DEF ReadDocument
<1>2. Clean(r)
  BY UnmarshalIsClean
<1>3. s = [cookies |-> r.cookies, account |-> MergeInBandAccount(r.account, l)]
  BY <1>1, <1>2 DEF Clean
<1>4. QED
  BY <1>2, <1>3 DEF Clean

\* A clean storage is written and decoded as it is.
LEMMA MarshalUnmarshal ==
  ASSUME NEW s, Clean(s)
  PROVE  Unmarshal(Marshal(s)) = {s} /\ DOMAIN Marshal(s).rows \subseteq Nat
<1> DEFINE doc  == Marshal(s)
           rows == NormalizeCookieRows(doc.rows)
<1>1. DOMAIN doc.rows = DOMAIN s.cookies
  BY DEF Marshal
<1>2. ASSUME NEW i \in DOMAIN s.cookies
      PROVE  /\ doc.rows[i].object = TRUE
             /\ doc.rows[i].expires = s.cookies[i].expires
             /\ doc.rows[i].name = s.cookies[i].name
             /\ doc.rows[i].value = s.cookies[i].value
             /\ doc.rows[i].domain = s.cookies[i].domain
             /\ doc.rows[i].path = s.cookies[i].path
             /\ doc.rows[i].secure = s.cookies[i].secure
             /\ doc.rows[i].hostOnly = s.cookies[i].hostOnly
             /\ doc.rows[i].sameSite = s.cookies[i].sameSite
  BY DEF Marshal, ToWireView
<1>3. doc.shape = "object" /\ doc.account = s.account
  BY DEF Marshal
<1> HIDE DEF doc
<1>4. DOMAIN rows = DOMAIN s.cookies
  BY <1>1, <1>2 DEF NormalizeCookieRows
<1>5. \A i \in DOMAIN s.cookies : rows[i] = doc.rows[i]
  BY <1>1, <1>2 DEF NormalizeCookieRows, Clean, CleanRow
<1> HIDE DEF rows
<1>6. ASSUME NEW i \in DOMAIN s.cookies
      PROVE  NormalizeCookieAttributes(rows[i]) = s.cookies[i]
  <2>1. CleanRow(s.cookies[i])
    BY DEF Clean
  <2>2. DecodedExpires(rows[i]) = s.cookies[i].expires
    BY <1>2, <1>5, <2>1 DEF DecodedExpires, CleanRow
  <2>3. PICK c : c = s.cookies[i]
    OBVIOUS
  <2>4. PICK r : r = rows[i]
    OBVIOUS
  <2>5. /\ r.name = c.name /\ r.value = c.value /\ r.domain = c.domain
        /\ r.path = c.path /\ r.secure = c.secure /\ r.hostOnly = c.hostOnly
        /\ r.sameSite = c.sameSite
    BY <1>2, <1>5, <2>3, <2>4
  <2>6. (IF r.sameSite \in SameSites THEN r.sameSite ELSE "") = c.sameSite
    BY <2>1, <2>3, <2>5 DEF CleanRow
  <2>7. NormalizeCookieAttributes(r) =
          [name |-> c.name, value |-> c.value, domain |-> c.domain, path |-> c.path,
           expires |-> c.expires, secure |-> c.secure, hostOnly |-> c.hostOnly,
           sameSite |-> c.sameSite]
    BY <2>2, <2>3, <2>4, <2>5, <2>6 DEF NormalizeCookieAttributes
  <2>8. QED
    BY <2>1, <2>3, <2>4, <2>7 DEF CleanRow
<1>7. Decodes(rows)
  <2>1. \A i \in DOMAIN s.cookies : s.cookies[i].expires # Fraction
    BY DEF Clean, CleanRow
  <2>2. QED
    BY <1>2, <1>4, <1>5, <2>1 DEF Decodes
<1>8. [i \in DOMAIN rows |-> NormalizeCookieAttributes(rows[i])] = s.cookies
  BY <1>4, <1>6 DEF Clean
<1>9. Unmarshal(doc) = {[cookies |-> s.cookies, account |-> s.account]}
  BY <1>3, <1>7, <1>8 DEF Unmarshal, rows
<1>10. QED
  BY <1>1, <1>9 DEF Clean, doc

-----------------------------------------------------------------------------
(* Seeding *)

\* A fresh jar is seeded from live rows only.
LEMMA SeedJarIsLive ==
  ASSUME NEW s, Clean(s), NEW t
  PROVE  /\ JarOK(SeedJar(s, t))
         /\ \A c \in SeedJar(s, t) : \E i \in DOMAIN s.cookies :
              c.name = s.cookies[i].name /\ ~IsExpired(s.cookies[i], t)
<1> DEFINE url(c) == [host |-> IF TrimDot(c.domain) = <<>> THEN Dotted(Google)
                               ELSE TrimDot(c.domain),
                      path |-> c.path, https |-> TRUE]
           named   == {i \in DOMAIN s.cookies : s.cookies[i].name # ""}
           urls    == [i \in named |-> url(s.cookies[i])]
           cookies == [i \in named |-> StorageToStdlib(s.cookies[i])]
<1>1. SeedJar(s, t) = SetEach({}, urls, cookies, t)
  BY DEF SeedJar
<1>2. Dotted(Google) # <<>>
  <2>1. Google \in Seq({"com", "google", ""}) /\ "" \in {"com", "google", ""}
    BY DEF Google
  <2>2. Append(Google, "") # <<>>
    BY <2>1, AppendProperties
  <2>3. QED
    BY <2>2 DEF Dotted
<1>3. \A i \in DOMAIN cookies : urls[i].host # <<>>
  BY <1>2
<1>4. DOMAIN cookies \subseteq Int
  <2>1. named \subseteq Nat /\ DOMAIN cookies = named
    BY DEF Clean
  <2> HIDE DEF cookies, named
  <2>2. QED
    BY <2>1
<1>5. JarOK({})
  BY DEF JarOK
<1>6. ASSUME NEW i \in named
      PROVE  /\ cookies[i].name = s.cookies[i].name
             /\ cookies[i].expires = s.cookies[i].expires
  BY DEF StorageToStdlib, SetCookie
<1>7. DOMAIN cookies = named
  OBVIOUS
<1> HIDE DEF urls, cookies
<1>8. JarOK(SeedJar(s, t))
  BY <1>1, <1>3, <1>4, <1>5, SetEachKeepsJar
<1>9. ASSUME NEW c \in SeedJar(s, t)
      PROVE  \E i \in DOMAIN s.cookies :
               c.name = s.cookies[i].name /\ ~IsExpired(s.cookies[i], t)
  <2>1. PICK i \in DOMAIN cookies :
          c = FromStdlib(cookies[i], urls[i]) /\ ~IsExpired(c, t)
    BY <1>1, <1>9, SetEachComesFrom
  <2>2. c.name = s.cookies[i].name /\ c.expires = s.cookies[i].expires
    BY <1>6, <1>7, <2>1 DEF FromStdlib
  <2>3. ~IsExpired(s.cookies[i], t)
    BY <2>1, <2>2 DEF IsExpired
  <2>4. QED
    BY <1>7, <2>2, <2>3
<1>10. QED
  BY <1>8, <1>9

\* A reload leaves the jar in use a jar.
LEMMA ReseedKeepsJar ==
  ASSUME NEW j, JarOK(j), NEW s, Clean(s), NEW t
  PROVE  JarOK(ReseedJar(j, s, t))
<1> DEFINE url(c)  == [host |-> TrimDot(c.domain), path |-> c.path, https |-> TRUE]
           hosted  == {i \in DOMAIN s.cookies : TrimDot(s.cookies[i].domain) # <<>>}
           urls    == [i \in hosted |-> url(s.cookies[i])]
           cookies == [i \in hosted |-> ProfileToStdlib(s.cookies[i])]
<1>1. ReseedJar(j, s, t) = SetEach(j, urls, cookies, t)
  BY DEF ReseedJar
<1>2. \A i \in DOMAIN cookies : urls[i].host # <<>>
  OBVIOUS
<1>3. DOMAIN cookies \subseteq Int
  <2>1. hosted \subseteq Nat /\ DOMAIN cookies = hosted
    BY DEF Clean
  <2> HIDE DEF cookies, hosted
  <2>2. QED
    BY <2>1
<1> HIDE DEF urls, cookies
<1>4. QED
  BY <1>1, <1>2, <1>3, SetEachKeepsJar

\* The gate lets a jar pass only with the required cookies and a secondary binding.
LEMMA GateAsksForBindings ==
  ASSUME NEW j, "ok" \in Validate(j)
  PROVE  {SID, PSIDTS} \subseteq Names(j) /\ HasValidSecondaryBinding(Names(j))
<1>1. MissingMinimum(Names(j)) = {}
  BY DEF Validate
<1>2. HasValidSecondaryBinding(Names(j))
  BY <1>1 DEF Validate
<1>3. QED
  BY <1>1, <1>2 DEF MissingMinimum, MinimumRequiredCookies

-----------------------------------------------------------------------------
(* The invariant of a session *)

\* Beside what the run checks: documents are lists and storages clean, so that a read or
\* a reload meets no row the decoder would not have let through, and the last request went
\* to one of the URLs, so that its answer is set at a host.
SessionInv ==
  /\ TypeOK /\ StartsOnLiveRows /\ HostOnlyStaysHome /\ SentIsLive
  /\ \A d \in disk : DOMAIN d.rows \subseteq Nat
  /\ \A s \in store : Clean(s)
  /\ sent = NoRequest \/ sent.url \in URLs

\* The part of the type invariant that is about the jar.
LEMMA JarIsTyped == TypeOK => JarOK(jar)
BY DEF TypeOK, JarOK, Entry

\* Nothing is loaded at first.
LEMMA InitSession == Init => SessionInv
<1> SUFFICES ASSUME Init
             PROVE  SessionInv
  OBVIOUS
<1>1. (\A d, e \in disk : d = e) /\ \A d \in disk : DOMAIN d.rows \subseteq Nat
  BY SessionAssumption DEF Init
<1>2. sent.cookies = {} /\ jar = {} /\ store = {} /\ sent = NoRequest
  BY DEF Init, NoRequest
<1>3. now = 1 /\ loadedAt = 0 /\ pc = "new" /\ 1 \in 1..MaxTime
  <2>1. 1 \in 1..MaxTime
    BY SessionAssumption
  <2>2. QED
    BY <2>1 DEF Init, session
<1>4. TypeOK
  BY <1>1, <1>2, <1>3 DEF TypeOK
<1>5. QED
  BY <1>1, <1>2, <1>3, <1>4
     DEF SessionInv, StartsOnLiveRows, HostOnlyStaysHome, SentIsLive

\* Loading: a document that cannot be read, or a jar seeded from it and gated.
LEMMA SeedKeeps == SessionInv /\ LoadSeed => SessionInv'
<1> SUFFICES ASSUME SessionInv, LoadSeed
             PROVE  SessionInv'
  OBVIOUS
<1> USE DEF SessionInv, TypeOK
<1>1. PICK s \in Resolve, verdict \in {"ok", "MissingCookie", "PSIDTSUnroutable",
                                     "UnrecognizedHost", "NoSecondaryBinding"} :
        /\ verdict \in Validate(SeedJar(s, now))
        /\ reason' = verdict
        /\ IF verdict = "ok"
           THEN /\ pc' = "fetching" /\ jar' = SeedJar(s, now) /\ store' = {s}
                /\ loadedAt' = now
           ELSE pc' = "failed" /\ UNCHANGED <<jar, store, loadedAt>>
  BY DEF LoadSeed
<1>2. UNCHANGED <<disk, legacy, now, sent, received>>
  BY DEF LoadSeed
<1>3. Clean(s)
  BY ReadIsClean DEF Resolve
<1>4. CASE verdict = "ok"
  <2> DEFINE live == {s.cookies[i] : i \in {k \in DOMAIN s.cookies :
                                              ~IsExpired(s.cookies[k], now)}}
  <2>1. JarOK(jar')
    BY <1>1, <1>3, <1>4, SeedJarIsLive
  <2>2. TypeOK'
    BY <1>1, <1>2, <1>4, <2>1 DEF JarOK, Entry
  <2>3. Names(SeedJar(s, now)) \subseteq Names(live)
    BY <1>3, SeedJarIsLive DEF Names
  <2>4. /\ {SID, PSIDTS} \subseteq Names(SeedJar(s, now))
        /\ HasValidSecondaryBinding(Names(SeedJar(s, now)))
    BY <1>1, <1>4, GateAsksForBindings
  <2>5. {SID, PSIDTS} \subseteq Names(live) /\ HasValidSecondaryBinding(Names(live))
    BY <2>3, <2>4 DEF HasValidSecondaryBinding
  <2>6. StartsOnLiveRows'
    <3>1. store' = {s} /\ loadedAt' = now
      BY <1>1, <1>4
    <3>2. ASSUME NEW x \in store'
          PROVE  {x.cookies[i] : i \in {k \in DOMAIN x.cookies :
                                          ~IsExpired(x.cookies[k], loadedAt')}} = live
      BY <3>1
    <3> HIDE DEF live
    <3>3. QED
      BY <2>5, <3>2 DEF StartsOnLiveRows
  <2>7. QED
    BY <1>1, <1>2, <1>3, <1>4, <2>2, <2>6 DEF HostOnlyStaysHome, SentIsLive
<1>5. CASE verdict # "ok"
  BY <1>1, <1>2, <1>5 DEF StartsOnLiveRows, HostOnlyStaysHome, SentIsLive
<1>6. QED
  BY <1>4, <1>5

\* A request, the one for the tokens included.
LEMMA SentKeeps ==
  ASSUME SessionInv, NEW u \in URLs, NEW out \in Cookies(jar, u, now),
         sent' = [url |-> u, cookies |-> out, at |-> now]
  PROVE  /\ sent'.url \in URLs
         /\ HostOnlyStaysHome' /\ SentIsLive'
<1>1. \A c \in out : Matches(c, u, now) /\ (c.hostOnly => c.domain = u.host)
  BY CookiesMatch DEF Matches, DomainMatch
<1>2. \A c, d \in out : c.name = d.name => c = d
  BY CookiesMatch
<1>3. sent'.url = u /\ sent'.cookies = out /\ sent'.at = now
  OBVIOUS
<1>4. QED
  BY <1>1, <1>2, <1>3 DEF HostOnlyStaysHome, SentIsLive, Matches

\* An answer's cookies, set at the URL it came from.
LEMMA AnswerKeepsJar ==
  ASSUME SessionInv, NEW u, u.host # <<>>, NEW cookies \in Responses
  PROVE  JarOK(SetCookies(jar, u, cookies, now))
<1> DEFINE urls == [i \in DOMAIN cookies |-> u]
<1>1. \A i \in DOMAIN cookies : urls[i].host # <<>>
  OBVIOUS
<1>2. DOMAIN cookies \subseteq Nat
  BY SessionAssumption
<1>3. JarOK(jar)
  BY JarIsTyped DEF SessionInv
<1> HIDE DEF urls
<1>4. JarOK(SetEach(jar, urls, cookies, now))
  BY <1>1, <1>2, <1>3, SetEachKeepsJar
<1>5. QED
  BY <1>4 DEF SetCookies, urls

\* Every step keeps the invariant.
LEMMA NextSession == SessionInv /\ [Next]_vars => SessionInv'
<1> SUFFICES ASSUME SessionInv, [Next]_vars
             PROVE  SessionInv'
  OBVIOUS
<1> USE DEF SessionInv, TypeOK, session
<1>1. CASE LoadUnreadable \/ LoadAgain
  BY <1>1 DEF LoadUnreadable, LoadAgain, StartsOnLiveRows, HostOnlyStaysHome, SentIsLive
<1>2. CASE LoadSeed
  BY <1>2, SeedKeeps
<1>3. ASSUME NEW u \in URLs, NEW cookies \in Responses, LoadFetch(u, cookies)
      PROVE  SessionInv'
  <2>1. sent'.url \in URLs /\ HostOnlyStaysHome' /\ SentIsLive'
    BY <1>3, SentKeeps DEF LoadFetch
  <2>2. JarOK(jar')
    BY <1>3, SessionAssumption, AnswerKeepsJar DEF LoadFetch
  <2>3. QED
    BY <1>3, <2>1, <2>2 DEF LoadFetch, JarOK, Entry, StartsOnLiveRows
<1>4. ASSUME NEW u \in URLs, Request(u)
      PROVE  SessionInv'
  <2>1. sent'.url \in URLs /\ HostOnlyStaysHome' /\ SentIsLive'
    BY <1>4, SentKeeps DEF Request
  <2>2. QED
    BY <1>4, <2>1 DEF Request, StartsOnLiveRows
<1>5. ASSUME NEW cookies \in Responses, Response(cookies)
      PROVE  SessionInv'
  <2>1. sent.url.host # <<>>
    BY <1>5, SessionAssumption DEF Response
  <2>2. JarOK(jar')
    BY <1>5, <2>1, AnswerKeepsJar DEF Response
  <2>3. QED
    BY <1>5, <2>2
       DEF Response, JarOK, Entry, StartsOnLiveRows, HostOnlyStaysHome, SentIsLive
<1>6. CASE Reload
  <2>1. PICK d \in disk : \E s \in ReadProfile(d) : jar' = ReseedJar(jar, s, now)
    BY <1>6 DEF Reload
  <2>2. PICK s \in Unmarshal(d) : jar' = ReseedJar(jar, s, now)
    BY <2>1 DEF ReadProfile
  <2>3. JarOK(jar')
    BY <2>2, UnmarshalIsClean, ReseedKeepsJar, JarIsTyped
  <2>4. QED
    BY <1>6, <2>3 DEF Reload, JarOK, Entry, StartsOnLiveRows, HostOnlyStaysHome, SentIsLive
<1>7. CASE Save
  BY <1>7, MarshalUnmarshal DEF Save, StartsOnLiveRows, HostOnlyStaysHome, SentIsLive
<1>8. CASE Tick
  BY <1>8, SessionAssumption DEF Tick, StartsOnLiveRows, HostOnlyStaysHome, SentIsLive
<1>9. CASE UNCHANGED vars
  BY <1>9 DEF vars, StartsOnLiveRows, HostOnlyStaysHome, SentIsLive
<1>10. QED
  BY <1>1, <1>2, <1>3, <1>4, <1>5, <1>6, <1>7, <1>8, <1>9 DEF Next

\* The invariant of a session.
THEOREM SessionInvariant == Spec => []SessionInv
BY InitSession, NextSession, PTL DEF Spec

\* Every request carries live cookies of its own host or domain, and those alone.
THEOREM RequestsSendTheirOwn == Spec => []SendsItsOwn
BY SessionInvariant, PTL DEF SessionInv, SendsItsOwn

\* A session starts from live rows with the required cookies and a binding.
THEOREM SessionsStartOnLiveRows == Spec => []StartsOnLiveRows
BY SessionInvariant, PTL DEF SessionInv

-----------------------------------------------------------------------------
(* Steps *)

\* What is not named by an answer stays in the jar.
LEMMA AnswerIsLocal ==
  ASSUME NEW u, NEW cookies, NEW c \in jar, NEW t,
         \A i \in DOMAIN cookies : Identity(FromStdlib(cookies[i], u)) # Identity(c)
  PROVE  c \in SetCookies(jar, u, cookies, t)
<1> DEFINE urls == [i \in DOMAIN cookies |-> u]
<1>1. \A i \in DOMAIN cookies : urls[i] = u
  OBVIOUS
<1> HIDE DEF urls
<1>2. c \in SetEach(jar, urls, cookies, t)
  BY <1>1, SetEachIsLocal
<1>3. QED
  BY <1>2 DEF SetCookies, urls

\* An answer changes the entries it names and no others.
THEOREM AnswersAreLocal == Spec => SetIsLocal
<1> DEFINE key(c) == <<c.name, c.domain, c.path>>
           named  == {key(FromStdlib(received'.cookies[i], received'.url)) :
                        i \in DOMAIN received'.cookies}
           Local  == received' # received =>
                       \A c \in jar : key(c) \notin named => c \in jar'
<1>1. ASSUME NEW u, NEW cookies, received' = [url |-> u, cookies |-> cookies],
             jar' = SetCookies(jar, u, cookies, now)
      PROVE  Local
  <2>1. received'.url = u /\ received'.cookies = cookies
    BY <1>1
  <2>2. ASSUME NEW c \in jar, key(c) \notin named
        PROVE  c \in jar'
    <3>1. \A i \in DOMAIN cookies : Identity(FromStdlib(cookies[i], u)) # Identity(c)
      BY <2>1, <2>2 DEF Identity
    <3>2. QED
      BY <1>1, <3>1, AnswerIsLocal
  <2>3. QED
    BY <2>2
<1>2. [Next]_vars => Local
  <2> SUFFICES ASSUME [Next]_vars, received' # received
               PROVE  Local
    OBVIOUS
  <2> HIDE DEF Local
  <2>1. CASE \E u \in URLs, cookies \in Responses : LoadFetch(u, cookies)
    BY <1>1, <2>1 DEF LoadFetch
  <2>2. CASE \E cookies \in Responses : Response(cookies)
    BY <1>1, <2>2 DEF Response
  <2>3. QED
    BY <2>1, <2>2
       DEF Next, LoadUnreadable, LoadSeed, LoadAgain, Request, Reload, Save, Tick, vars
<1>3. [Next]_vars => [Local]_vars
  BY <1>2
<1>4. QED
  BY <1>3, PTL DEF Spec, SetIsLocal

\* What was saved is read back, with its account.
THEOREM SavesRoundTrip == Spec => SaveRoundTrips
<1> DEFINE Back == disk' # disk =>
                     \A s \in store : \A l \in Legacies :
                       LET back == UNION {ReadDocument(d, l) : d \in disk'} IN
                       /\ {b.cookies : b \in back} = {s.cookies}
                       /\ s.account # NoAccount => {b.account : b \in back} = {s.account}
<1>1. ASSUME SessionInv, [Next]_vars, disk' # disk
      PROVE  \E s \in store : disk' = {Marshal(s)}
  BY <1>1 DEF Next, LoadUnreadable, LoadSeed, LoadAgain, LoadFetch, Request, Response,
              Reload, Save, Tick, vars
<1>2. ASSUME NEW s, Clean(s), NEW l
      PROVE  /\ ReadDocument(Marshal(s), l) =
                  {[cookies |-> s.cookies, account |-> MergeInBandAccount(s.account, l)]}
             /\ s.account # NoAccount => MergeInBandAccount(s.account, l) = s.account
  <2>1. Unmarshal(Marshal(s)) = {s}
    BY <1>2, MarshalUnmarshal
  <2>2. [s EXCEPT !.account = MergeInBandAccount(@, l)] =
          [cookies |-> s.cookies, account |-> MergeInBandAccount(s.account, l)]
    BY <1>2 DEF Clean
  <2>3. QED
    BY <2>1, <2>2 DEF ReadDocument, MergeInBandAccount
<1>3. SessionInv /\ [Next]_vars => Back
  <2> SUFFICES ASSUME SessionInv, [Next]_vars, disk' # disk, NEW s \in store,
                      NEW l \in Legacies
               PROVE  LET back == UNION {ReadDocument(d, l) : d \in disk'} IN
                      /\ {b.cookies : b \in back} = {s.cookies}
                      /\ s.account # NoAccount => {b.account : b \in back} = {s.account}
    OBVIOUS
  <2>1. disk' = {Marshal(s)} /\ Clean(s)
    BY <1>1 DEF SessionInv, TypeOK
  <2>2. UNION {ReadDocument(d, l) : d \in disk'} =
          {[cookies |-> s.cookies, account |-> MergeInBandAccount(s.account, l)]}
    BY <1>2, <2>1
  <2>3. s.account # NoAccount => MergeInBandAccount(s.account, l) = s.account
    BY <1>2, <2>1
  <2> DEFINE r == [cookies |-> s.cookies, account |-> MergeInBandAccount(s.account, l)]
  <2>4. r.cookies = s.cookies /\ (s.account # NoAccount => r.account = s.account)
    BY <2>3
  <2> HIDE DEF r
  <2>5. UNION {ReadDocument(d, l) : d \in disk'} = {r}
    BY <2>2 DEF r
  <2>6. {b.cookies : b \in {r}} = {s.cookies}
    BY <2>4
  <2>7. s.account # NoAccount => {b.account : b \in {r}} = {s.account}
    BY <2>4
  <2>8. QED
    BY <2>5, <2>6, <2>7
<1>4. SessionInv /\ [Next]_vars => [Back]_vars
  BY <1>3
<1>5. QED
  BY <1>4, SessionInvariant, PTL DEF Spec, SaveRoundTrips
=============================================================================
