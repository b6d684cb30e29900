----------------------------- MODULE AuthPolicy -----------------------------
(***************************************************************************)
(* internal/auth/policy: the gate every session passes before it is used.  *)
(* One host stands for each kind of entry of the allowlist.                *)
(***************************************************************************)
EXTENDS CookieJar

SID    == "SID"
PSIDTS == "__Secure-1PSIDTS"

RequiredHosts ==
  {Google, Dotted(Google), Notebook, Dotted(Notebook), NotebookLM, Dotted(NotebookLM),
   Accounts, Dotted(Accounts), Dotted(<<"com", "googleusercontent">>)}

OptionalHosts == {<<"com", "google", "docs">>, Dotted(<<"com", "google", "docs">>)}

\* The regional hosts are listed with the dot only.
RegionalHosts == {Dotted(<<"se", "google">>), Dotted(<<"de", "google">>)}

AllowedHosts == RequiredHosts \cup OptionalHosts \cup RegionalHosts

IsAllowedHost(host) == host \in AllowedHosts

MinimumRequiredCookies == {SID, PSIDTS}

MissingMinimum(names) == MinimumRequiredCookies \ names

\* OSID, or the account-wide three.
HasValidSecondaryBinding(names) ==
  "OSID" \in names \/ {"APISID", "SAPISID", "LSID"} \subseteq names

\* psidtsRoutable looks at one copy only, the first in the order of All.  Which one
\* that is follows from the spelling of the domains, a choice here.
PsidtsRoutable(jar) ==
  LET copies   == {c \in jar : c.name = PSIDTS}
      routes(c) == c.domain \in {Google, Accounts}
  IN {routes(c) : c \in copies}

Names(jar) == {c.name : c \in jar}

\* Seeded fault: the allowlist is asked before the first tier, and answers for it.
FaultValidate(jar) ==
  IF \E c \in jar : ~IsAllowedHost(c.domain) THEN {"UnrecognizedHost"}
  ELSE IF SID \notin Names(jar) THEN {"MissingCookie"}
  ELSE IF ~HasValidSecondaryBinding(Names(jar)) THEN {"NoSecondaryBinding"}
  ELSE {"ok"}

\* Validate: the reasons it may give for a jar.
Validate(jar) ==
  LET gated == IF \E c \in jar : ~IsAllowedHost(c.domain) THEN "UnrecognizedHost"
               ELSE IF ~HasValidSecondaryBinding(Names(jar)) THEN "NoSecondaryBinding"
               ELSE "ok"
  IN IF MissingMinimum(Names(jar)) # {} THEN {"MissingCookie"}
     ELSE {IF routable THEN gated ELSE "PSIDTSUnroutable" : routable \in PsidtsRoutable(jar)}
=============================================================================
