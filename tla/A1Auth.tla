------------------------------- MODULE A1Auth --------------------------------
(***************************************************************************)
(* How the A1 client authenticates (rapp/auth.py): the configuration read  *)
(* from the environment (rapp/lifecycle.py), the TLS context and the auth  *)
(* it leads to, and the OAuth2 token cache that concurrent requests share. *)
(*                                                                         *)
(* A request reads the clock once, on entry, and compares with that        *)
(* reading also after it has waited for the lock.  The clock is in ticks.  *)
(***************************************************************************)
EXTENDS Naturals, FiniteSets

CONSTANTS AuthRequests,  \* requests that need a token
          TokenLife,     \* expires_in
          TokenMargin,   \* the 30 s before the expiry
          MaxClock       \* bound on the clock

ASSUME A1AuthAssumption ==
  {TokenLife, TokenMargin, MaxClock} \subseteq Nat /\ MaxClock >= 1

-----------------------------------------------------------------------------
(* Configuration.                                                          *)

OAuthGroup == {"token_url", "client_id", "client_secret"}
MtlsGroup == {"client_cert", "client_key"}
EnvNames == OAuthGroup \cup MtlsGroup \cup {"static_token", "ca_bundle"}

NoAuth == [groups |-> {}, ca |-> FALSE]
Refused == [groups |-> {"refused"}, ca |-> FALSE]

\* _config_from_env: a group counts when it is complete; switching the
\* verification off in production is refused with or without credentials.
ConfigFromEnv(present, verify, production) ==
  LET groups == {g \in {"static", "oauth", "mtls"} :
                   \/ g = "static" /\ "static_token" \in present
                   \/ g = "oauth" /\ OAuthGroup \subseteq present
                   \/ g = "mtls" /\ MtlsGroup \subseteq present}
  IN  IF production /\ ~verify THEN Refused
      ELSE IF groups = {} THEN NoAuth
      ELSE [groups |-> groups, ca |-> "ca_bundle" \in present]

\* _build_ssl_context: whether the server's certificate is checked, and whether
\* the client shows one.  Without client certificate or CA a default context is
\* built for the cipher list, or the flag itself is handed on.
SslContext(config, verify) ==
  [checks |-> verify, shows |-> "mtls" \in config.groups]

\* build_secure_async_client: the static token wins over OAuth2.
AuthOf(config) ==
  IF "static" \in config.groups THEN "static"
  ELSE IF "oauth" \in config.groups THEN "oauth"
  ELSE "none"

-----------------------------------------------------------------------------
VARIABLES authMode,   \* the client's auth, or NoClient
          posture,    \* its TLS context
          clock,
          cached,     \* _token: when the issuer says it ends; 0 for none
          cacheEnd,   \* _expiry_epoch
          tokenLock,  \* the request that holds _lock, or none
          req,        \* each request: where it is and when it read the clock
          fetchedAt,  \* when the issuer issued what the holder fetches
          given       \* given[r]: the end of the token r was given

authVars == <<authMode, posture, clock, cached, cacheEnd, tokenLock, req,
              fetchedAt, given>>

NoClient == "none yet"
Nobody == {}

AuthInit ==
  /\ authMode = NoClient
  /\ posture = [checks |-> TRUE, shows |-> FALSE]
  /\ clock = 1
  /\ cached = 0 /\ cacheEnd = 0
  /\ tokenLock = Nobody
  /\ req = [r \in AuthRequests |-> [at |-> "idle", now |-> 0]]
  /\ fetchedAt = 0
  /\ given = [r \in AuthRequests |-> 0]

\* The client is built, or the configuration is refused.
BuildClient(present, verify, production) ==
  LET config == ConfigFromEnv(present, verify, production)
  IN  /\ authMode = NoClient
      /\ authMode' = IF config = Refused THEN "refused"
                     ELSE IF config = NoAuth THEN "plain"
                     ELSE AuthOf(config)
      /\ posture' = SslContext(config, verify)
      /\ UNCHANGED <<clock, cached, cacheEnd, tokenLock, req, fetchedAt, given>>

\* The token is still good for a request that read the clock at t.
StillGood(t) == cached # 0 /\ t + TokenMargin < cacheEnd

Give(r) ==
  /\ req' = [req EXCEPT ![r].at = "done"]
  /\ given' = [given EXCEPT ![r] = cached]

\* _get_token up to the lock.
GetToken(r) ==
  /\ authMode = "oauth"
  /\ req[r].at = "idle"
  /\ IF StillGood(clock)
     THEN /\ req' = [req EXCEPT ![r] = [at |-> "done", now |-> clock]]
          /\ given' = [given EXCEPT ![r] = cached]
     ELSE /\ req' = [req EXCEPT ![r] = [at |-> "waiting", now |-> clock]]
          /\ UNCHANGED given
  /\ UNCHANGED <<authMode, posture, clock, cached, cacheEnd, tokenLock,
                 fetchedAt>>

\* The lock is taken and the token looked at again, with the old reading.
EnterLock(r) ==
  /\ req[r].at = "waiting" /\ tokenLock = Nobody
  /\ IF StillGood(req[r].now)
     THEN Give(r) /\ UNCHANGED tokenLock
     ELSE /\ tokenLock' = {r}
          /\ req' = [req EXCEPT ![r].at = "fetching"]
          /\ UNCHANGED given
  /\ UNCHANGED <<authMode, posture, clock, cached, cacheEnd, fetchedAt>>

\* The issuer hands out a token.
Issue(r) ==
  /\ req[r].at = "fetching" /\ fetchedAt = 0
  /\ fetchedAt' = clock
  /\ UNCHANGED <<authMode, posture, clock, cached, cacheEnd, tokenLock, req,
                 given>>

\* Fault: the expiry is counted from the answer.
FetchedFromAnswer(r) ==
  /\ req[r].at = "fetching" /\ fetchedAt # 0
  /\ cached' = fetchedAt + TokenLife
  /\ cacheEnd' = clock + TokenLife
  /\ tokenLock' = Nobody
  /\ fetchedAt' = 0
  /\ req' = [req EXCEPT ![r].at = "done"]
  /\ given' = [given EXCEPT ![r] = fetchedAt + TokenLife]
  /\ UNCHANGED <<authMode, posture, clock>>

\* The answer: its expiry is counted from the reading on entry.
Fetched(r) ==
  /\ req[r].at = "fetching" /\ fetchedAt # 0
  /\ cached' = fetchedAt + TokenLife
  /\ cacheEnd' = req[r].now + TokenLife
  /\ tokenLock' = Nobody
  /\ fetchedAt' = 0
  /\ req' = [req EXCEPT ![r].at = "done"]
  /\ given' = [given EXCEPT ![r] = fetchedAt + TokenLife]
  /\ UNCHANGED <<authMode, posture, clock>>

\* The fetch fails, before or after the issuer saw it; the request raises.
FetchFails(r) ==
  /\ req[r].at = "fetching"
  /\ tokenLock' = Nobody
  /\ fetchedAt' = 0
  /\ req' = [req EXCEPT ![r].at = "failed"]
  /\ UNCHANGED <<authMode, posture, clock, cached, cacheEnd, given>>

\* A request that ended is followed by another one.
NextRequest(r) ==
  /\ req[r].at \in {"done", "failed"}
  /\ req' = [req EXCEPT ![r] = [at |-> "idle", now |-> 0]]
  /\ given' = [given EXCEPT ![r] = 0]
  /\ UNCHANGED <<authMode, posture, clock, cached, cacheEnd, tokenLock,
                 fetchedAt>>

\* Time passes.
TimePasses ==
  /\ clock < MaxClock /\ authMode = "oauth"
  /\ clock' = clock + 1
  /\ UNCHANGED <<authMode, posture, cached, cacheEnd, tokenLock, req,
                 fetchedAt, given>>

AuthNext ==
  \/ \E present \in SUBSET EnvNames, verify, production \in BOOLEAN :
       BuildClient(present, verify, production)
  \/ \E r \in AuthRequests :
       \/ GetToken(r) \/ EnterLock(r) \/ Issue(r) \/ Fetched(r) \/ FetchFails(r)
       \/ NextRequest(r)
  \/ TimePasses

AuthSpec == AuthInit /\ [][AuthNext]_authVars

AuthTypeOK ==
  /\ authMode \in {NoClient, "refused", "plain", "static", "oauth", "none"}
  /\ clock \in 1..MaxClock
  /\ Cardinality(tokenLock) <= 1
  /\ \A r \in AuthRequests :
       req[r].at \in {"idle", "waiting", "fetching", "done", "failed"}

\* A token handed to a request ends no earlier than the margin after the request
\* asked for it (or, for shorter lives, its whole life), although requests that
\* queued for the lock judge it by a clock they read before they queued, and
\* although the expiry is counted from before the fetch: time spent waiting
\* costs the request, never more than it waited.
TokenOutlastsRequest ==
  \A r \in AuthRequests :
    req[r].at = "done" =>
      given[r] >= req[r].now + (IF TokenLife < TokenMargin + 1
                                    THEN TokenLife ELSE TokenMargin + 1)
=============================================================================
