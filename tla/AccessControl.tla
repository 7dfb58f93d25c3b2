---------------------------- MODULE AccessControl ----------------------------
(***************************************************************************)
(* Who may call the rApp's API: RS256 tokens whose signing key rotates     *)
(* (security/jwt.py), role bindings that each process holds in memory and  *)
(* saves as a whole to one CSV file (security/rbac.py), the middleware     *)
(* that decides a request from both (security/middleware.py, rapp/api.py)  *)
(* and the command line that mints tokens and edits bindings               *)
(* (scripts/horizon_security.py).                                          *)
(***************************************************************************)
EXTENDS Naturals, FiniteSets

CONSTANTS Users, Tenants,
          Roles,          \* the roles that are bound here
          Clis,           \* command lines that may run at once
          Overlap,        \* overlap_window_seconds, in ticks
          MaxSkew,        \* MAX_CLOCK_SKEW_SECONDS, in ticks
          Ttls,           \* ttl_seconds asked for
          MaxKeys, MaxTokens, MaxCommands, MaxAcTime

ASSUME AccessAssumption ==
  /\ {Overlap, MaxSkew, MaxKeys, MaxTokens, MaxCommands, MaxAcTime} \subseteq Nat
  /\ Ttls \subseteq Nat /\ MaxKeys >= 1

Bindings == Users \X Roles \X Tenants

-----------------------------------------------------------------------------
(* The seed policy and the routes.                                         *)

\* rbac_policy.csv: the same rows in every tenant's domain.
Permits(role, obj, act) ==
  \/ role = "admin"
  \/ /\ obj = "policies" /\ act = "read"
  \/ /\ role \in {"operator", "auditor", "regulator"}
     /\ obj = "policies/*" /\ act = "read"
  \/ /\ role = "operator" /\ obj = "policies/*" /\ act \in {"emit", "rollback"}
  \/ /\ role \in {"auditor", "regulator"} /\ obj = "audit/*" /\ act = "read"
  \/ /\ role = "api-user" /\ obj = "state" /\ act = "read"

\* _http_method_to_action
ActionOf(method) ==
  IF method \in {"GET", "HEAD", "OPTIONS"} THEN "read"
  ELSE IF method \in {"POST", "PUT", "PATCH"} THEN "emit"
  ELSE "rollback"

\* build_app: the routes behind the middleware and the roles they ask for.
Routes ==
  {[obj |-> "policies", method |-> "GET", roles |-> {}],
   [obj |-> "policies/*", method |-> "GET", roles |-> {}],
   [obj |-> "policies/*", method |-> "POST", roles |-> {"operator", "admin"}],
   [obj |-> "audit/*", method |-> "GET",
    roles |-> {"auditor", "regulator", "admin"}],
   [obj |-> "state", method |-> "GET", roles |-> {}]}

-----------------------------------------------------------------------------
VARIABLES acNow,    \* the clock
          active,   \* _active: the signing key
          retired,  \* _retired: [key, at] with the deadline of each
          tokens,   \* minted: [sub, tenant, roles, key, exp, ttl, current]
          csv,      \* the bindings in the policy file
          server,   \* the bindings in the API server's enforcer
          cli,      \* cli[c]: a command with the bindings it loaded, or idle
          asked,    \* ghost: the bindings the administrators asked for
          raced,    \* ghost: a command worked on bindings changed meanwhile
          commands

acVars == <<acNow, active, retired, tokens, csv, server, cli, asked, raced,
            commands>>

NoCommand == [do |-> "idle"]

AcInit ==
  /\ acNow = 0 /\ active = 1 /\ retired = {} /\ tokens = {}
  /\ csv = {} /\ server = {} /\ asked = {}
  /\ cli = [c \in Clis |-> NoCommand]
  /\ raced = FALSE /\ commands = 0

-----------------------------------------------------------------------------
(* Tokens.                                                                 *)

Pruned(keys) == {k \in keys : k.at + MaxSkew > acNow}

\* verify_token: the active key and the retired ones before their deadline are
\* tried in turn; the library accepts a token up to and including its expiry.
Verifies(tok) ==
  /\ acNow <= tok.exp
  /\ \/ tok.key = active
     \/ \E k \in retired : k.key = tok.key /\ k.at > acNow

\* token mint: the roles are those in the file now; the key is any key file the
\* operator names, in use by the server or not.
TokenMint(u, t, key, ttl) ==
  /\ Cardinality(tokens) < MaxTokens
  /\ key <= active
  /\ tokens' = tokens \cup
       {[sub |-> u, tenant |-> t, key |-> key, exp |-> acNow + ttl, ttl |-> ttl,
         roles |-> {r \in Roles : <<u, r, t>> \in csv}, current |-> key = active]}
  /\ UNCHANGED <<acNow, active, retired, csv, server, cli, asked, raced, commands>>

\* rotate_signing_key, with a key not seen before.
Rotate ==
  /\ active < MaxKeys
  /\ active' = active + 1
  /\ retired' = Pruned(retired \cup {[key |-> active, at |-> acNow + Overlap]})
  /\ UNCHANGED <<acNow, tokens, csv, server, cli, asked, raced, commands>>

AcTick ==
  /\ acNow < MaxAcTime
  /\ acNow' = acNow + 1
  /\ UNCHANGED <<active, retired, tokens, csv, server, cli, asked, raced, commands>>

-----------------------------------------------------------------------------
(* Bindings.                                                               *)

\* user add / user remove: a new process loads the file.
CliLoad(c, do, b) ==
  /\ cli[c].do = "idle" /\ commands < MaxCommands
  /\ cli' = [cli EXCEPT ![c] = [do |-> do, binding |-> b, loaded |-> csv]]
  /\ commands' = commands + 1
  /\ UNCHANGED <<acNow, active, retired, tokens, csv, server, asked, raced>>

\* What the command makes of the bindings it loaded.
Edited(command) ==
  IF command.do = "add" THEN command.loaded \cup {command.binding}
  ELSE command.loaded \ {command.binding}

\* add_role / remove_role: nothing is saved when nothing changed; otherwise the
\* whole memory replaces the file.
CliSave(c) ==
  /\ cli[c].do # "idle"
  /\ csv' = IF Edited(cli[c]) # cli[c].loaded THEN Edited(cli[c]) ELSE csv
  /\ asked' = IF cli[c].do = "add" THEN asked \cup {cli[c].binding}
              ELSE asked \ {cli[c].binding}
  /\ raced' = (raced \/ cli[c].loaded # csv)
  /\ cli' = [cli EXCEPT ![c] = NoCommand]
  /\ UNCHANGED <<acNow, active, retired, tokens, server, commands>>

\* reload(), or a restart of the server.
Reload ==
  /\ server' = csv
  /\ UNCHANGED <<acNow, active, retired, tokens, csv, cli, asked, raced, commands>>

\* enforce, by the matcher of rbac_model.conf.
Enforce(u, t, obj, act) ==
  \E r \in Roles : <<u, r, t>> \in server /\ Permits(r, obj, act)

-----------------------------------------------------------------------------
(* Requests.                                                               *)

\* require_role: the token names one of the roles the route asks for.
HasRole(tok, route) == route.roles = {} \/ route.roles \cap tok.roles # {}

\* dispatch and the route's require_role: the answer to a request with token
\* tok and the X-Tenant header xTenant ("" when there is none).
AnswerTo(tok, xTenant, route) ==
  IF ~Verifies(tok) THEN 401
  ELSE IF xTenant # "" /\ xTenant # tok.tenant THEN 403
  ELSE IF ~Enforce(tok.sub, tok.tenant, route.obj, ActionOf(route.method)) THEN 403
  ELSE IF ~HasRole(tok, route) THEN 403
  ELSE 200

\* A request with a token leaves nothing but a pruned key list behind; one to a
\* public path, or without a bearer token, not even that.
DispatchRequest(tok) ==
  /\ retired' = Pruned(retired)
  /\ UNCHANGED <<acNow, active, tokens, csv, server, cli, asked, raced, commands>>

AcNext ==
  \/ \E u \in Users, t \in Tenants, key \in 1..MaxKeys, ttl \in Ttls :
       TokenMint(u, t, key, ttl)
  \/ Rotate \/ AcTick \/ Reload
  \/ \E c \in Clis :
       \/ \E b \in Bindings : CliLoad(c, "add", b) \/ CliLoad(c, "remove", b)
       \/ CliSave(c)
  \/ \E tok \in tokens : DispatchRequest(tok)

AcSpec == AcInit /\ [][AcNext]_acVars

AcTypeOK ==
  /\ acNow \in 0..MaxAcTime /\ active \in 1..MaxKeys
  /\ \A k \in retired : k.key < active /\ k.at <= acNow + Overlap
  /\ csv \subseteq Bindings /\ server \subseteq Bindings /\ asked \subseteq Bindings
  /\ \A tok \in tokens : tok.key <= active

-----------------------------------------------------------------------------
\* Rotation without downtime (the claim in jwt.py's header): a token minted with
\* the key of the moment and a life within the overlap is accepted until it
\* ends, however many rotations follow.
RotationSeamless ==
  \A tok \in tokens :
    (tok.current /\ tok.ttl <= Overlap /\ acNow < tok.exp) => Verifies(tok)

\* A user whose role was taken away is refused, whatever unexpired token that
\* still names the role he holds, once the server has loaded the file, unless a
\* command saved over a change it had not loaded; and a token opens only its own
\* tenant.
RevokedRefused ==
  (~raced /\ server = csv) =>
    \A tok \in tokens, xTenant \in Tenants \cup {""}, route \in Routes :
      AnswerTo(tok, xTenant, route) = 200 =>
        /\ xTenant \in {"", tok.tenant}
        /\ \E r \in Roles : /\ <<tok.sub, r, tok.tenant>> \in asked
                            /\ Permits(r, route.obj, ActionOf(route.method))

\* Access is granted by keys and bindings in force only.
AccessSound == RotationSeamless /\ RevokedRefused
=============================================================================
