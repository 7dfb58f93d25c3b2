---------------------------- MODULE OperatorApi -----------------------------
(***************************************************************************)
(* The two operator APIs: rapp/api_v1.py, which keeps a list of decisions  *)
(* beside an evidence store of its own, and rapp/dashboard_api.py, which   *)
(* reads the chain another process writes.  Handlers run in a thread pool, *)
(* so each read or append below is a step of its own.  A row of the chain  *)
(* is its decision; a row altered on disk no longer matches its hash.      *)
(***************************************************************************)
EXTENDS Naturals, Sequences, FiniteSets, SequencesExt

CONSTANTS Handlers,   \* threads of the pool
          MaxRows     \* bound on decisions

\* The seeds are among the rows.
ASSUME OpAssumption == MaxRows \in Nat /\ MaxRows >= 2

-----------------------------------------------------------------------------
(* Logging in to the dashboard.                                            *)

\* _production_mode: production unless switched off explicitly.
ProductionMode(flag) == flag \notin {"0", "false", "no"}

PrivilegedRoles == {"admin", "operator"}

\* _users_from_env: an entry of two fields is a viewer's, one of another number
\* of fields, or with an empty field, is skipped.
UsersFromEnv(entry) ==
  IF entry.fields = 3 /\ entry.role # "" THEN {[stored |-> entry.stored, role |-> entry.role]}
  ELSE IF entry.fields = 2 THEN {[stored |-> entry.stored, role |-> "viewer"]}
  ELSE {}

\* _verify_secret with _verify_hashed: a well-formed hash is compared, a
\* malformed one never matches, plain text is refused in production.
VerifySecret(stored, match, flag) ==
  /\ match
  /\ stored = "hash" \/ (stored = "plain" /\ ~ProductionMode(flag))

Entries == [fields : {1, 2, 3}, stored : {"hash", "plain", "malformed"},
            role : {"", "admin", "viewer"}]

-----------------------------------------------------------------------------
VARIABLES opApi,      \* which of the two APIs this is
          opScopes,   \* api_v1: the scopes of the caller's token
          opSecret,   \* HORIZON_API_JWT_SECRET, as a version
          opToken,    \* the last token issued, as a set: [role, secret, stored, prod]
          opChain,    \* the evidence chain, a sequence of decisions
          opAltered,  \* rows altered on disk
          opTorn,     \* a line is being written
          opRecords,  \* api_v1's state["records"]
          opRefused,  \* decisions whose append to the store failed
          opTask,     \* opTask[h]: what handler h does
          opReply     \* the last answer given

opVars == <<opApi, opScopes, opSecret, opToken, opChain, opAltered, opTorn,
            opRecords, opRefused, opTask, opReply>>

callerState == <<opApi, opScopes, opSecret, opToken>>

NoTask == [at |-> "idle"]
NoReply == [status |-> 0]
Seeds == <<1, 2>>

\* create_app seeds api_v1's list and its own store alike; the dashboard opens
\* the chain that the rApp writes.
OpInit ==
  /\ opApi \in {"v1", "dashboard"}
  /\ opScopes \in (IF opApi = "v1" THEN {{"read"}, {"read", "write"}} ELSE {{}})
  /\ opSecret = 1 /\ opToken = {}
  /\ opChain = Seeds
  /\ opRecords = IF opApi = "v1" THEN Seeds ELSE <<>>
  /\ opAltered = {} /\ opTorn = FALSE /\ opRefused = {}
  /\ opTask = [h \in Handlers |-> NoTask]
  /\ opReply = NoReply

Answers(h, reply) ==
  /\ opTask' = [opTask EXCEPT ![h] = NoTask]
  /\ opReply' = reply

\* auth_token: the users and the mode are read from the environment of now.
Login(entry, match, flag) ==
  /\ opApi = "dashboard" /\ opToken = {}
  /\ opToken' = {[role |-> u.role, secret |-> opSecret, stored |-> u.stored,
                  prod |-> ProductionMode(flag)] :
                   u \in {u \in UsersFromEnv(entry) :
                            VerifySecret(u.stored, match, flag)}}
  /\ UNCHANGED <<opApi, opScopes, opSecret, opChain, opAltered, opTorn,
                 opRecords, opRefused, opTask, opReply>>

\* The secret changes; it too is read anew, at every decode.
NewSecret ==
  /\ opApi = "dashboard" /\ opSecret = 1 /\ opToken # {}
  /\ opSecret' = 2
  /\ UNCHANGED <<opApi, opScopes, opToken, opChain, opAltered, opTorn,
                 opRecords, opRefused, opTask, opReply>>

\* _verify_token / require_auth: a token that the present secret verifies.
Authenticated == opApi = "v1" \/ \E t \in opToken : t.secret = opSecret

\* The dashboard's require_role for the walk; api_v1 asks for any valid token.
Privileged ==
  \/ opApi = "v1"
  \/ \E t \in opToken : t.secret = opSecret /\ t.role \in PrivilegedRoles

-----------------------------------------------------------------------------
(* Appending.                                                              *)

\* Decisions so far, one being written included.
Made == Cardinality(ToSet(opChain) \cup ToSet(opRecords))
          + (IF opTorn /\ opApi = "dashboard" THEN 1 ELSE 0)

\* submit_policy up to the list; without the write scope it is refused.
Submit(h) ==
  /\ opApi = "v1" /\ opTask[h].at = "idle" /\ Made < MaxRows
  /\ IF "write" \notin opScopes
     THEN Answers(h, [status |-> 403]) /\ UNCHANGED opRecords
     ELSE /\ opRecords' = Append(opRecords, Made + 1)
          /\ opTask' = [opTask EXCEPT ![h] = [at |-> "append", id |-> Made + 1]]
          /\ UNCHANGED opReply
  /\ UNCHANGED <<callerState, opChain, opAltered, opTorn, opRefused>>

\* Fault: an append that raises is only logged.
StoreWritesQuietly(h) ==
  /\ opTask[h].at = "append" /\ ~opTorn
  /\ \/ /\ opTorn' = TRUE
        /\ opTask' = [opTask EXCEPT ![h].at = "writing"]
        /\ UNCHANGED <<opRefused, opReply>>
     \/ /\ opRefused' = opRefused \cup {opTask[h].id}
        /\ Answers(h, [status |-> 201, id |-> opTask[h].id])
        /\ UNCHANGED opTorn
  /\ UNCHANGED <<callerState, opChain, opAltered, opRecords>>

\* The store's lock is taken and the line begun, or the append raises: the
\* answer is a 500 and the decision stays in the list.
StoreWrites(h) ==
  /\ opTask[h].at = "append" /\ ~opTorn
  /\ \/ /\ opTorn' = TRUE
        /\ opTask' = [opTask EXCEPT ![h].at = "writing"]
        /\ UNCHANGED <<opRefused, opReply>>
     \/ /\ opRefused' = opRefused \cup {opTask[h].id}
        /\ Answers(h, [status |-> 500])
        /\ UNCHANGED opTorn
  /\ UNCHANGED <<callerState, opChain, opAltered, opRecords>>

StoreWrote(h) ==
  /\ opTask[h].at = "writing"
  /\ opTorn' = FALSE
  /\ opChain' = Append(opChain, opTask[h].id)
  /\ Answers(h, [status |-> 201, id |-> opTask[h].id])
  /\ UNCHANGED <<callerState, opAltered, opRecords, opRefused>>

\* The dashboard's chain is appended to by another process.
DaemonWrites ==
  /\ opApi = "dashboard" /\ ~opTorn /\ Made < MaxRows
  /\ opTorn' = TRUE
  /\ UNCHANGED <<callerState, opChain, opAltered, opRecords, opRefused, opTask,
                 opReply>>

DaemonWrote ==
  /\ opApi = "dashboard" /\ opTorn
  /\ opTorn' = FALSE
  /\ opChain' = Append(opChain, Made)
  /\ UNCHANGED <<callerState, opAltered, opRecords, opRefused, opTask, opReply>>

-----------------------------------------------------------------------------
(* Reading the chain.                                                      *)

FirstBad == IF opAltered = {} THEN 0
            ELSE CHOOSE i \in opAltered : \A j \in opAltered : i <= j

\* verify_audit / audit_verify, first step: the walk.  A half-written last line
\* does not parse, and the request fails.
VerifyWalk(h) ==
  /\ opTask[h].at = "idle" /\ Privileged
  /\ IF opTorn THEN Answers(h, [status |-> 500])
     ELSE /\ opTask' = [opTask EXCEPT ![h] =
               [at |-> "count", bad |-> FirstBad, len |-> Len(opChain)]]
          /\ UNCHANGED opReply
  /\ UNCHANGED <<callerState, opChain, opAltered, opTorn, opRecords, opRefused>>

\* Second step: the chain is read again for its length and its head.
VerifyCount(h) ==
  /\ opTask[h].at = "count"
  /\ IF opTorn THEN Answers(h, [status |-> 500])
     ELSE Answers(h, [status |-> 200, bad |-> opTask[h].bad,
                      walked |-> opTask[h].len, len |-> Len(opChain),
                      head |-> Last(opChain)])
  /\ UNCHANGED <<callerState, opChain, opAltered, opTorn, opRecords, opRefused>>

\* A handler that reads the chain once and answers from it.
ReadChain(h, reply) ==
  /\ opTask[h].at = "idle" /\ Authenticated /\ opApi = "dashboard"
  /\ Answers(h, IF opTorn THEN [status |-> 500] ELSE reply)
  /\ UNCHANGED <<callerState, opChain, opAltered, opTorn, opRecords, opRefused>>

\* policies: the newest rows first, with the total.
Page(chain, limit) ==
  Reverse(SubSeq(chain, (IF Len(chain) > limit THEN Len(chain) - limit ELSE 0) + 1,
                 Len(chain)))

ReadPolicies(h, limit) == ReadChain(h, [status |-> 200, page |-> Page(opChain, limit)])

\* policy_detail
ReadDetail(h, id) ==
  ReadChain(h, [status |-> IF id \in ToSet(opChain) THEN 200 ELSE 404])

\* sla_timeline: the rows of a period, three samples each.
ReadTimeline(h, from, to) ==
  ReadChain(h, [status |-> 200,
            samples |-> 3 * Cardinality({i \in DOMAIN opChain : i \in from..to})])

\* state_endpoint: a chain that cannot be read has no head.
ReadState(h) ==
  /\ opTask[h].at = "idle" /\ Authenticated /\ opApi = "dashboard"
  /\ Answers(h, [status |-> 200, tip |-> IF opTorn THEN 0 ELSE Last(opChain)])
  /\ UNCHANGED <<callerState, opChain, opAltered, opTorn, opRecords, opRefused>>

\* api_v1's views read the list: the newest decision, or one by its id.
ReadRecords(h, id) ==
  /\ opTask[h].at = "idle" /\ opApi = "v1"
  /\ Answers(h, [status |-> IF id \in ToSet(opRecords) THEN 200 ELSE 404])
  /\ UNCHANGED <<callerState, opChain, opAltered, opTorn, opRecords, opRefused>>

\* A row is altered on disk.
AlterRow(i) ==
  /\ opAltered = {}
  /\ opAltered' = {i}
  /\ UNCHANGED <<callerState, opChain, opTorn, opRecords, opRefused, opTask,
                 opReply>>

OpNext ==
  \/ \E entry \in Entries, match \in BOOLEAN, flag \in {"", "false"} :
       Login(entry, match, flag)
  \/ NewSecret
  \/ \E h \in Handlers :
       \/ Submit(h) \/ StoreWrites(h) \/ StoreWrote(h) \/ VerifyWalk(h) \/ VerifyCount(h)
       \/ ReadPolicies(h, 2) \/ ReadTimeline(h, 2, 3) \/ ReadState(h)
       \/ \E id \in 2..MaxRows : ReadDetail(h, id) \/ ReadRecords(h, id)
  \/ DaemonWrites \/ DaemonWrote
  \/ \E i \in DOMAIN opChain : AlterRow(i)

OpSpec == OpInit /\ [][OpNext]_opVars

OpTypeOK ==
  /\ Len(opChain) <= MaxRows /\ Len(opRecords) <= MaxRows
  /\ opAltered \subseteq DOMAIN opChain
  /\ \A h \in Handlers : opTask[h].at \in {"idle", "append", "writing", "count"}

-----------------------------------------------------------------------------
\* A decision that was answered 201 is in the list and in the chain, once each;
\* the list holds beyond the chain only decisions still on their way and those
\* answered 500, whatever order concurrent submits reach the two in.
SubmitsEvidenced ==
  /\ IsInjective(opRecords) /\ IsInjective(opChain)
  /\ opReply.status = 201 => opReply.id \in ToSet(opChain) \cap ToSet(opRecords)
  /\ ToSet(opRecords) \ ToSet(opChain) =
       opRefused \cup {opTask[h].id : h \in {h \in Handlers :
                                            opTask[h].at \in {"append", "writing"}}}

\* A verdict's length and head are read after its walk: they may name rows no
\* walk has seen, but never fewer than it walked, and a broken index lies within
\* them.  A row reported bad is one that was altered.
VerdictWithinChain ==
  (opReply.status = 200 /\ "bad" \in DOMAIN opReply) =>
    /\ opReply.walked <= opReply.len
    /\ opReply.bad <= opReply.walked
    /\ opReply.bad # 0 => opReply.bad \in opAltered
    /\ opReply.head = opChain[opReply.len]

\* In production no one is logged in through a plain-text entry, nor, anywhere,
\* through a malformed one.
LoginHashed ==
  \A t \in opToken : t.stored = "hash" \/ (t.stored = "plain" /\ ~t.prod)

\* What the APIs answer is true of the chain.
ApiTruthful == SubmitsEvidenced /\ VerdictWithinChain /\ LoginHashed
=============================================================================
