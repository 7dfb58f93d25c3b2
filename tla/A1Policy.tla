------------------------------ MODULE A1Policy -------------------------------
(***************************************************************************)
(* Policies on their way to the RIC: the planner's candidates              *)
(* (rapp/pipeline.py), the A1 adapter's addresses and requests in its five *)
(* dialects (rapp/a1_adapter.py), and the RIC as the OSC emulator serves   *)
(* it (deploy/osc_emulator/server.py).  Requests and answers can be lost,  *)
(* and a request that timed out can still arrive.                          *)
(***************************************************************************)
EXTENDS Naturals, FiniteSets

CONSTANTS A1Dialects,  \* the dialects the adapter is configured with
          A1Types,     \* cfg.policy_types
          PolicyIds,   \* policy ids: a UUID each, unless the caller names one
          EventRisks,  \* the events' sla_risk_30s in percent, or NoRisk
          A1Callers,   \* coroutines that use the adapter
          MaxA1Calls   \* calls in all

NoRisk == 999  \* the payload has no risk, or one that is no finite number

PolicyTypes == {"qos", "steering", "admission", "spectrum"}
Nested == {"legacy", "osc_a1"}
Flat == {"osc", "eiap", "mantaray"}

ASSUME A1Assumption ==
  /\ A1Dialects \subseteq Nested \cup Flat
  /\ A1Types \subseteq PolicyTypes
  /\ EventRisks \subseteq 0..NoRisk
  /\ PolicyIds # {} /\ MaxA1Calls \in Nat

-----------------------------------------------------------------------------
(* The planner.                                                            *)

\* _risk: clamped into 0..100, 5 when it cannot be read.
Risk(raw) == IF raw = NoRisk THEN 5 ELSE IF raw > 100 THEN 100 ELSE raw

\* _choose.
Choose(risk) ==
  IF risk < 30 THEN "qos" ELSE IF risk < 60 THEN "steering" ELSE "admission"

\* Python's round() of n/100: to the nearest, halves to the even one.
Round(n) ==
  LET q == n \div 100  r == n % 100
  IN  IF r > 50 \/ (r = 50 /\ q % 2 = 1) THEN q + 1 ELSE q

\* _candidates: the payload of each type, amounts in tenths.
Candidate(t, risk) ==
  CASE t = "qos" ->
         [scope |-> {"slice_id"}, fields |-> {"priority"},
          priority |-> LET p == 1 + Round(risk * 14) IN IF p > 15 THEN 15 ELSE p,
          path |-> "", decision |-> "", amount |-> 0]
    [] t = "steering" ->
         [scope |-> {"ue_group"}, fields |-> {"preferred_path", "ntn_share_pct"},
          priority |-> 0,
          path |-> IF risk < 30 THEN "terrestrial" ELSE IF risk < 60 THEN "hybrid" ELSE "ntn",
          decision |-> "", amount |-> 10 * risk]
    [] t = "admission" ->
         [scope |-> {"workload_class"},
          fields |-> IF risk \in 30..59 THEN {"decision", "defer_until_seconds"}
                     ELSE {"decision"},
          priority |-> 0, path |-> "",
          decision |-> IF risk < 30 THEN "accept" ELSE IF risk < 60 THEN "defer" ELSE "reject",
          amount |-> IF risk \in 30..59 THEN 300 + 27 * risk ELSE 0]

\* _policy_create_schema: what each type requires and allows.
CreateSchema ==
  [qos       |-> [scope |-> {"slice_id"}, scopeMay |-> {"slice_id", "ue_id"},
                  must |-> {"priority"},
                  may |-> {"priority", "guaranteed_bit_rate_kbps", "max_bit_rate_kbps"}],
   steering  |-> [scope |-> {"ue_group"}, scopeMay |-> {"ue_group", "cell_id"},
                  must |-> {"preferred_path"}, may |-> {"preferred_path", "ntn_share_pct"}],
   admission |-> [scope |-> {"workload_class"}, scopeMay |-> {"workload_class", "edge_node_id"},
                  must |-> {"decision"}, may |-> {"decision", "defer_until_seconds"}],
   spectrum  |-> [scope |-> {"band_id"}, scopeMay |-> {"band_id", "cell_id"},
                  must |-> {"freq_low_hz", "freq_high_hz", "traffic_class"},
                  may |-> {"freq_low_hz", "freq_high_hz", "traffic_class"}]]

\* jsonschema's verdict on a payload.
Conforms(t, p) ==
  LET s == CreateSchema[t]
  IN  /\ s.scope \subseteq p.scope /\ p.scope \subseteq s.scopeMay
      /\ s.must \subseteq p.fields /\ p.fields \subseteq s.may
      /\ "priority" \in p.fields => p.priority \in 1..15
      /\ "preferred_path" \in p.fields => p.path \in {"terrestrial", "ntn", "hybrid"}
      /\ "ntn_share_pct" \in p.fields => p.amount \in 0..1000
      /\ "decision" \in p.fields => p.decision \in {"accept", "defer", "reject"}

-----------------------------------------------------------------------------
VARIABLES dialect,    \* cfg.dialect
          ricTypes,   \* policy_types of the RIC
          ricHas,     \* its policies: address -> type, as pairs
          ricJobs,    \* its A1-EI jobs
          call,       \* each caller's call
          late,       \* requests given up that may still arrive
          book,       \* what the answers said of each policy
          emitted,    \* _policies_emitted
          collided,   \* a flat dialect was given one id for two types
          refused,    \* the RIC refused a planned payload for its contents
          a1Calls

a1Vars == <<dialect, ricTypes, ricHas, ricJobs, call, late, book, emitted,
            collided, refused, a1Calls>>

NoDialect == "none"
NoCall == [op |-> "none", type |-> "qos", id |-> CHOOSE i \in PolicyIds : TRUE,
         risk |-> 0, status |-> 0]

\* The RIC starts without policy types, policies or jobs.
RicInit == ricTypes = {} /\ ricHas = {} /\ ricJobs = {}

A1Init ==
  /\ dialect = NoDialect
  /\ RicInit
  /\ call = [c \in A1Callers |-> NoCall]
  /\ late = {}
  /\ book = [p \in PolicyTypes \X PolicyIds |-> "unused"]
  /\ emitted = 0
  /\ collided = FALSE /\ refused = FALSE
  /\ a1Calls = 0

\* __init__: any other dialect raises.
A1Configure(d) ==
  /\ dialect = NoDialect
  /\ dialect' = d
  /\ UNCHANGED <<ricTypes, ricHas, ricJobs, call, late, book, emitted, collided,
                 refused, a1Calls>>

\* Fault: the nested dialects address a policy by its id alone.
AddressFlat(t, i) == <<"any", i>>

\* _policy_instance_url and _policy_status_url: nested dialects name the type,
\* the flat ones only the policy.
Address(t, i) == IF dialect \in Nested THEN <<t, i>> ELSE <<"any", i>>

\* _policy_list_url: the nested dialects list what is addressed under the type,
\* the flat ones query for the type a policy was stored with.
ListQuery(t, pol) == IF dialect \in Nested THEN pol[1][1] = t ELSE pol[2] = t

\* list_policies
Listed(t) == {pol[1][2] : pol \in {q \in ricHas : ListQuery(t, q)}}

Start(c, req) ==
  /\ dialect # NoDialect
  /\ call[c].op = "none"
  /\ a1Calls < MaxA1Calls
  /\ a1Calls' = a1Calls + 1
  /\ call' = [call EXCEPT ![c] = req]

\* Another request for the same policy is on its way.
Overlaps(c, t, i) ==
  \/ \E d \in A1Callers \ {c} : call[d].op \in {"emit", "rollback"}
                               /\ call[d].type = t /\ call[d].id = i
  \/ \E r \in late : r.type = t /\ r.id = i

\* put_policy_type, which keeps what is there.
PutPolicyTypes(types) == ricTypes' = ricTypes \cup types

\* register_policy_types, at boot: a type whose request fails is logged and the
\* next one is tried.
RegisterPolicyTypes ==
  /\ dialect # NoDialect /\ a1Calls = 0
  /\ \E types \in SUBSET A1Types : PutPolicyTypes(types)
  /\ UNCHANGED <<dialect, ricHas, ricJobs, call, late, book, emitted, collided,
                 refused, a1Calls>>

\* emit_policy of a planned decision; an unregistered type raises.
EmitPolicy(c, raw, i) ==
  LET t == Choose(Risk(raw))
  IN  /\ t \in A1Types
      /\ Start(c, [op |-> "emit", type |-> t, id |-> i, risk |-> Risk(raw), status |-> 0])
      /\ book' = [book EXCEPT ![<<t, i>>] = IF Overlaps(c, t, i) THEN "unsure" ELSE "sent"]
      /\ collided' = (collided \/ (dialect \in Flat /\
                        \E u \in PolicyTypes \ {t} : book[<<u, i>>] # "unused"))
      /\ UNCHANGED <<dialect, ricTypes, ricHas, ricJobs, late, emitted, refused>>

\* rollback_policy of a policy emitted before.
RollbackPolicy(c, t, i) ==
  /\ book[<<t, i>>] # "unused"
  /\ Start(c, [NoCall EXCEPT !.op = "rollback", !.type = t, !.id = i])
  /\ book' = [book EXCEPT ![<<t, i>>] = IF Overlaps(c, t, i) THEN "unsure" ELSE "sent"]
  /\ UNCHANGED <<dialect, ricTypes, ricHas, ricJobs, late, emitted, collided, refused>>

\* create_ei_job and delete_ei_job, of one job.
EiJob(c, op) ==
  /\ Start(c, [NoCall EXCEPT !.op = op])
  /\ UNCHANGED <<dialect, ricTypes, ricHas, ricJobs, late, book, emitted, collided,
                 refused>>

-----------------------------------------------------------------------------
(* The RIC.                                                                *)

Without(addr) == {pol \in ricHas : pol[1] # addr}

\* put_policy: an unknown type is 404, a payload that does not conform 400.
PutStatus(r) ==
  IF r.type \notin ricTypes THEN 404
  ELSE IF ~Conforms(r.type, Candidate(r.type, r.risk)) THEN 400
  ELSE IF \E pol \in ricHas : pol[1] = Address(r.type, r.id) THEN 200 ELSE 201

\* delete_policy.
DeleteStatus(r) ==
  IF \E pol \in ricHas : pol[1] = Address(r.type, r.id) THEN 204 ELSE 404

\* One request handled: put_policy, delete_policy, and the A1-EI jobs.
Handle(r) ==
  CASE r.op = "emit" ->
         /\ ricHas' = IF PutStatus(r) < 300
                      THEN Without(Address(r.type, r.id))
                             \cup {<<Address(r.type, r.id), r.type>>}
                      ELSE ricHas
         /\ UNCHANGED ricJobs
    [] r.op = "rollback" ->
         /\ ricHas' = Without(Address(r.type, r.id))
         /\ UNCHANGED ricJobs
    [] OTHER ->
         /\ ricJobs' = IF r.op = "job" THEN ricJobs \cup {r.id} ELSE ricJobs \ {r.id}
         /\ UNCHANGED ricHas

HandledStatus(r) ==
  CASE r.op = "emit" -> PutStatus(r)
    [] r.op = "rollback" -> DeleteStatus(r)
    [] OTHER -> 200

\* A request arrives.
Arrive(c) ==
  /\ call[c].op # "none" /\ call[c].status = 0
  /\ Handle(call[c])
  /\ call' = [call EXCEPT ![c].status = HandledStatus(call[c])]
  /\ refused' = (refused \/ HandledStatus(call[c]) = 400)
  /\ UNCHANGED <<dialect, ricTypes, late, book, emitted, collided, a1Calls>>

\* A request arrives after its caller has given up.
ArriveLate(r) ==
  /\ Handle(r)
  /\ late' = late \ {r}
  /\ UNCHANGED <<dialect, ricTypes, call, book, emitted, collided, refused, a1Calls>>

-----------------------------------------------------------------------------
(* The adapter's answer.                                                   *)

\* raise_for_status: 2xx returns, anything else raises.  A 404 for a deletion
\* says that there is no such policy; a refused emit leaves the policy as it
\* was, which the caller need not know.
Answered(c) ==
  LET r == call[c]
  IN  /\ r.status # 0
      /\ call' = [call EXCEPT ![c] = NoCall]
      /\ emitted' = IF r.op = "emit" /\ r.status < 300 THEN emitted + 1 ELSE emitted
      /\ book' = IF r.op \in {"emit", "rollback"} /\ book[<<r.type, r.id>>] = "sent"
                 THEN [book EXCEPT ![<<r.type, r.id>>] =
                         IF r.op = "rollback" THEN "gone"
                         ELSE IF r.status < 300 THEN "live" ELSE "unsure"]
                 ELSE book
      /\ UNCHANGED <<dialect, ricTypes, ricHas, ricJobs, late, collided, refused,
                     a1Calls>>

\* The call times out or its connection breaks: httpx.HTTPError.  The request
\* may never arrive, may have arrived, or may arrive later.
GiveUp(c) ==
  LET r == call[c]
  IN  /\ r.op # "none"
      /\ call' = [call EXCEPT ![c] = NoCall]
      /\ late' \in IF r.status = 0 THEN {late, late \cup {r}} ELSE {late}
      /\ book' = IF r.op \in {"emit", "rollback"}
                 THEN [book EXCEPT ![<<r.type, r.id>>] = "unsure"] ELSE book
      /\ UNCHANGED <<dialect, ricTypes, ricHas, ricJobs, emitted, collided,
                     refused, a1Calls>>

A1Next ==
  \/ \E d \in A1Dialects : A1Configure(d)
  \/ RegisterPolicyTypes
  \/ \E c \in A1Callers :
       \/ \E raw \in EventRisks, i \in PolicyIds : EmitPolicy(c, raw, i)
       \/ \E t \in PolicyTypes, i \in PolicyIds : RollbackPolicy(c, t, i)
       \/ \E op \in {"job", "unjob"} : EiJob(c, op)
       \/ Arrive(c)
       \/ Answered(c)
       \/ GiveUp(c)
  \/ \E r \in late : ArriveLate(r)

A1Spec == A1Init /\ [][A1Next]_a1Vars

\* The RIC's answer for a policy's status: enforced from the put on.
RicStatus(addr) == IF \E pol \in ricHas : pol[1] = addr THEN "ENFORCED" ELSE "404"

\* get_policy_status of a policy, and whether the pipeline takes it for enforced.
StatusOf(t, i) == RicStatus(Address(t, i))
Enforced(status) == status \in {"ENFORCED", "IN EFFECT", "OK"}

-----------------------------------------------------------------------------
A1TypeOK ==
  /\ dialect \in A1Dialects \cup {NoDialect}
  /\ ricTypes \subseteq PolicyTypes
  /\ ricJobs \subseteq PolicyIds
  /\ \A c \in A1Callers : call[c].status \in {0, 200, 201, 204, 400, 404}
  /\ book \in [PolicyTypes \X PolicyIds ->
                 {"unused", "sent", "live", "gone", "unsure"}]
  /\ emitted \in 0..MaxA1Calls

\* What the adapter's answers told the rApp of a policy is what the RIC holds,
\* through lost and late requests and whatever other policies are emitted or
\* rolled back meanwhile: a policy reported live is enforced and listed under
\* its type, one reported deleted is neither, as long as no flat dialect is
\* given one id for policies of two types.  And the RIC never refuses a planned
\* payload for its contents: the planner and the schema agree at every risk.
PoliciesAsAnswered ==
  /\ ~refused
  /\ ~collided =>
       \A t \in PolicyTypes, i \in PolicyIds :
         /\ book[<<t, i>>] = "live" => Enforced(StatusOf(t, i)) /\ i \in Listed(t)
         /\ book[<<t, i>>] = "gone" => ~Enforced(StatusOf(t, i)) /\ i \notin Listed(t)
=============================================================================
