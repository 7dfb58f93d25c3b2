----------------------------- MODULE Registries ------------------------------
(***************************************************************************)
(* The plug-in registries, which work alike: emit guards by name           *)
(* (policy/guard_registry.py), and sources and sinks by name               *)
(* (io/registry.py).  Built-ins are registered at import, the program may  *)
(* register more, and the first lookup loads the installed entry points,   *)
(* one after the other.  Nothing is locked, so another thread may look up  *)
(* while they are being loaded.                                            *)
(*                                                                         *)
(* An entry has a kind (a guard, a source or a sink), a name and what it   *)
(* does: a guard passes, fails or raises; a connector is of one class.     *)
(***************************************************************************)
EXTENDS Naturals, Sequences, FiniteSets, SequencesExt

CONSTANTS BuiltIns,     \* registered at import: [kind, name, fn]
          EntryPoints,  \* installed plug-ins, in order
          Registered,   \* what the program registers itself
          RegThreads,   \* threads that look up
          MaxChains     \* chains run, or connectors asked for

Plugin == [kind : STRING, name : STRING, fn : STRING]

\* The modules that register the built-ins give each one a name of its own.
ASSUME RegAssumption ==
  /\ BuiltIns \subseteq Plugin /\ IsFiniteSet(BuiltIns)
  /\ \A x, y \in BuiltIns : x.kind = y.kind /\ x.name = y.name => x = y
  /\ EntryPoints \in Seq(Plugin) /\ Registered \subseteq Plugin
  /\ MaxChains \in Nat

\* Which kinds a registry takes; anything else is not callable, or is neither a
\* Source nor a Sink, and "broken" does not even load.
KindsOf == [guards |-> {"guard"}, connectors |-> {"source", "sink"}]

VARIABLES regOf,       \* which registry this is
          regEntries,  \* _entries, or _sources and _sinks
          regLoaded,   \* _loaded_entry_points
          regAt,       \* regAt[t]: entry points t has dealt with, or NotLoading
          regChain,    \* the last chain's guards and failures
          regGot,      \* the last connector asked for, and the outcome
          regCut,      \* ghost: loading was cut short by a name already taken
          regEver,     \* ghost: every binding ever made
          regChains

regVars == <<regOf, regEntries, regLoaded, regAt, regChain, regGot, regCut,
             regEver, regChains>>

NotLoading == Len(EntryPoints) + 1
NoChain == [ran |-> <<>>, failures |-> {}, alone |-> FALSE]
NothingGot == [name |-> "", outcome |-> "none"]

Taken(e) == e.kind \in KindsOf[regOf]
Names(entries) == {<<entries[i].kind, entries[i].name>> : i \in DOMAIN entries}

\* Import: the built-ins of the registry.
RegInit ==
  /\ regOf \in DOMAIN KindsOf
  /\ regEntries = SetToSeq({e \in BuiltIns : Taken(e)})
  /\ regLoaded = FALSE
  /\ regAt = [t \in RegThreads |-> NotLoading]
  /\ regChain = NoChain
  /\ regGot = NothingGot
  /\ regCut = FALSE
  /\ regEver = ToSet(regEntries)
  /\ regChains = 0

\* register, register_source, register_sink: the same object again changes
\* nothing, another one under the name is refused, as is the wrong type.
Refuses(e) ==
  \/ ~Taken(e)
  \/ \E i \in DOMAIN regEntries : /\ regEntries[i].kind = e.kind
                                  /\ regEntries[i].name = e.name
                                  /\ regEntries[i].fn # e.fn

\* Fault: a later registration replaces an earlier one.
BoundReplacing(e) ==
  IF ~Taken(e) THEN regEntries
  ELSE Append(SelectSeq(regEntries,
                        LAMBDA x : x.kind # e.kind \/ x.name # e.name), e)

Bound(e) ==
  IF Refuses(e) \/ <<e.kind, e.name>> \in Names(regEntries) THEN regEntries
  ELSE Append(regEntries, e)

\* register_guard, register_source and register_sink by the program.
Register(e) ==
  /\ regEntries' = Bound(e)
  /\ regEver' = regEver \cup ToSet(regEntries')
  /\ UNCHANGED <<regOf, regLoaded, regAt, regChain, regGot, regCut, regChains>>

\* The first lookup sets the flag and loads.
Lookup(t) ==
  /\ regAt[t] = NotLoading /\ ~regLoaded
  /\ regLoaded' = TRUE
  /\ regAt' = [regAt EXCEPT ![t] = 0]
  /\ UNCHANGED <<regOf, regEntries, regChain, regGot, regCut, regEver, regChains>>

\* _maybe_load_entry_points, one entry point: one that does not load or is of no
\* type the registry takes is passed over, one whose name is taken raises out of
\* the lookup.
LoadNext(t) ==
  /\ regAt[t] < Len(EntryPoints)
  /\ LET ep == EntryPoints[regAt[t] + 1]
         raises == Taken(ep) /\ Refuses(ep)
     IN  /\ regEntries' = Bound(ep)
         /\ regAt' = [regAt EXCEPT ![t] = IF raises THEN NotLoading ELSE @ + 1]
         /\ regCut' = (regCut \/ raises)
  /\ regEver' = regEver \cup ToSet(regEntries')
  /\ UNCHANGED <<regOf, regLoaded, regChain, regGot, regChains>>

LookupDone(t) ==
  /\ regAt[t] = Len(EntryPoints)
  /\ regAt' = [regAt EXCEPT ![t] = NotLoading]
  /\ UNCHANGED <<regOf, regEntries, regLoaded, regChain, regGot, regCut, regEver,
                 regChains>>

\* Nobody is loading, and no load was cut short.
Settled == ~regCut /\ \A t \in RegThreads : regAt[t] = NotLoading

\* run_guard_chain: every guard (or those asked for) in order; one that raises
\* is a failure of its own.
RunGuardChain(only) ==
  /\ regOf = "guards" /\ regLoaded /\ regChains < MaxChains
  /\ LET ran == IF only = {} THEN regEntries
                ELSE SelectSeq(regEntries, LAMBDA e : e.name \in only)
     IN  regChain' = [ran |-> ran,
                      failures |-> {e.name : e \in {e \in ToSet(ran) : e.fn # "passes"}},
                      alone |-> only = {} /\ Settled]
  /\ regChains' = regChains + 1
  /\ UNCHANGED <<regOf, regEntries, regLoaded, regAt, regGot, regCut, regEver>>

\* _coerce_config: a dict is validated, a config object has to be of the class
\* the connector declares.
CoerceConfig(config) == config \in {"valid dict", "own config"}

\* get_source / get_sink: an unknown name and a bad config are ConnectorConfigError.
GetConnector(kind, name, config) ==
  /\ regOf = "connectors" /\ regLoaded /\ regChains < MaxChains
  /\ LET found == {e \in ToSet(regEntries) : e.kind = kind /\ e.name = name}
     IN  regGot' = IF found = {} \/ ~CoerceConfig(config)
                   THEN [name |-> name, outcome |-> "ConnectorConfigError"]
                   ELSE [name |-> name, kind |-> kind, outcome |-> "connector",
                         fn |-> (CHOOSE e \in found : TRUE).fn]
  /\ regChains' = regChains + 1
  /\ UNCHANGED <<regOf, regEntries, regLoaded, regAt, regChain, regCut, regEver>>

RegNext ==
  \/ \E e \in Registered : Register(e)
  \/ \E t \in RegThreads : Lookup(t) \/ LoadNext(t) \/ LookupDone(t)
  \/ \E only \in SUBSET {e.name : e \in BuiltIns} : RunGuardChain(only)
  \/ \E e \in BuiltIns \cup Registered, config \in {"valid dict", "other config"} :
       GetConnector(e.kind, e.name, config)

RegSpec == RegInit /\ [][RegNext]_regVars

RegTypeOK ==
  /\ \A i \in DOMAIN regEntries : Taken(regEntries[i])
  /\ \A t \in RegThreads : regAt[t] \in 0..Len(EntryPoints) \cup {NotLoading}

-----------------------------------------------------------------------------
\* A name keeps what it was first bound to, whoever registers or installs
\* another one under it, so that a built-in guard or connector is never
\* displaced, and a connector handed out is of the class its name was bound to.
\* A chain run while nobody is loading, after a load that was not cut short, has
\* every installed guard in it and fails whenever one of them fails or raises.
GuardsKept ==
  /\ \A x, y \in regEver : x.kind = y.kind /\ x.name = y.name => x = y
  /\ regGot.outcome = "connector" =>
       [kind |-> regGot.kind, name |-> regGot.name, fn |-> regGot.fn] \in ToSet(regEntries)
  /\ regChain.alone =>
       /\ \A e \in BuiltIns \cup ToSet(EntryPoints) :
            e.kind = "guard" => <<"guard", e.name>> \in Names(regChain.ran)
       /\ \A e \in ToSet(regChain.ran) : e.fn # "passes" => e.name \in regChain.failures
=============================================================================
