--------------------------- MODULE ModuleRegistry ---------------------------
(***************************************************************************)
(* The in-memory module registry of one worker (worker/modules.rs) and the  *)
(* requests that fill it: module.register and module.clear                  *)
(* (deno_commands.rs), evalModule (eval.rs) and the source an imports        *)
(* callback returns.  Entries are persistent (capped, evicted in LRU order   *)
(* once they were loaded) or ephemeral (a budget of three loads).            *)
(*                                                                         *)
(* A key is the canonical URL of an entry: Canon(name) for a registered      *)
(* name, Virtual(i) for the i-th generated specifier.  The source text is    *)
(* not modelled.  `known' is V8's module map (external): a URL it holds is   *)
(* imported without asking the loader again.                                *)
(***************************************************************************)
EXTENDS Integers, Sequences, FiniteSets, Functions

CONSTANTS
    Names,       \* module names given to module.register
    Limit,       \* persistent_limit: DENOJS_WORKER_PERSISTENT_MODULE_LIMIT
    MaxVirtual   \* bound: how many virtual specifiers are generated

ASSUME RegistryAssumption == Limit \in Nat \ {0} /\ MaxVirtual \in Nat

VARIABLES
    modules,    \* key -> entry, the modules map
    aliases,    \* name -> key
    lru,        \* persistent_lru, least recent first
    counter,    \* next_virtual_specifier's counter
    known,      \* V8's module map: the URLs already loaded (external)
    evaluating, \* the evalModule request that runs: its key and its stage
    wrappers,   \* virtual keys whose wrapper module is served but not yet linked
    recency     \* history: loaded persistent keys, least recent load first

vars == <<modules, aliases, lru, counter, known, evaluating, wrappers, recency>>

-----------------------------------------------------------------------------
Canon(n) == <<"named", n>>
Virtual(i) == <<"vm", i>>
Keys == {Canon(n) : n \in Names} \cup {Virtual(i) : i \in 1..MaxVirtual}

\* Ephemeral modules survive three loads.
Budget == 3
Persistent == [persistent |-> TRUE, left |-> 0, loaded |-> FALSE]
Ephemeral == [persistent |-> FALSE, left |-> Budget, loaded |-> FALSE]
Entries == [persistent : BOOLEAN, left : 0..Budget, loaded : BOOLEAN]

Idle == [key |-> <<"none", 0>>, stage |-> "idle"]

Put(m, k, e) == [x \in DOMAIN m \cup {k} |-> IF x = k THEN e ELSE m[x]]
Drop(m, K) == [x \in DOMAIN m \ K |-> m[x]]

\* s without the elements of K, the others in their order (a SelectSeq, as a
\* function the proofs can unfold).
Less(s, K) ==
    LET upTo[n \in 0..Len(s)] ==
            IF n = 0 THEN <<>>
            ELSE IF s[n] \in K THEN upTo[n - 1] ELSE Append(upTo[n - 1], s[n])
    IN  upTo[Len(s)]

Without(s, k) == Less(s, {k})

\* Only an entry that a load has consumed may be evicted.
EvictableAny(m, k) == k \in DOMAIN m /\ m[k].persistent   \* mutant: any persistent one
Evictable(m, k) == k \in DOMAIN m /\ m[k].persistent /\ m[k].loaded

PersistentKeys(m) == {k \in DOMAIN m : m[k].persistent}

\* The positions evict_persistent_if_needed removes: the first evictable ones,
\* as many as the registry is over its limit.
Victims(m, s) ==
    {i \in 1..Len(s) :
        /\ Evictable(m, s[i])
        /\ Cardinality({j \in 1..i : Evictable(m, s[j])})
             <= Cardinality(PersistentKeys(m)) - Limit}

Evicted(m, s) == {s[i] : i \in Victims(m, s)}

\* The scan pops from the front and pushes what it may not evict to the back: it
\* stops after the last victim, or comes back to the same order after a full turn.
Rotated(m, s) ==
    IF Victims(m, s) = {} THEN s
    ELSE LET p == CHOOSE i \in Victims(m, s) : \A j \in Victims(m, s) : j <= i
         IN  SubSeq(s, p + 1, Len(s))
               \o Less(SubSeq(s, 1, p), Evicted(m, s))

\* touch_lru: the key becomes the most recent one.
Touch(s, k) == Append(Without(s, k), k)

\* put_persistent and put_named_persistent: insert, touch, then evict down to the
\* limit.
Store(k) ==
    LET m == Put(modules, k, Persistent)
        s == Touch(lru, k)
    IN  /\ modules' = Drop(m, Evicted(m, s))
        /\ lru' = Rotated(m, s)
        /\ recency' = Less(recency, {k} \cup Evicted(m, s))

\* get_for_load of a persistent entry marks and touches it.  Mutant: no touch.
LoadPersistentUntouched(k) ==
    /\ k \in PersistentKeys(modules)
    /\ modules' = Put(modules, k, [modules[k] EXCEPT !.loaded = TRUE])
    /\ recency' = Append(Without(recency, k), k)
    /\ UNCHANGED lru

LoadPersistent(k) ==
    /\ k \in PersistentKeys(modules)
    /\ modules' = Put(modules, k, [modules[k] EXCEPT !.loaded = TRUE])
    /\ lru' = Touch(lru, k)
    /\ recency' = Append(Without(recency, k), k)

\* get_for_load of an ephemeral entry spends one use; the last one removes it.
LoadEphemeral(k) ==
    /\ k \in DOMAIN modules \ PersistentKeys(modules)
    /\ modules' = IF modules[k].left > 1
                  THEN [modules EXCEPT ![k].left = @ - 1]
                  ELSE Drop(modules, {k})
    /\ UNCHANGED <<lru, recency>>

GetForLoad(k) == LoadPersistent(k) \/ LoadEphemeral(k)

-----------------------------------------------------------------------------
Init ==
    /\ modules = <<>>
    /\ aliases = <<>>
    /\ lru = <<>>
    /\ counter = 0
    /\ known = {}
    /\ evaluating = Idle
    /\ wrappers = {}
    /\ recency = <<>>

\* module.register: put_named_persistent under the canonical URL of the name.
\* The runtime thread handles a request only when no evaluation is running.
Register(n) ==
    /\ evaluating = Idle
    /\ aliases' = Put(aliases, n, Canon(n))
    /\ Store(Canon(n))
    /\ UNCHANGED <<counter, known, evaluating, wrappers>>

\* module.clear: remove_named.
ClearKeepLru(n) ==
    /\ evaluating = Idle
    /\ n \in DOMAIN aliases
    /\ aliases' = Drop(aliases, {n})
    /\ modules' = Drop(modules, {aliases[n]})
    /\ recency' = Without(recency, aliases[n])
    /\ UNCHANGED <<lru, counter, known, evaluating, wrappers>>

Clear(n) ==
    /\ evaluating = Idle
    /\ n \in DOMAIN aliases
    /\ aliases' = Drop(aliases, {n})
    /\ modules' = Drop(modules, {aliases[n]})
    /\ lru' = Without(lru, aliases[n])
    /\ recency' = Without(recency, aliases[n])
    /\ UNCHANGED <<counter, known, evaluating, wrappers>>

\* evalModule stores its source under a fresh virtual URL ...
BeginEval ==
    /\ evaluating = Idle
    /\ counter < MaxVirtual
    /\ counter' = counter + 1
    /\ evaluating' = [key |-> Virtual(counter + 1), stage |-> "load"]
    /\ modules' = Put(modules, Virtual(counter + 1), Ephemeral)
    /\ lru' = Without(lru, Virtual(counter + 1))
    /\ UNCHANGED <<aliases, known, wrappers, recency>>

\* ... loads it as a side module ...
LoadEval ==
    /\ evaluating.stage = "load"
    /\ GetForLoad(evaluating.key)
    /\ known' = known \cup {evaluating.key}
    /\ evaluating' = [evaluating EXCEPT !.stage = "run"]
    /\ UNCHANGED <<aliases, counter, wrappers>>

\* ... and removes it when loading or running the module failed; the import()
\* that reads the exports afterwards finds the module in V8's map.
EndEval(ok) ==
    /\ evaluating # Idle
    /\ ok => evaluating.stage = "run"
    /\ modules' = IF ok THEN modules ELSE Drop(modules, {evaluating.key})
    /\ evaluating' = Idle
    /\ UNCHANGED <<aliases, lru, counter, known, wrappers, recency>>

\* The imports callback answered with source: build_source_typed_module stores it
\* under a fresh URL and serves a wrapper that re-exports from that URL.
ServeSource ==
    /\ counter < MaxVirtual
    /\ counter' = counter + 1
    /\ Store(Virtual(counter + 1))
    /\ wrappers' = wrappers \cup {Virtual(counter + 1)}
    /\ UNCHANGED <<aliases, known, evaluating>>

\* The loader is asked for a key: by an import of its URL or alias that V8 does
\* not know yet, or because the imports callback rewrote another specifier to it.
Load(k, rewritten) ==
    /\ rewritten \/ k \notin known
    /\ evaluating = Idle \/ evaluating.key # k \/ evaluating.stage = "run"
    /\ GetForLoad(k)
    /\ known' = known \cup {k}
    /\ wrappers' = wrappers \ {k}
    /\ UNCHANGED <<aliases, counter, evaluating>>

\* The graph of a wrapper was abandoned (its import failed or timed out).
Abandon(k) ==
    /\ k \in wrappers
    /\ wrappers' = wrappers \ {k}
    /\ UNCHANGED <<modules, aliases, lru, counter, known, evaluating, recency>>

Next ==
    \/ \E n \in Names : Register(n) \/ Clear(n)
    \/ BeginEval
    \/ LoadEval
    \/ \E ok \in BOOLEAN : EndEval(ok)
    \/ ServeSource
    \/ \E k \in Keys : Abandon(k) \/ \E rewritten \in BOOLEAN : Load(k, rewritten)

Spec == Init /\ [][Next]_vars

-----------------------------------------------------------------------------
\* Types: an ephemeral entry always has a use left, a persistent one counts none.
RegistryTypeOK ==
    /\ DOMAIN modules \subseteq Keys
    /\ \A k \in DOMAIN modules :
          /\ modules[k] \in Entries
          /\ modules[k].persistent <=> modules[k].left = 0
    /\ DOMAIN aliases \subseteq Names
    /\ \A n \in DOMAIN aliases : aliases[n] = Canon(n)
    /\ lru \in Seq(Keys)
    /\ counter \in 0..MaxVirtual
    /\ known \subseteq Keys
    /\ evaluating \in [key : Keys \cup {Idle.key}, stage : {"idle", "load", "run"}]
    /\ wrappers \subseteq Keys

\* The eviction queue and the map never drift apart: the queue holds every
\* persistent entry exactly once and nothing else, over any order of puts, loads,
\* clears and failed evaluations (a leftover would make the scan give up early).
QueueMatchesMap ==
    /\ {lru[i] : i \in 1..Len(lru)} = PersistentKeys(modules)
    /\ Len(lru) = Cardinality(PersistentKeys(modules))

\* Every variable has its type, and the queue matches the map.
RegistryConsistent == RegistryTypeOK /\ QueueMatchesMap

\* A wrapper that was served can always be linked: the source it re-exports is not
\* evicted, cleared or used up before it is loaded.
WrapperCanLink == \A k \in wrappers : k \in PersistentKeys(modules)

\* A name stays importable from its registration to its clear: its entry is there,
\* or V8 holds the module because the entry was evicted after a load.
RegisteredIsImportable ==
    \A n \in DOMAIN aliases : aliases[n] \in DOMAIN modules \cup known

\* The requests that store a persistent entry.
StoreRequest == ServeSource \/ \E n \in Names : Register(n)

\* What a put evicts is what was loaded longest ago: no loaded entry stays that was
\* loaded before one that goes.
OldestGoFirst ==
    \A i, j \in 1..Len(recency) :
        /\ i < j
        /\ recency[j] \notin DOMAIN modules'
        => recency[i] \notin DOMAIN modules' \/ ~modules'[recency[i]].loaded

\* The cap: when a put is done the registry is over its limit only by entries that
\* nobody has loaded yet.
CapRestored ==
    \/ Cardinality(PersistentKeys(modules')) <= Limit
    \/ \A k \in PersistentKeys(modules') : ~modules'[k].loaded

\* The registry is a cache of the sources used last: a put that goes over the limit
\* evicts until the cap holds again, and evicts in the order of use.
PutEvictsLeastRecent == [][StoreRequest => OldestGoFirst /\ CapRestored]_vars

\* "Stores a temporary module that is evicted after the loader consumes it":
\* between evaluations no ephemeral entry is left.
NoEphemeralLeft ==
    evaluating = Idle => \A k \in DOMAIN modules : modules[k].persistent
=============================================================================
