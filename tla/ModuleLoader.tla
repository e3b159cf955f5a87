---------------------------- MODULE ModuleLoader ----------------------------
(***************************************************************************)
(* The way of one import through DynamicModuleLoader (worker/modules.rs):     *)
(* resolve, load, the question to the imports callback on the Node side       *)
(* (dispatch/node_imports.rs) with its timeout, the rules that a resolved     *)
(* URL must pass, and the fetch of remote source through its disk cache.      *)
(*                                                                         *)
(* A specifier is a class of specifiers that the code treats alike, a URL     *)
(* the class it resolves to; sources are known by where they come from.       *)
(* Permission lists are abstracted to whether they admit the remote host; the *)
(* entries of the registry are the subject of ModuleRegistry.                 *)
(***************************************************************************)
EXTENDS FiniteSets, Naturals

CONSTANTS
    Loads,     \* imports in flight
    Configs,   \* worker configurations to start with
    MaxCached  \* bound on the files that are kept in the disk cache

Policies == {"DenyAll", "AllowDisk", "Callback"}

ConfigType ==
    [policy : Policies,
     wasm : BOOLEAN, node : BOOLEAN, jsr : BOOLEAN, http : BOOLEAN,
     https : BOOLEAN, outside : BOOLEAN, interop : BOOLEAN,
     importGrant : BOOLEAN, netGrant : BOOLEAN]

ASSUME ConfigAssumption == Configs \subseteq ConfigType /\ MaxCached \in Nat

VARIABLES
    cfg,         \* the worker's configuration, fixed at its creation
    registered,  \* does the registry hold the module registered as "name"
    evalSync,    \* eval_sync_active
    cached,      \* the disk cache: remote URLs, and where their source came from
    loads,       \* the state of each import
    ask          \* the imports callback of each import, on the Node side

vars == <<cfg, registered, evalSync, cached, loads, ask>>

-----------------------------------------------------------------------------
\* Specifiers: a registered name, a core module, ./in.js, ./types.ts, ./cjs.js,
\* ./in without extension, ./gone.js, ../out.js, ./m.wasm, a bare package name,
\* jsr:x, http://h/x.js, https://h/x.js, https://h/x.wasm
FileSpecs == {"in", "types", "script", "gone", "out", "wasm"}
RemoteSpecs == {"http", "https", "remoteWasm"}
Specs == FileSpecs \cup RemoteSpecs \cup {"name", "core", "bareIn", "package", "jsr"}

\* URLs: a file or remote specifier's own, plus the registered module's, a core
\* module's, that of a jsr: package, and one no loader serves.
Urls == FileSpecs \cup RemoteSpecs \cup {"virtual", "core", "jsrHttps", "unknown"}
None == "none"

Scheme(u) ==
    CASE u \in FileSpecs -> "file"
      [] u = "http" -> "http"
      [] u \in {"https", "remoteWasm", "jsrHttps"} -> "https"
      [] OTHER -> "other"

IsRemote(u) == Scheme(u) \in {"http", "https"}
IsWasm(x) == x \in {"wasm", "remoteWasm"}
WithinSandbox(u) == u # "out"
IsFile(u) == u # "gone"
IsBare(s) == s \in {"name", "core", "package", "jsr"}

-----------------------------------------------------------------------------
\* try_node_resolve_disk: the file itself, an extension or index fallback, a package
\* under node_modules; None is the fall-through to the next resolver.
NodeResolve(s) ==
    CASE s \in FileSpecs \ {"gone"} -> s
      [] s \in {"bareIn", "package"} -> "in"
      [] OTHER -> None

\* try_deno_resolve: relative paths and absolute URLs; a bare name is an error.
DenoResolve(s) ==
    CASE s \in FileSpecs \cup RemoteSpecs -> s
      [] s = "bareIn" -> "gone"
      [] s \in {"jsr", "core"} -> "unknown"
      [] OTHER -> None

\* resolve_like_allow_disk: None is an error.
ResolveAllowDisk(s) ==
    IF s = "name" /\ registered THEN "virtual"
    ELSE IF cfg.node /\ NodeResolve(s) # None THEN NodeResolve(s)
    ELSE IF s = "jsr" /\ cfg.jsr THEN "jsrHttps"
    ELSE IF IsBare(s) /\ ~cfg.node THEN None
    ELSE DenoResolve(s)

\* ensure_wasm_allowed, ensure_remote_load_allowed, ensure_remote_permissions
WasmAllowed(u) == cfg.wasm \/ ~IsWasm(u)
SchemeEnabled(u) ==
    (Scheme(u) = "http" /\ cfg.http) \/ (Scheme(u) = "https" /\ cfg.https)
ImportGrantOnly == cfg.importGrant      \* mutant: permissions.net is not asked
RemoteGranted == cfg.importGrant /\ cfg.netGrant
RemoteAllowed(u) == IsRemote(u) => SchemeEnabled(u) /\ RemoteGranted

\* Where load_resolved_module takes the source of a URL from: None is an error.
LoadResolvedUnchecked(u) ==             \* mutant: no rules of remote loads
    IF u = "virtual" /\ registered THEN "registry"
    ELSE IF ~WasmAllowed(u) THEN None
    ELSE IF Scheme(u) = "file" /\ ~WithinSandbox(u) /\ ~cfg.outside THEN None
    ELSE IF Scheme(u) = "file" /\ ~IsFile(u) THEN None
    ELSE IF IsRemote(u) THEN "remote"
    ELSE IF u = "script" /\ cfg.interop THEN "facade"
    ELSE IF u = "types" THEN (IF cfg.interop THEN "transpiled" ELSE None)
    ELSE IF Scheme(u) = "file" THEN "fs" ELSE None

LoadResolved(u) ==
    IF u = "virtual" /\ registered THEN "registry"
    ELSE IF ~WasmAllowed(u) \/ ~RemoteAllowed(u) THEN None
    ELSE IF Scheme(u) = "file" /\ ~WithinSandbox(u) /\ ~cfg.outside THEN None
    ELSE IF Scheme(u) = "file" /\ ~IsFile(u) THEN None
    ELSE IF IsRemote(u) THEN "remote"
    ELSE IF u = "script" /\ cfg.interop THEN "facade"
    ELSE IF u = "types" THEN (IF cfg.interop THEN "transpiled" ELSE None)
    ELSE IF Scheme(u) = "file" THEN "fs" ELSE None

\* load without a callback has its own checks of a remote URL and of the sandbox
\* before it comes to load_resolved_module.
LoadDirect(u) ==
    IF SchemeEnabled(u) THEN (IF WasmAllowed(u) /\ RemoteGranted THEN "remote" ELSE None)
    ELSE IF Scheme(u) = "file" /\ ~WithinSandbox(u) /\ ~cfg.outside THEN None
    ELSE LoadResolved(u)

-----------------------------------------------------------------------------
Idle == [pc |-> "idle", spec |-> None, url |-> None, source |-> None, answer |-> None,
         end |-> None]

Failed(l) == [l EXCEPT !.pc = "failed", !.source = None]
ServedFrom(l, s) == [l EXCEPT !.pc = "served", !.source = s]

\* The load of URL u goes on with its source s: remote source is fetched first.
From(l, u, s) ==
    LET at == [l EXCEPT !.url = u, !.source = s]
    IN  [at EXCEPT !.pc = IF s = None THEN "failed"
                          ELSE IF s = "remote" THEN "fetching" ELSE "served"]

Init ==
    /\ cfg \in Configs
    /\ registered \in BOOLEAN
    /\ evalSync = FALSE
    /\ cached = {}
    /\ loads = [l \in Loads |-> Idle]
    /\ ask = [l \in Loads |-> None]

\* resolve: the URL an import statement is given in the module graph; under the
\* callback policy a URL that wraps the specifier and its referrer.
Resolve(l, s) ==
    /\ loads[l].pc = "idle"
    /\ LET new == [Idle EXCEPT !.pc = "resolved", !.spec = s]
           u == ResolveAllowDisk(s)
       IN  loads' = [loads EXCEPT ![l] =
             IF ~cfg.wasm /\ IsWasm(s) THEN Failed(new)
             ELSE IF s = "name" /\ registered THEN [new EXCEPT !.url = "virtual"]
             ELSE IF s = "core" THEN [new EXCEPT !.url = "core"]
             ELSE IF cfg.policy = "Callback" THEN [new EXCEPT !.url = "wrapped"]
             ELSE IF u = None THEN Failed(new)
             ELSE [new EXCEPT !.url = u]]
    /\ UNCHANGED <<cfg, registered, evalSync, cached, ask>>

\* A core module is served by the runtime itself (external).
LoadCore(l) ==
    /\ loads[l].pc = "resolved" /\ loads[l].url = "core"
    /\ loads' = [loads EXCEPT ![l] = ServedFrom(loads[l], "builtin")]
    /\ UNCHANGED <<cfg, registered, evalSync, cached, ask>>

\* load, first part: the registry, the policy, and without a callback the URL itself.
LoadNow(l) ==
    LET u == loads[l].url IN
    /\ loads[l].pc = "resolved"
    /\ u # "core"
    /\ \/ cfg.policy # "Callback"
       \/ u = "virtual" /\ registered
       \/ evalSync
    /\ loads' = [loads EXCEPT ![l] =
          IF u = "virtual" /\ registered THEN ServedFrom(@, "registry")
          ELSE IF cfg.policy \in {"DenyAll", "Callback"} THEN Failed(@)
          ELSE IF ~WasmAllowed(u) THEN Failed(@)
          ELSE From(@, u, LoadDirect(u))]
    /\ UNCHANGED <<cfg, registered, evalSync, cached, ask>>

\* load, callback path: the request goes to the Node thread.
AskCallback(l) ==
    /\ loads[l].pc = "resolved"
    /\ loads[l].url # "core"
    /\ ~(loads[l].url = "virtual" /\ registered)
    /\ cfg.policy = "Callback"
    /\ ~evalSync
    /\ loads' = [loads EXCEPT ![l].pc = "asking"]
    /\ ask' = [ask EXCEPT ![l] = "queued"]
    /\ UNCHANGED <<cfg, registered, evalSync, cached>>

\* What the callback may return, and how interpret_value reads it; None is a value
\* it cannot read, which blocks.
Returns ==
    ({"true", "false", "string", "src", "badLoader", "resolveEmpty", "throws", "other"} \X {None})
        \cup ({"resolve"} \X Specs)

DecisionLenient(r) ==                   \* mutant: an unreadable value allows
    CASE r[1] \in {"string", "src"} -> "SourceTyped"
      [] r[1] = "resolve" -> "Resolve"
      [] r[1] \in {"false", "throws"} -> "Block"
      [] OTHER -> "AllowDisk"

DecisionOf(r) ==
    CASE r[1] = "true" -> "AllowDisk"
      [] r[1] \in {"string", "src"} -> "SourceTyped"
      [] r[1] = "resolve" -> "Resolve"
      [] OTHER -> "Block"

\* The load resumes with the decision; a load that timed out no longer listens.
Answer(l, r) ==
    LET d == DecisionOf(r)
        at == [loads[l] EXCEPT !.answer = r[1]]
        s == IF d = "Resolve" THEN r[2] ELSE loads[l].spec
    IN  loads' = [loads EXCEPT ![l] =
          IF @.pc # "asking" THEN @
          ELSE IF d = "Block" THEN Failed(at)
          ELSE IF d = "SourceTyped" THEN ServedFrom(at, "callback")
          ELSE IF ResolveAllowDisk(s) = None THEN Failed(at)
          ELSE From(at, ResolveAllowDisk(s), LoadResolved(ResolveAllowDisk(s)))]

\* handle_import_request calls the user's function, which returns, throws, or
\* returns a promise.
CallbackReturns(l, r) ==
    /\ ask[l] = "queued"
    /\ ask' = [ask EXCEPT ![l] = "answered"]
    /\ Answer(l, r)
    /\ UNCHANGED <<cfg, registered, evalSync, cached>>

CallbackPromises(l) ==
    /\ ask[l] = "queued"
    /\ ask' = [ask EXCEPT ![l] = "promised"]
    /\ UNCHANGED <<cfg, registered, evalSync, cached, loads>>

PromiseSettles(l, r) ==
    /\ ask[l] = "promised"
    /\ ask' = [ask EXCEPT ![l] = "answered"]
    /\ Answer(l, r)
    /\ UNCHANGED <<cfg, registered, evalSync, cached>>

\* Mutant: the timer only covers the call, not the promise it returned.
CallTimesOut(l) ==
    /\ loads[l].pc = "asking" /\ ask[l] = "queued"
    /\ loads' = [loads EXCEPT ![l] = Failed(@)]
    /\ UNCHANGED <<cfg, registered, evalSync, cached, ask>>

\* request_import_decision_with_timeout gives up after five seconds.
CallbackTimesOut(l) ==
    /\ loads[l].pc = "asking"
    /\ loads' = [loads EXCEPT ![l] = Failed(@)]
    /\ UNCHANGED <<cfg, registered, evalSync, cached, ask>>

\* Where the source of a remote URL comes from: the client follows up to ten
\* redirects, so that the answer to a request may be that of the host the permission
\* lists admit, by either scheme, or that of another host.
Ends == {"http", "https", "elsewhere"}

Fetched(l, end) == [ServedFrom(l, "remote") EXCEPT !.end = end]

\* read_or_fetch_remote_source: the file in the disk cache, if reload does not pass
\* it over and it can be read.
ReadCached(l, end) ==
    /\ loads[l].pc = "fetching"
    /\ [url |-> loads[l].url, end |-> end] \in cached
    /\ loads' = [loads EXCEPT ![l] = Fetched(@, end)]
    /\ UNCHANGED <<cfg, registered, evalSync, cached, ask>>

\* Else the network, which fails (None) or ends somewhere: fetch_remote_text looks at
\* the status and the size of the answer and not at its URL. What was fetched is kept
\* under the URL that was asked for, if the file can be written.
Fetch(l, end) ==
    LET file == [url |-> loads[l].url, end |-> end]
        kept == {f \in cached : f.url # file.url} \cup {file}
    IN  /\ loads[l].pc = "fetching"
        /\ loads' = [loads EXCEPT ![l] = IF end = None THEN Failed(@) ELSE Fetched(@, end)]
        /\ \/ UNCHANGED cached
           \/ end # None /\ Cardinality(kept) <= MaxCached /\ cached' = kept
        /\ UNCHANGED <<cfg, registered, evalSync, ask>>

\* An import of a module that was loaded or failed is over; another one starts.
Forget(l) ==
    /\ loads[l].pc \in {"served", "failed"}
    /\ ask[l] \in {None, "answered"}
    /\ loads' = [loads EXCEPT ![l] = Idle]
    /\ ask' = [ask EXCEPT ![l] = None]
    /\ UNCHANGED <<cfg, registered, evalSync, cached>>

\* The environment: module.register and module.clear, evalSync and its end.
ToggleRegistered ==
    /\ registered' = ~registered
    /\ UNCHANGED <<cfg, evalSync, cached, loads, ask>>

ToggleEvalSync ==
    /\ evalSync' = ~evalSync
    /\ UNCHANGED <<cfg, registered, cached, loads, ask>>

Runtime(l) ==
    \/ LoadCore(l)
    \/ LoadNow(l)
    \/ AskCallback(l)
    \/ CallbackTimesOut(l)
    \/ \E end \in Ends : ReadCached(l, end)
    \/ \E end \in Ends \cup {None} : Fetch(l, end)

Next ==
    \/ \E l \in Loads :
          \/ \E s \in Specs : Resolve(l, s)
          \/ Runtime(l)
          \/ \E r \in Returns : CallbackReturns(l, r) \/ PromiseSettles(l, r)
          \/ CallbackPromises(l)
          \/ Forget(l)
    \/ ToggleRegistered
    \/ ToggleEvalSync

\* The runtime polls its loads and their timers; the user's callback may never answer.
Fairness == \A l \in Loads : WF_vars(Runtime(l))

Spec == Init /\ [][Next]_vars /\ Fairness

-----------------------------------------------------------------------------
\* Every variable has its type: a load that is served has a source, one that
\* waits for the callback has its question open on the Node side, one that was
\* fetched came from somewhere, and only remote source is in the disk cache.
LoaderTypeOK ==
    /\ cfg \in Configs
    /\ registered \in BOOLEAN
    /\ evalSync \in BOOLEAN
    /\ cached \subseteq [url : {u \in Urls : IsRemote(u)}, end : Ends]
    /\ \A l \in Loads :
          /\ loads[l].pc \in {"idle", "resolved", "asking", "fetching", "served", "failed"}
          /\ loads[l].spec \in Specs \cup {None}
          /\ loads[l].url \in Urls \cup {"wrapped", None}
          /\ loads[l].pc = "served" => loads[l].source # None
          /\ loads[l].pc = "served" /\ loads[l].source = "remote" => loads[l].end \in Ends
          /\ loads[l].pc \in {"asking"} => ask[l] \in {"queued", "promised"}

\* Whatever way a source is reached by (directly, allowed or rewritten by the
\* callback, from the disk cache), the URL that is asked for is one the configuration
\* admits: wasm, schemes, both permission lists and the sandbox hold on every path.
\* Where redirects then lead is FinalUrlAdmitted.
SourceIsAdmitted ==
    \A l \in Loads : loads[l].pc \in {"served", "fetching"} =>
        LET u == loads[l].url IN
        CASE loads[l].source \in {"registry", "builtin"} -> TRUE
          [] loads[l].source = "callback" -> cfg.policy = "Callback"
          [] loads[l].source = "remote" ->
                /\ cfg.importGrant /\ cfg.netGrant
                /\ u = "http" => cfg.http
                /\ u # "http" => cfg.https
                /\ u = "remoteWasm" => cfg.wasm
          [] OTHER ->
                /\ u = "wasm" => cfg.wasm
                /\ u = "out" => cfg.outside

\* Not so, and checked by no run: that remote source comes from a URL the
\* configuration admits. The rules are asked of the URL of the request only.
FinalUrlAdmitted ==
    \A l \in Loads : loads[l].pc = "served" /\ loads[l].source = "remote" =>
        CASE loads[l].end = "http" -> cfg.http
          [] loads[l].end = "https" -> cfg.https
          [] OTHER -> FALSE

\* Every variable has its type, and the URL of every source is admitted.
ServesAdmitted == LoaderTypeOK /\ SourceIsAdmitted

\* Beyond the registry and the runtime's own modules nothing is served when imports
\* are off, and nothing without the callback's consent when there is one.
PolicyDecides ==
    \A l \in Loads :
        /\ loads[l].pc \in {"served", "fetching"}
        /\ loads[l].source \notin {"registry", "builtin"}
        => /\ cfg.policy # "DenyAll"
           /\ cfg.policy = "Callback" => loads[l].answer \in {"true", "string", "src", "resolve"}

\* A callback that returns true is as good as imports: true, no more and no less:
\* the import gets the source that load gives it without a callback, although the two
\* paths check the URL in different places.
TrueIsAllowDisk ==
    [][\A l \in Loads :
          /\ loads[l].pc = "asking" /\ loads'[l].answer = "true"
          => LET s == loads[l].spec
                 u == ResolveAllowDisk(s)
             IN  loads'[l].source = IF u = None THEN None ELSE LoadDirect(u)]_vars

\* Every import ends, also when the callback never answers.
EveryLoadSettles ==
    \A l \in Loads : loads[l].pc = "resolved" ~> loads[l].pc \in {"served", "failed"}
=============================================================================
