--------------------------- MODULE AdmissionProofs ---------------------------
(***************************************************************************)
(* What a worker lets in and out. The window that is shown of the bytes of   *)
(* a view (BufferViews), for every buffer, kind, offset and length; the      *)
(* BigInts that leave as numbers (BridgeNumbers), for every word length; and *)
(* the source that an import is given (ModuleLoader), for any imports in     *)
(* flight and any configurations.                                            *)
(***************************************************************************)
EXTENDS BufferViews, BridgeNumbers, Integers, ModuleLoader, TLAPS

Kinds == ViewKinds \cup BufferKinds

LEMMA BytesPerElementRange ==
  ASSUME NEW kind \in Kinds
  PROVE  BytesPerElement(kind) \in {1, 2, 4, 8}
  BY DEF Kinds, ViewKinds, BufferKinds, BytesPerElement

LEMMA BufferBytes ==
  ASSUME NEW kind \in BufferKinds
  PROVE  BytesPerElement(kind) = 1
  BY DEF BufferKinds, BytesPerElement

(* The window lies within the payload, whatever offset and length the other *)
(* side claims: no view is made on bytes that are not there.                *)
THEOREM WindowInBounds ==
  ASSUME NEW kind \in Kinds, NEW raw \in Nat, NEW byteOffset \in Nat, NEW length \in Nat
  PROVE  LET w == BufferViewWindow(kind, raw, byteOffset, length) IN
           /\ w.offset \in Nat /\ w.length \in Nat
           /\ w.offset + w.length * BytesPerElement(kind) <= raw
  <1> DEFINE bpe == BytesPerElement(kind)
             safe == IF byteOffset <= raw THEN byteOffset ELSE raw
             w == BufferViewWindow(kind, raw, byteOffset, length)
  <1>1. bpe \in {1, 2, 4, 8} /\ (kind \in BufferKinds => bpe = 1)
    BY BytesPerElementRange, BufferBytes
  <1>2. CASE kind \in BufferKinds
    <2>1. w = Window(0, IF length <= raw THEN length ELSE raw)
      BY <1>2 DEF BufferViewWindow
    <2>2. QED BY <1>1, <1>2, <2>1 DEF Window
  <1>3. CASE kind \notin BufferKinds /\ byteOffset + length * bpe <= raw
    <2>1. w = Window(byteOffset, length)
      BY <1>3 DEF BufferViewWindow
    <2>2. QED BY <1>3, <2>1 DEF Window
  <1>4. CASE kind \notin BufferKinds /\ ~(byteOffset + length * bpe <= raw) /\ length * bpe <= raw
    <2>1. w = Window(0, length)
      BY <1>4 DEF BufferViewWindow
    <2>2. QED BY <1>1, <1>4, <2>1 DEF Window
  <1>5. CASE kind \notin BufferKinds /\ ~(byteOffset + length * bpe <= raw) /\ ~(length * bpe <= raw)
    <2>1. w = Window(safe, (raw - safe) \div bpe)
      BY <1>5 DEF BufferViewWindow
    <2>2. safe \in Nat /\ raw - safe \in Nat
      OBVIOUS
    <2>3. (raw - safe) \div bpe \in Nat /\ ((raw - safe) \div bpe) * bpe <= raw - safe
      <3> HIDE DEF bpe, safe
      <3>1. CASE bpe = 1 BY <2>2, <3>1
      <3>2. CASE bpe = 2 BY <2>2, <3>2
      <3>3. CASE bpe = 4 BY <2>2, <3>3
      <3>4. CASE bpe = 8 BY <2>2, <3>4
      <3>5. QED BY <1>1, <3>1, <3>2, <3>3, <3>4
    <2>4. w.offset = safe /\ w.length = (raw - safe) \div bpe
      BY <2>1 DEF Window
    <2>5. QED
      <3> HIDE DEF bpe, safe, w
      <3>1. w.length * bpe <= raw - safe
        BY <2>3, <2>4
      <3>2. w.length * bpe \in Int
        BY <1>1, <2>3, <2>4
      <3>3. w.offset + w.length * bpe <= raw
        BY <2>2, <2>4, <3>1, <3>2
      <3>4. QED BY <2>2, <2>3, <2>4, <3>3 DEF w, bpe
  <1>6. QED BY <1>2, <1>3, <1>4, <1>5

(* A view that crosses shows the same bytes, although its bytes are copied  *)
(* to the start of a new buffer and its old offset goes with them.          *)
THEOREM ViewCrossesIntact ==
  ASSUME NEW S, NEW v,
         v \in [kind : Kinds, bytes : Seq(S), offset : Nat, length : Nat],
         IsView(v), v.kind \in BufferKinds => v.offset = 0
  PROVE  /\ IsView(CopyIn(CopyOut(v)))
         /\ Shown(CopyIn(CopyOut(v))) = Shown(v)
  <1> DEFINE bpe == BytesPerElement(v.kind)
             span == v.length * bpe
             shown == Shown(v)
             p == CopyOut(v)
             c == CopyIn(p)
  <1>1. bpe \in {1, 2, 4, 8} /\ (v.kind \in BufferKinds => bpe = 1)
    BY BytesPerElementRange, BufferBytes
  <1>2. span \in Nat /\ v.offset + span <= Len(v.bytes)
    BY <1>1 DEF IsView
  <1>3. shown \in Seq(S) /\ Len(shown) = span
    <2>1. v.offset + 1 \in 1..(Len(v.bytes) + 1) /\ v.offset + span \in Nat /\ v.offset + span <= Len(v.bytes)
      BY <1>2
    <2>2. QED BY <1>2, <2>1 DEF Shown
  <1>4. BufferViewWindow(v.kind, span, v.offset, v.length) = Window(0, v.length)
    <2>1. CASE v.kind \in BufferKinds
      BY <1>1, <2>1 DEF BufferViewWindow
    <2>2. CASE v.kind \notin BufferKinds /\ v.offset = 0
      BY <1>2, <2>2 DEF BufferViewWindow
    <2>3. CASE v.kind \notin BufferKinds /\ v.offset # 0
      <3>1. ~(v.offset + span <= span) /\ span <= span
        BY <1>2, <2>3
      <3>2. QED BY <2>3, <3>1 DEF BufferViewWindow
    <2>4. QED BY <2>1, <2>2, <2>3
  <1>5. c = [kind |-> v.kind, bytes |-> shown, offset |-> 0, length |-> v.length]
    BY <1>3, <1>4 DEF CopyIn, CopyOut, Window
  <1>6. IsView(c)
    BY <1>2, <1>3, <1>5 DEF IsView, Kinds
  <1>7. Shown(c) = SubSeq(shown, 1, span)
    BY <1>2, <1>5 DEF Shown
  <1>8. SubSeq(shown, 1, Len(shown)) = shown
    BY <1>3
  <1>9. QED BY <1>3, <1>6, <1>7, <1>8

(***************************************************************************)
(* The worker's end casts a BigInt to a double and back to decide whether  *)
(* it can travel as a number. Casts saturate, so the test lets through two *)
(* integers at most that the double does not represent, the largest of i64 *)
(* and of u64: any other BigInt that travels as a number is that number,   *)
(* whatever the width of the integers and of the significand.              *)
(***************************************************************************)
THEOREM OnlyTheLargestSaturate ==
  ASSUME NEW i \in Int, GoesAsNumber(i)
  PROVE  F64(i) = i \/ i \in {MaxI64, MaxU64}
  <1>1. CASE Saturate(F64(i), MaxI64) = i
    BY <1>1 DEF Saturate
  <1>2. CASE Saturate(F64(i), MaxU64) = i
    BY <1>2 DEF Saturate
  <1>3. QED BY <1>1, <1>2 DEF GoesAsNumber

-----------------------------------------------------------------------------
\* Imports. The invariant says of each import what is known of it at its stage.

Load == [pc : {"idle", "resolved", "asking", "fetching", "served", "failed"},
         spec : Specs \cup {None}, url : Urls \cup {"wrapped", None},
         source : {"registry", "builtin", "callback", "remote", "facade", "transpiled", "fs", None},
         answer : {None} \cup {r[1] : r \in Returns}, end : Ends \cup {None}]

Files == [url : {u \in Urls : IsRemote(u)}, end : Ends]

Asks == {None, "queued", "promised", "answered"}

\* A source that a rule of the configuration lets through for a URL.
Admits(u, s) ==
    \/ s = "registry"
    \/ /\ s = "remote"
       /\ IsRemote(u) /\ cfg.importGrant /\ cfg.netGrant
       /\ u = "http" => cfg.http
       /\ u # "http" => cfg.https
       /\ u = "remoteWasm" => cfg.wasm
    \/ /\ s \in {"facade", "transpiled", "fs"}
       /\ u = "wasm" => cfg.wasm
       /\ u = "out" => cfg.outside

Sources == {"registry", "remote", "facade", "transpiled", "fs", None}

LEMMA SpecsAndUrls ==
    /\ Specs = {"in", "types", "script", "gone", "out", "wasm", "http", "https",
                "remoteWasm", "name", "core", "bareIn", "package", "jsr"}
    /\ Urls = {"in", "types", "script", "gone", "out", "wasm", "http", "https",
               "remoteWasm", "virtual", "core", "jsrHttps", "unknown"}
BY DEF Specs, Urls, FileSpecs, RemoteSpecs

LEMMA SchemeOf ==
    ASSUME NEW u \in Urls \cup {"wrapped"}
    PROVE  /\ Scheme(u) = "file" <=> u \in FileSpecs
           /\ Scheme(u) = "http" <=> u = "http"
           /\ Scheme(u) = "https" <=> u \in {"https", "remoteWasm", "jsrHttps"}
           /\ IsRemote(u) <=> u \in {"http", "https", "remoteWasm", "jsrHttps"}
<1>1. /\ u \in FileSpecs => Scheme(u) = "file" 
      /\ u = "http" => Scheme(u) = "http"
      /\ u \in {"https", "remoteWasm", "jsrHttps"} => Scheme(u) = "https"
      /\ u \notin FileSpecs \cup {"http", "https", "remoteWasm", "jsrHttps"} => Scheme(u) = "other"
    BY DEF Scheme, FileSpecs
<1>2. QED
    BY <1>1 DEF IsRemote, FileSpecs

LEMMA ResolvedUrl ==
    ASSUME NEW s \in Specs
    PROVE  ResolveAllowDisk(s) \in Urls \cup {None}
BY SpecsAndUrls DEF ResolveAllowDisk, NodeResolve, DenoResolve, FileSpecs, RemoteSpecs, None

\* load_resolved_module gives only sources that the configuration lets through.
LEMMA LoadResolvedAdmits ==
    ASSUME NEW u \in Urls \cup {"wrapped"}
    PROVE  /\ LoadResolved(u) \in Sources
           /\ LoadResolved(u) # None => Admits(u, LoadResolved(u))
<1>1. Scheme(u) = "file" /\ u = "out" => ~WithinSandbox(u)
    BY DEF WithinSandbox
<1>2. u = "wasm" => Scheme(u) = "file" 
    BY SchemeOf DEF FileSpecs
<1>3. u = "out" => Scheme(u) = "file" 
    BY SchemeOf DEF FileSpecs
<1>4. WasmAllowed(u) => (IsWasm(u) => cfg.wasm)
    BY DEF WasmAllowed
<1>5. RemoteAllowed(u) /\ IsRemote(u) =>
          /\ cfg.importGrant /\ cfg.netGrant
          /\ u = "http" => cfg.http
          /\ u # "http" => cfg.https
    BY SchemeOf DEF RemoteAllowed, SchemeEnabled, RemoteGranted
<1>6. CASE LoadResolved(u) \in {"registry", None}
    BY <1>6 DEF Admits, Sources, None
<1>7. CASE LoadResolved(u) \notin {"registry", None}
  <2>1. /\ WasmAllowed(u) /\ RemoteAllowed(u)
        /\ Scheme(u) = "file" /\ ~WithinSandbox(u) => cfg.outside
        /\ LoadResolved(u) = IF IsRemote(u) THEN "remote"
               ELSE IF u = "script" /\ cfg.interop THEN "facade"
               ELSE IF u = "types" THEN (IF cfg.interop THEN "transpiled" ELSE None)
               ELSE IF Scheme(u) = "file" THEN "fs" ELSE None
      BY <1>7 DEF LoadResolved
  <2>2. u \in {"wasm", "remoteWasm"} => IsWasm(u)
      BY DEF IsWasm
  <2>3. CASE IsRemote(u)
      BY <1>4, <1>5, <2>1, <2>2, <2>3 DEF Admits, Sources
  <2>4. CASE ~IsRemote(u)
    <3>1. LoadResolved(u) \in {"facade", "transpiled", "fs"}
        BY <1>7, <2>1, <2>4
    <3>2. (u = "wasm" => cfg.wasm) /\ (u = "out" => cfg.outside)
        BY <1>1, <1>3, <1>4, <2>1, <2>2
    <3>3. QED
        BY <3>1, <3>2 DEF Admits, Sources
  <2>5. QED
      BY <2>3, <2>4
<1>8. QED
    BY <1>6, <1>7

\* The checks that load makes before it comes to load_resolved_module change
\* nothing: both ways give a URL the same source.
LEMMA BothWaysAgree ==
    ASSUME NEW u \in Urls \cup {"wrapped"}
    PROVE  LoadDirect(u) = LoadResolved(u)
<1>1. CASE SchemeEnabled(u)
  <2>1. IsRemote(u) /\ u # "virtual" /\ Scheme(u) # "file"
      BY <1>1, SchemeOf DEF SchemeEnabled, FileSpecs
  <2>2. RemoteAllowed(u) <=> RemoteGranted
      BY <1>1, <2>1 DEF RemoteAllowed
  <2>3. LoadResolved(u) = IF WasmAllowed(u) /\ RemoteGranted THEN "remote" ELSE None
      BY <2>1, <2>2 DEF LoadResolved
  <2>4. QED
      BY <1>1, <2>3 DEF LoadDirect
<1>2. CASE ~SchemeEnabled(u)
  <2>1. CASE Scheme(u) = "file" /\ ~WithinSandbox(u) /\ ~cfg.outside
    <3>1. u # "virtual"
        BY <2>1, SchemeOf DEF FileSpecs
    <3>2. LoadResolved(u) = None
        BY <2>1, <3>1 DEF LoadResolved
    <3>3. QED
        BY <1>2, <2>1, <3>2 DEF LoadDirect
  <2>2. QED
      BY <1>2, <2>1 DEF LoadDirect
<1>3. QED
    BY <1>1, <1>2
\* What an import is served from: what the worker holds itself, what the callback
\* returned, or what the rules let through where the policy, or the callback, did
\* not block it.
Passed(x) ==
    \/ x.source \in {"registry", "builtin"}
    \/ x.source = "callback" /\ cfg.policy = "Callback" /\ x.answer \in {"string", "src"}
    \/ /\ Admits(x.url, x.source)
       /\ cfg.policy # "DenyAll"
       /\ cfg.policy = "Callback" => x.answer \in {"true", "resolve"}

\* One import and its question: a load that waits for the callback has heard nothing
\* and holds no source, and its question is open; one that fetches knows its URL.
LoadOK(x, q) ==
    /\ x \in Load /\ q \in Asks
    /\ x.pc \in {"resolved", "asking"} => x.spec \in Specs /\ x.answer = None /\ x.source = None
    /\ x.pc = "resolved" => x.url # None
    /\ x.pc = "asking" => cfg.policy = "Callback" /\ q \in {"queued", "promised"}
    /\ x.pc = "fetching" => x.source = "remote" /\ IsRemote(x.url) /\ x.url \in Urls
    /\ x.pc \in {"fetching", "served"} => Passed(x)
    /\ x.pc = "served" /\ x.source = "remote" => x.end \in Ends

LoaderInv ==
    /\ cfg \in Configs /\ registered \in BOOLEAN /\ evalSync \in BOOLEAN
    /\ cached \subseteq Files
    /\ loads \in [Loads -> Load] /\ ask \in [Loads -> Asks]
    /\ \A l \in Loads : LoadOK(loads[l], ask[l])

LEMMA InvAdmits ==
    ASSUME LoaderInv
    PROVE  ServesAdmitted /\ PolicyDecides
<1>1. LoaderTypeOK
  <2>1. ASSUME NEW l \in Loads
        PROVE  /\ loads[l].pc \in {"idle", "resolved", "asking", "fetching", "served", "failed"}
               /\ loads[l].spec \in Specs \cup {None}
               /\ loads[l].url \in Urls \cup {"wrapped", None}
               /\ loads[l].pc = "served" => loads[l].source # None
               /\ loads[l].pc = "served" /\ loads[l].source = "remote" => loads[l].end \in Ends
               /\ loads[l].pc \in {"asking"} => ask[l] \in {"queued", "promised"}
    <3>1. LoadOK(loads[l], ask[l])
        BY DEF LoaderInv
    <3>2. ~Admits(loads[l].url, None)
        BY DEF Admits, None
    <3>3. loads[l].pc = "served" => loads[l].source # None
        BY <3>1, <3>2 DEF LoadOK, Passed, None
    <3>4. QED
        BY <3>1, <3>3 DEF LoadOK, Load
  <2>2. QED
      BY <2>1 DEF LoaderInv, LoaderTypeOK, Files
<1>2. SourceIsAdmitted
  <2>1. SUFFICES ASSUME NEW l \in Loads, loads[l].pc \in {"served", "fetching"}
                 PROVE  LET u == loads[l].url IN
                        CASE loads[l].source \in {"registry", "builtin"} -> TRUE
                          [] loads[l].source = "callback" -> cfg.policy = "Callback"
                          [] loads[l].source = "remote" ->
                                /\ cfg.importGrant /\ cfg.netGrant
                                /\ u = "http" => cfg.http
                                /\ u # "http" => cfg.https
                                /\ u = "remoteWasm" => cfg.wasm
                          [] OTHER ->
                                /\ u = "wasm" => cfg.wasm
                                /\ u = "out" => cfg.outside
      BY DEF SourceIsAdmitted
  <2>2. Passed(loads[l])
      BY <2>1 DEF LoaderInv, LoadOK
  <2>3. CASE loads[l].source \in {"registry", "builtin", "callback"}
      BY <2>2, <2>3 DEF Passed, Admits
  <2>4. CASE loads[l].source = "remote"
      BY <2>2, <2>4 DEF Passed, Admits
  <2>5. CASE loads[l].source \in {"facade", "transpiled", "fs"}
      BY <2>2, <2>5 DEF Passed, Admits
  <2>6. CASE loads[l].source \notin {"registry", "builtin", "callback", "remote",
                                     "facade", "transpiled", "fs"}
      BY <2>2, <2>6 DEF Passed, Admits
  <2>7. QED
      BY <2>3, <2>4, <2>5, <2>6
<1>3. PolicyDecides
  <2>1. SUFFICES ASSUME NEW l \in Loads, loads[l].pc \in {"served", "fetching"},
                        loads[l].source \notin {"registry", "builtin"}
                 PROVE  /\ cfg.policy # "DenyAll"
                        /\ cfg.policy = "Callback" =>
                              loads[l].answer \in {"true", "string", "src", "resolve"}
      BY DEF PolicyDecides
  <2>2. Passed(loads[l])
      BY <2>1 DEF LoaderInv, LoadOK
  <2>3. QED
      BY <2>1, <2>2 DEF Passed
<1>4. QED
    BY <1>1, <1>2, <1>3 DEF ServesAdmitted

LEMMA LoaderInvInit == Init => LoaderInv
<1>1. SUFFICES ASSUME Init PROVE LoaderInv
    OBVIOUS
<1>2. Idle \in Load /\ None \in Asks
    BY DEF Idle, Load, Asks
<1>3. LoadOK(Idle, None)
    BY <1>2 DEF LoadOK, Idle
<1>4. QED
    BY <1>1, <1>2, <1>3 DEF Init, LoaderInv

\* A step of one import that leaves its state in order leaves all in order.
LEMMA OneLoad ==
    ASSUME LoaderInv, NEW l \in Loads, NEW x, NEW q,
           loads' = [loads EXCEPT ![l] = x], ask' = [ask EXCEPT ![l] = q],
           UNCHANGED cfg, registered' \in BOOLEAN, evalSync' \in BOOLEAN,
           cached' \subseteq Files,
           LoadOK(x, q)
    PROVE  LoaderInv'
<1>1. x \in Load /\ q \in Asks
    BY DEF LoadOK
<1>2. loads' \in [Loads -> Load] /\ ask' \in [Loads -> Asks]
    BY <1>1 DEF LoaderInv
<1>3. ASSUME NEW k \in Loads PROVE LoadOK(loads[k], ask[k])'
  <2>1. LoadOK(loads'[k], ask'[k])
    <3>1. CASE k = l
        BY <3>1 DEF LoaderInv
    <3>2. CASE k # l
        BY <3>2 DEF LoaderInv
    <3>3. QED
        BY <3>1, <3>2
  <2>2. QED
      BY <2>1 DEF LoadOK, Passed, Admits
<1>4. QED
    BY <1>2, <1>3 DEF LoaderInv

\* A load that fails keeps what it is and holds no source.
LEMMA FailedOK ==
    ASSUME NEW x \in Load, NEW q \in Asks
    PROVE  LoadOK(Failed(x), q)
<1>1. Failed(x) \in Load /\ Failed(x).pc = "failed"
    BY DEF Failed, Load, None
<1>2. QED
    BY <1>1 DEF LoadOK

\* A load that goes on with the source of its URL is in order, if the policy let it.
LEMMA FromOK ==
    ASSUME NEW x \in Load, NEW q \in Asks, NEW u \in Urls \cup {"wrapped"},
           cfg.policy # "DenyAll",
           cfg.policy = "Callback" => x.answer \in {"true", "resolve"}
    PROVE  LoadOK(From(x, u, LoadResolved(u)), q)
<1> DEFINE s == LoadResolved(u)
           y == From(x, u, s)
<1>1. s \in Sources /\ (s # None => Admits(u, s))
    BY LoadResolvedAdmits
<1> HIDE DEF s
<1>3. y = [pc |-> IF s = None THEN "failed" ELSE IF s = "remote" THEN "fetching" ELSE "served",
           spec |-> x.spec, url |-> u, source |-> s, answer |-> x.answer, end |-> x.end]
  <2>1. x = [pc |-> x.pc, spec |-> x.spec, url |-> x.url, source |-> x.source,
             answer |-> x.answer, end |-> x.end]
      BY DEF Load
  <2>2. y = [[x EXCEPT !.url = u, !.source = s] EXCEPT !.pc =
                IF s = None THEN "failed" ELSE IF s = "remote" THEN "fetching" ELSE "served"]
      BY DEF From
  <2>3. QED
      BY <2>1, <2>2
<1>4. y \in Load
    BY <1>1, <1>3 DEF Load, Sources
<1>5. y.pc \in {"fetching", "served"} => Passed(y)
  <2>1. y.pc \in {"fetching", "served"} => s # None
      BY <1>3
  <2>2. y.url = u /\ y.source = s /\ y.answer = x.answer
      BY <1>3
  <2>3. QED
      BY <1>1, <2>1, <2>2 DEF Passed
<1>6. y.pc = "fetching" => y.source = "remote" /\ IsRemote(y.url) /\ y.url \in Urls
  <2>1. y.pc = "fetching" => s = "remote"
      BY <1>3
  <2>2. s = "remote" => IsRemote(u)
      BY <1>1 DEF Admits, None
  <2>3. ~IsRemote("wrapped")
      BY SchemeOf
  <2>4. QED
      BY <1>3, <2>1, <2>2, <2>3
<1>7. y.pc \notin {"resolved", "asking"} /\ ~(y.pc = "served" /\ y.source = "remote")
    BY <1>3 DEF None
<1>8. LoadOK(y, q)
    BY <1>4, <1>5, <1>6, <1>7 DEF LoadOK
<1>9. QED
    BY <1>8 DEF s

\* The steps of an import that leave its question alone.
LEMMA LoadAlone ==
    ASSUME LoaderInv, NEW l \in Loads, NEW x,
           loads' = [loads EXCEPT ![l] = x],
           UNCHANGED <<cfg, registered, evalSync, ask>>,
           cached' \subseteq Files,
           LoadOK(x, ask[l])
    PROVE  LoaderInv'
<1>1. ask' = [ask EXCEPT ![l] = ask[l]]
    BY DEF LoaderInv
<1>2. registered' \in BOOLEAN /\ evalSync' \in BOOLEAN
    BY DEF LoaderInv
<1>3. QED
    BY <1>1, <1>2, OneLoad

LEMMA ResolveKeeps ==
    ASSUME LoaderInv, NEW l \in Loads, NEW s \in Specs, Resolve(l, s)
    PROVE  LoaderInv'
<1> DEFINE new == [Idle EXCEPT !.pc = "resolved", !.spec = s]
           u == ResolveAllowDisk(s)
           x == loads'[l]
<1>1. Idle \in Load /\ Idle.url = None /\ Idle.source = None /\ Idle.answer = None
    BY DEF Idle, Load
<1>2. /\ new \in Load /\ new.pc = "resolved" /\ new.spec = s
      /\ new.url = None /\ new.source = None /\ new.answer = None
    BY <1>1 DEF Load
<1>3. LoadOK(Failed(new), ask[l])
    BY <1>2, FailedOK DEF LoaderInv
<1>4. ASSUME NEW v \in Urls \cup {"wrapped"}
      PROVE  LoadOK([new EXCEPT !.url = v], ask[l])
  <2>1. /\ [new EXCEPT !.url = v] \in Load
        /\ [new EXCEPT !.url = v].pc = "resolved" /\ [new EXCEPT !.url = v].spec = s
        /\ [new EXCEPT !.url = v].url = v /\ [new EXCEPT !.url = v].source = None
        /\ [new EXCEPT !.url = v].answer = None
    <3> HIDE DEF new
    <3>1. QED
        BY <1>2 DEF Load
  <2>3. v # None
      BY SpecsAndUrls DEF None
  <2>4. QED
      BY <2>1, <2>3 DEF LoadOK, LoaderInv
<1>5. u = None \/ u \in Urls \cup {"wrapped"}
    BY ResolvedUrl
<1>6. {"virtual", "core", "wrapped"} \subseteq Urls \cup {"wrapped"}
    BY SpecsAndUrls
<1> HIDE DEF new, u
<1>7. \E y : LoadOK(y, ask[l]) /\ loads' = [loads EXCEPT ![l] = y]
  <2>1. loads' = [loads EXCEPT ![l] =
             IF ~cfg.wasm /\ IsWasm(s) THEN Failed(new)
             ELSE IF s = "name" /\ registered THEN [new EXCEPT !.url = "virtual"]
             ELSE IF s = "core" THEN [new EXCEPT !.url = "core"]
             ELSE IF cfg.policy = "Callback" THEN [new EXCEPT !.url = "wrapped"]
             ELSE IF u = None THEN Failed(new)
             ELSE [new EXCEPT !.url = u]]
      BY DEF Resolve, new, u
  <2>2. QED
      BY <1>3, <1>4, <1>5, <1>6, <2>1
<1>8. UNCHANGED <<cfg, registered, evalSync, ask>> /\ cached' \subseteq Files
    BY DEF Resolve, LoaderInv
<1>9. QED
    BY <1>7, <1>8, LoadAlone

\* What the worker holds itself may be served at any time.
LEMMA HeldOK ==
    ASSUME NEW x \in Load, NEW q \in Asks, NEW s \in {"registry", "builtin"}
    PROVE  LoadOK(ServedFrom(x, s), q)
<1> DEFINE y == ServedFrom(x, s)
<1>1. y \in Load /\ y.pc = "served" /\ y.source = s
    BY DEF ServedFrom, Load
<1>2. QED
    BY <1>1 DEF LoadOK, Passed

LEMMA LoadNowKeeps ==
    ASSUME LoaderInv, NEW l \in Loads, LoadNow(l)
    PROVE  LoaderInv'
<1> DEFINE u == loads[l].url
           x == loads[l]
<1>1. x \in Load /\ ask[l] \in Asks /\ u \in Urls \cup {"wrapped"}
    BY DEF LoadNow, LoaderInv, LoadOK, Load
<1>2. LoadOK(ServedFrom(x, "registry"), ask[l]) /\ LoadOK(Failed(x), ask[l])
    BY <1>1, HeldOK, FailedOK
<1>3. cfg.policy \notin {"DenyAll", "Callback"} => LoadOK(From(x, u, LoadDirect(u)), ask[l])
    BY <1>1, FromOK, BothWaysAgree
<1>4. loads' = [loads EXCEPT ![l] =
          IF u = "virtual" /\ registered THEN ServedFrom(x, "registry")
          ELSE IF cfg.policy \in {"DenyAll", "Callback"} THEN Failed(x)
          ELSE IF ~WasmAllowed(u) THEN Failed(x)
          ELSE From(x, u, LoadDirect(u))]
    BY DEF LoadNow, LoaderInv
<1>5. \E y : LoadOK(y, ask[l]) /\ loads' = [loads EXCEPT ![l] = y]
    BY <1>2, <1>3, <1>4
<1>6. UNCHANGED <<cfg, registered, evalSync, ask>> /\ cached' \subseteq Files
    BY DEF LoadNow, LoaderInv
<1>7. QED
    BY <1>5, <1>6, LoadAlone

LEMMA AskKeeps ==
    ASSUME LoaderInv, NEW l \in Loads, AskCallback(l)
    PROVE  LoaderInv'
<1> DEFINE x == [loads[l] EXCEPT !.pc = "asking"]
<1>1. LoadOK(loads[l], ask[l]) /\ loads[l].pc = "resolved" /\ cfg.policy = "Callback"
    BY DEF AskCallback, LoaderInv
<1>2. /\ x \in Load /\ x.pc = "asking" /\ x.spec = loads[l].spec
      /\ x.answer = loads[l].answer /\ x.source = loads[l].source
    BY <1>1 DEF LoadOK, Load
<1>3. LoadOK(x, "queued")
    BY <1>1, <1>2 DEF LoadOK, Asks
<1>4. loads' = [loads EXCEPT ![l] = x] /\ ask' = [ask EXCEPT ![l] = "queued"]
    BY DEF AskCallback, LoaderInv
<1>5. /\ UNCHANGED cfg /\ registered' \in BOOLEAN /\ evalSync' \in BOOLEAN
      /\ cached' \subseteq Files
    BY DEF AskCallback, LoaderInv
<1>6. QED
    BY <1>3, <1>4, <1>5, OneLoad

\* A value the callback returned, and what it is read as.
LEMMA ReturnsAre ==
    ASSUME NEW r \in Returns
    PROVE  /\ DecisionOf(r) \in {"AllowDisk", "SourceTyped", "Resolve", "Block"}
           /\ DecisionOf(r) = "AllowDisk" => r[1] = "true"
           /\ DecisionOf(r) = "SourceTyped" => r[1] \in {"string", "src"}
           /\ DecisionOf(r) = "Resolve" => r[1] = "resolve" /\ r[2] \in Specs
           /\ r[1] = "true" => DecisionOf(r) = "AllowDisk"
<1>1. r[1] = "resolve" => r[2] \in Specs
    BY DEF Returns
<1>2. QED
    BY <1>1 DEF DecisionOf

\* The load that Answer leaves is in order when the question is answered.
LEMMA AnswerOK ==
    ASSUME LoaderInv, NEW l \in Loads, NEW r \in Returns, Answer(l, r)
    PROVE  \E y : LoadOK(y, "answered") /\ loads' = [loads EXCEPT ![l] = y]
<1> DEFINE d == DecisionOf(r)
           at == [loads[l] EXCEPT !.answer = r[1]]
           s == IF d = "Resolve" THEN r[2] ELSE loads[l].spec
           u == ResolveAllowDisk(s)
<1>1. LoadOK(loads[l], ask[l])
    BY DEF LoaderInv
<1>2. loads' = [loads EXCEPT ![l] =
          IF loads[l].pc # "asking" THEN loads[l]
          ELSE IF d = "Block" THEN Failed(at)
          ELSE IF d = "SourceTyped" THEN ServedFrom(at, "callback")
          ELSE IF u = None THEN Failed(at)
          ELSE From(at, u, LoadResolved(u))]
    BY DEF Answer, LoaderInv
<1>3. "answered" \in Asks
    BY DEF Asks
<1>4. loads[l].pc # "asking" => LoadOK(loads[l], "answered")
    BY <1>1, <1>3 DEF LoadOK
<1>5. ASSUME loads[l].pc = "asking"
      PROVE  /\ d = "Block" \/ u = None => LoadOK(Failed(at), "answered")
             /\ d = "SourceTyped" => LoadOK(ServedFrom(at, "callback"), "answered")
             /\ d \in {"AllowDisk", "Resolve"} /\ u # None
                  => LoadOK(From(at, u, LoadResolved(u)), "answered")
  <2>1. cfg.policy = "Callback" /\ loads[l].spec \in Specs /\ loads[l] \in Load
      BY <1>1, <1>5 DEF LoadOK
  <2>2. r[1] \in {t[1] : t \in Returns}
      OBVIOUS
  <2>3. at \in Load /\ at.answer = r[1]
      BY <2>1, <2>2 DEF Load
  <2>4. LoadOK(Failed(at), "answered")
      BY <1>3, <2>3, FailedOK
  <2>5. ASSUME d = "SourceTyped" PROVE LoadOK(ServedFrom(at, "callback"), "answered")
    <3>1. r[1] \in {"string", "src"}
        BY <2>5, ReturnsAre
    <3>2. /\ ServedFrom(at, "callback") \in Load
          /\ ServedFrom(at, "callback").pc = "served"
          /\ ServedFrom(at, "callback").source = "callback"
          /\ ServedFrom(at, "callback").answer = r[1]
        BY <2>3 DEF ServedFrom, Load
    <3>3. QED
        BY <1>3, <2>1, <3>1, <3>2 DEF LoadOK, Passed
  <2>6. ASSUME d \in {"AllowDisk", "Resolve"}, u # None
        PROVE  LoadOK(From(at, u, LoadResolved(u)), "answered")
    <3>1. s \in Specs /\ r[1] \in {"true", "resolve"}
        BY <2>1, <2>6, ReturnsAre
    <3>2. u \in Urls
        BY <2>6, <3>1, ResolvedUrl
    <3>3. QED
        BY <1>3, <2>1, <2>3, <3>1, <3>2, FromOK
  <2>7. QED
      BY <2>4, <2>5, <2>6
<1>6. d \in {"AllowDisk", "SourceTyped", "Resolve", "Block"}
    BY ReturnsAre
<1> HIDE DEF d, at, u
<1>7. QED
    BY <1>2, <1>4, <1>5, <1>6

LEMMA AnswerKeeps ==
    ASSUME LoaderInv, NEW l \in Loads, NEW r \in Returns,
           CallbackReturns(l, r) \/ PromiseSettles(l, r)
    PROVE  LoaderInv'
<1>1. PICK y : LoadOK(y, "answered") /\ loads' = [loads EXCEPT ![l] = y]
    BY AnswerOK DEF CallbackReturns, PromiseSettles
<1>2. /\ ask' = [ask EXCEPT ![l] = "answered"]
      /\ UNCHANGED cfg /\ registered' \in BOOLEAN /\ evalSync' \in BOOLEAN
      /\ cached' \subseteq Files
    BY DEF CallbackReturns, PromiseSettles, LoaderInv
<1>3. QED
    BY <1>1, <1>2, OneLoad

\* A promise of the callback changes what its question waits for, not its import.
LEMMA PromiseKeeps ==
    ASSUME LoaderInv, NEW l \in Loads, CallbackPromises(l)
    PROVE  LoaderInv'
<1>1. LoadOK(loads[l], ask[l]) /\ ask[l] = "queued"
    BY DEF LoaderInv, CallbackPromises
<1>2. LoadOK(loads[l], "promised")
    BY <1>1 DEF LoadOK, Asks
<1>3. loads' = [loads EXCEPT ![l] = loads[l]]
    BY DEF LoaderInv, CallbackPromises
<1>4. /\ ask' = [ask EXCEPT ![l] = "promised"]
      /\ UNCHANGED cfg /\ registered' \in BOOLEAN /\ evalSync' \in BOOLEAN
      /\ cached' \subseteq Files
    BY DEF CallbackPromises, LoaderInv
<1>5. QED
    BY <1>2, <1>3, <1>4, OneLoad

LEMMA TimeoutKeeps ==
    ASSUME LoaderInv, NEW l \in Loads, CallbackTimesOut(l)
    PROVE  LoaderInv'
<1>1. LoadOK(Failed(loads[l]), ask[l])
    BY FailedOK DEF LoaderInv
<1>2. loads' = [loads EXCEPT ![l] = Failed(loads[l])]
    BY DEF CallbackTimesOut, LoaderInv
<1>3. UNCHANGED <<cfg, registered, evalSync, ask>> /\ cached' \subseteq Files
    BY DEF CallbackTimesOut, LoaderInv
<1>4. QED
    BY <1>1, <1>2, <1>3, LoadAlone

LEMMA CoreKeeps ==
    ASSUME LoaderInv, NEW l \in Loads, LoadCore(l)
    PROVE  LoaderInv'
<1>1. LoadOK(ServedFrom(loads[l], "builtin"), ask[l])
    BY HeldOK DEF LoaderInv
<1>2. loads' = [loads EXCEPT ![l] = ServedFrom(loads[l], "builtin")]
    BY DEF LoadCore
<1>3. UNCHANGED <<cfg, registered, evalSync, ask>> /\ cached' \subseteq Files
    BY DEF LoadCore, LoaderInv
<1>4. QED
    BY <1>1, <1>2, <1>3, LoadAlone

\* What was let through to be fetched is what is served, wherever it came from.
LEMMA FetchedOK ==
    ASSUME LoaderInv, NEW l \in Loads, loads[l].pc = "fetching", NEW end \in Ends
    PROVE  LoadOK(Fetched(loads[l], end), ask[l]) /\ loads[l].url \in {u \in Urls : IsRemote(u)}
<1> DEFINE x == loads[l]
           y == Fetched(x, end)
<1>1. /\ x \in Load /\ ask[l] \in Asks /\ x.source = "remote"
      /\ IsRemote(x.url) /\ x.url \in Urls /\ Passed(x)
    BY DEF LoaderInv, LoadOK
<1>2. /\ y \in Load /\ y.pc = "served" /\ y.source = x.source
      /\ y.url = x.url /\ y.answer = x.answer /\ y.end = end
    BY <1>1 DEF Fetched, ServedFrom, Load
<1>3. Passed(y)
    BY <1>1, <1>2 DEF Passed
<1>4. LoadOK(y, ask[l])
    BY <1>1, <1>2, <1>3 DEF LoadOK
<1>5. QED
    BY <1>1, <1>4

LEMMA ReadCachedKeeps ==
    ASSUME LoaderInv, NEW l \in Loads, NEW end \in Ends, ReadCached(l, end)
    PROVE  LoaderInv'
<1>1. LoadOK(Fetched(loads[l], end), ask[l])
    BY FetchedOK DEF ReadCached
<1>2. loads' = [loads EXCEPT ![l] = Fetched(loads[l], end)]
    BY DEF ReadCached, LoaderInv
<1>3. UNCHANGED <<cfg, registered, evalSync, ask>> /\ cached' \subseteq Files
    BY DEF ReadCached, LoaderInv
<1>4. QED
    BY <1>1, <1>2, <1>3, LoadAlone

LEMMA FetchKeeps ==
    ASSUME LoaderInv, NEW l \in Loads, NEW end \in Ends \cup {None}, Fetch(l, end)
    PROVE  LoaderInv'
<1> DEFINE x == loads[l]
           file == [url |-> x.url, end |-> end]
<1>1. x \in Load /\ ask[l] \in Asks /\ x.pc = "fetching"
    BY DEF Fetch, LoaderInv, LoadOK
<1>2. LoadOK(Failed(x), ask[l])
    BY <1>1, FailedOK
<1>3. end # None => LoadOK(Fetched(x, end), ask[l]) /\ file \in Files
    BY <1>1, FetchedOK DEF Files
<1>4. loads' = [loads EXCEPT ![l] = IF end = None THEN Failed(x) ELSE Fetched(x, end)]
    BY DEF Fetch, LoaderInv
<1>5. cached' = cached \/ (end # None /\ cached' = {f \in cached : f.url # file.url} \cup {file})
    BY DEF Fetch
<1>6. cached' \subseteq Files
    BY <1>3, <1>5 DEF LoaderInv
<1>7. UNCHANGED <<cfg, registered, evalSync, ask>>
    BY DEF Fetch
<1>8. \E y : LoadOK(y, ask[l]) /\ loads' = [loads EXCEPT ![l] = y]
    BY <1>2, <1>3, <1>4
<1>9. QED
    BY <1>6, <1>7, <1>8, LoadAlone

LEMMA ForgetKeeps ==
    ASSUME LoaderInv, NEW l \in Loads, Forget(l)
    PROVE  LoaderInv'
<1>1. Idle \in Load /\ None \in Asks
    BY DEF Idle, Load, Asks
<1>2. LoadOK(Idle, None)
    BY <1>1 DEF LoadOK, Idle
<1>3. /\ loads' = [loads EXCEPT ![l] = Idle] /\ ask' = [ask EXCEPT ![l] = None]
      /\ UNCHANGED cfg /\ registered' \in BOOLEAN /\ evalSync' \in BOOLEAN
      /\ cached' \subseteq Files
    BY DEF Forget, LoaderInv
<1>4. QED
    BY <1>2, <1>3, OneLoad

\* The entries of the registry and a running evalSync change no import under way.
LEMMA OthersKeep ==
    ASSUME LoaderInv, UNCHANGED <<cfg, cached, loads, ask>>,
           registered' \in BOOLEAN, evalSync' \in BOOLEAN
    PROVE  LoaderInv'
<1>1. ASSUME NEW l \in Loads PROVE LoadOK(loads[l], ask[l])'
    BY DEF LoaderInv, LoadOK, Passed, Admits
<1>2. QED
    BY <1>1 DEF LoaderInv

LEMMA LoaderInvStep == LoaderInv /\ [Next]_vars => LoaderInv'
<1>1. SUFFICES ASSUME LoaderInv, [Next]_vars PROVE LoaderInv'
    OBVIOUS
<1>2. ASSUME NEW l \in Loads, NEW s \in Specs, Resolve(l, s) PROVE LoaderInv'
    BY <1>1, <1>2, ResolveKeeps
<1>3. ASSUME NEW l \in Loads, Runtime(l) PROVE LoaderInv'
    BY <1>1, <1>3, CoreKeeps, LoadNowKeeps, AskKeeps, TimeoutKeeps, ReadCachedKeeps,
       FetchKeeps DEF Runtime
<1>4. ASSUME NEW l \in Loads, NEW r \in Returns, CallbackReturns(l, r) \/ PromiseSettles(l, r)
      PROVE  LoaderInv'
    BY <1>1, <1>4, AnswerKeeps
<1>5. ASSUME NEW l \in Loads, CallbackPromises(l) \/ Forget(l) PROVE LoaderInv'
    BY <1>1, <1>5, PromiseKeeps, ForgetKeeps
<1>6. CASE ToggleRegistered \/ ToggleEvalSync \/ UNCHANGED vars
  <2>1. UNCHANGED <<cfg, cached, loads, ask>> /\ registered' \in BOOLEAN /\ evalSync' \in BOOLEAN
      BY <1>1, <1>6 DEF ToggleRegistered, ToggleEvalSync, vars, LoaderInv
  <2>2. QED
      BY <1>1, <2>1, OthersKeep
<1>7. QED
    BY <1>1, <1>2, <1>3, <1>4, <1>5, <1>6 DEF Next

LEMMA LoaderAlwaysInv == Spec => []LoaderInv
BY LoaderInvInit, LoaderInvStep, PTL DEF Spec

\* Whatever way a source is reached by, of any number of imports that run at the
\* same time while modules are registered and cleared and evalSync starts and ends:
\* the URL that is asked for is one that the configuration admits (ensure_wasm_allowed,
\* ensure_remote_load_allowed, ensure_remote_permissions, the sandbox root). Of remote
\* source this is the URL of the request; the redirects that the client follows from
\* there are not checked (FinalUrlAdmitted).
THEOREM SourcesAreAdmitted == Spec => []ServesAdmitted
<1>1. LoaderInv => ServesAdmitted
    BY InvAdmits
<1>2. QED
    BY <1>1, LoaderAlwaysInv, PTL

\* Nothing but the worker's own modules is served when imports are denied, and
\* nothing against the imports callback where there is one (load and
\* load_with_callback in worker/modules.rs).
THEOREM ConsentIsNeeded == Spec => []PolicyDecides
<1>1. LoaderInv => PolicyDecides
    BY InvAdmits
<1>2. QED
    BY <1>1, LoaderAlwaysInv, PTL

\* What an import that waits hears of an answer.
LEMMA AnswerHeard ==
    ASSUME LoaderInv, NEW l \in Loads, NEW r \in Returns, Answer(l, r), loads[l].pc = "asking"
    PROVE  LET s == loads[l].spec
               u == ResolveAllowDisk(s)
           IN  /\ loads'[l].answer = r[1]
               /\ r[1] = "true" =>
                     loads'[l].source = IF u = None THEN None ELSE LoadDirect(u)
<1> DEFINE d == DecisionOf(r)
           at == [loads[l] EXCEPT !.answer = r[1]]
           s == IF d = "Resolve" THEN r[2] ELSE loads[l].spec
           u == ResolveAllowDisk(s)
<1>1. loads[l] \in Load /\ loads[l].spec \in Specs
    BY DEF LoaderInv, LoadOK
<1>2. loads'[l] =
          IF d = "Block" THEN Failed(at)
          ELSE IF d = "SourceTyped" THEN ServedFrom(at, "callback")
          ELSE IF u = None THEN Failed(at)
          ELSE From(at, u, LoadResolved(u))
    BY DEF Answer, LoaderInv
<1>3. r[1] \in {t[1] : t \in Returns}
    OBVIOUS
<1>4. at \in Load /\ at.answer = r[1]
    BY <1>1, <1>3 DEF Load
<1> HIDE DEF at
<1>5. /\ Failed(at).answer = at.answer /\ Failed(at).source = None
      /\ ServedFrom(at, "callback").answer = at.answer
    BY <1>4 DEF Failed, ServedFrom, Load
<1>6. ASSUME NEW v, NEW w
      PROVE  From(at, v, w).answer = at.answer /\ From(at, v, w).source = w
    BY <1>4 DEF From, Load
<1>7. loads'[l].answer = r[1]
    BY <1>2, <1>4, <1>5, <1>6
<1>8. ASSUME r[1] = "true"
      PROVE  loads'[l].source = IF ResolveAllowDisk(loads[l].spec) = None THEN None
                                ELSE LoadDirect(ResolveAllowDisk(loads[l].spec))
  <2>1. d = "AllowDisk"
      BY <1>8, ReturnsAre
  <2>2. u = ResolveAllowDisk(loads[l].spec)
      BY <2>1
  <2>3. u \in Urls \cup {None}
      BY <1>1, <2>2, ResolvedUrl
  <2> HIDE DEF d, u
  <2>4. loads'[l] = IF u = None THEN Failed(at) ELSE From(at, u, LoadResolved(u))
      BY <1>2, <2>1
  <2>5. loads'[l].source = IF u = None THEN None ELSE LoadResolved(u)
      BY <1>5, <1>6, <2>4
  <2>6. u # None => LoadResolved(u) = LoadDirect(u)
      BY <2>3, BothWaysAgree
  <2>7. QED
      BY <2>2, <2>5, <2>6
<1>9. QED
    BY <1>7, <1>8

\* No other step lets an import that waits hear anything.
LEMMA NothingElseHeard ==
    ASSUME LoaderInv, Next, NEW l \in Loads, loads[l].pc = "asking",
           ~ \E r \in Returns : Answer(l, r)
    PROVE  loads'[l].answer = None
<1>1. loads[l] \in Load /\ loads[l].answer = None /\ loads \in [Loads -> Load]
    BY DEF LoaderInv, LoadOK
<1>2. Failed(loads[l]).answer = None
    BY <1>1 DEF Failed, Load
<1>3. ASSUME NEW k \in Loads, NEW s \in Specs, Resolve(k, s) PROVE loads'[l] = loads[l]
    BY <1>1, <1>3 DEF Resolve
<1>4. ASSUME NEW k \in Loads, Runtime(k) PROVE loads'[l] = loads[l] \/ loads'[l] = Failed(loads[l])
  <2>1. CASE LoadCore(k)
      BY <1>1, <2>1 DEF LoadCore
  <2>2. CASE LoadNow(k)
      BY <1>1, <2>2 DEF LoadNow
  <2>3. CASE AskCallback(k)
      BY <1>1, <2>3 DEF AskCallback
  <2>4. CASE CallbackTimesOut(k)
      BY <1>1, <2>4 DEF CallbackTimesOut
  <2>5. ASSUME NEW end \in Ends \cup {None}, Fetch(k, end) PROVE loads'[l] = loads[l]
      BY <1>1, <2>5 DEF Fetch
  <2>6. ASSUME NEW end \in Ends, ReadCached(k, end) PROVE loads'[l] = loads[l]
      BY <1>1, <2>6 DEF ReadCached
  <2>7. QED
      BY <1>4, <2>1, <2>2, <2>3, <2>4, <2>5, <2>6 DEF Runtime
<1>5. ASSUME NEW k \in Loads, NEW r \in Returns, CallbackReturns(k, r) \/ PromiseSettles(k, r)
      PROVE  loads'[l] = loads[l]
  <2>1. Answer(k, r)
      BY <1>5 DEF CallbackReturns, PromiseSettles
  <2>2. k # l
      BY <2>1
  <2>3. QED
      BY <1>1, <2>1, <2>2 DEF Answer
<1>6. ASSUME NEW k \in Loads, CallbackPromises(k) \/ Forget(k) PROVE loads'[l] = loads[l]
    BY <1>1, <1>6 DEF CallbackPromises, Forget
<1>7. ASSUME ToggleRegistered \/ ToggleEvalSync PROVE loads'[l] = loads[l]
    BY <1>7 DEF ToggleRegistered, ToggleEvalSync
<1>8. QED
    BY <1>1, <1>2, <1>3, <1>4, <1>5, <1>6, <1>7 DEF Next

\* A callback that returns true gives an import the source that it would have
\* without a callback, whatever the configuration, for every specifier.
THEOREM TrueMeansAllowDisk == Spec => TrueIsAllowDisk
<1> DEFINE Plain(l) == LET s == loads[l].spec
                           u == ResolveAllowDisk(s)
                       IN  loads'[l].source = IF u = None THEN None ELSE LoadDirect(u)
           Heard(l) == loads[l].pc = "asking" /\ loads'[l].answer = "true"
<1>1. LoaderInv /\ Next => \A l \in Loads : Heard(l) => Plain(l)
  <2>1. SUFFICES ASSUME LoaderInv, Next, NEW l \in Loads, Heard(l) PROVE Plain(l)
      OBVIOUS
  <2>2. None # "true"
      BY DEF None
  <2>3. PICK r \in Returns : Answer(l, r)
      BY <2>1, <2>2, NothingElseHeard
  <2>4. QED
      BY <2>1, <2>3, AnswerHeard
<1>2. LoaderInv /\ [Next]_vars =>
          [\A l \in Loads :
              /\ loads[l].pc = "asking" /\ loads'[l].answer = "true"
              => LET s == loads[l].spec
                     u == ResolveAllowDisk(s)
                 IN  loads'[l].source = IF u = None THEN None ELSE LoadDirect(u)]_vars
    BY <1>1
<1>3. QED
    BY <1>2, LoaderAlwaysInv, PTL DEF Spec, TrueIsAllowDisk
=============================================================================
