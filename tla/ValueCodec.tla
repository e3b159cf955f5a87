------------------------------ MODULE ValueCodec ------------------------------
(***************************************************************************)
(* The conversions a JavaScript value goes through between the host and a  *)
(* worker (bridge/neon_codec.rs, wire.rs, v8_codec.rs and the JavaScript   *)
(* ends of the wire format in ts/wire.ts and worker/bootstrap.js).         *)
(*                                                                         *)
(*   args    eval arguments, postMessage   from_neon_value, to_v8          *)
(*   reply   results of host functions     from_neon_value, wire, hydrate  *)
(*   global  setGlobal                     encode_set_global_value, wire,  *)
(*                                         hydrate                         *)
(*   result  eval results                  from_v8, to_neon_value, hydrate *)
(*   message messages to the host          the same, or bytes alone        *)
(*   call    a host function's argument    from_v8, to_neon_value, or bytes *)
(*   calls   one argument of several       from_v8, to_neon_value          *)
(*                                                                         *)
(* A value is a tree.  Text is a constant, numbers are the integers of a   *)
(* small machine and the three specials, and the graph ids that keep       *)
(* shared references apart are left out: their wrapper is one key.         *)
(***************************************************************************)
EXTENDS Integers, Sequences, TLC, BufferViews, BridgeNumbers

CONSTANTS
  Values,   \* the values to send
  BigLimit  \* the largest number the bridge takes the decimal text of

ASSUME BigLimitAssumption == BigLimit \in Nat

VARIABLES
  value,  \* what was sent
  route,  \* the way it takes
  stage,  \* how far it has come
  cur     \* what it is by now: a JavaScript value, or a bridge value

vars == <<value, route, stage, cur>>

-----------------------------------------------------------------------------
(* JavaScript values. *)
Atom(k) == [k |-> k]
Undefined == Atom("undefined")
Null == Atom("null")
Bool == Atom("bool")
Function == Atom("function")
RegExp == Atom("regexp")
Url == Atom("url")
SearchParams == Atom("searchParams")
Failed == Atom("failed")  \* no value arrives: an error, or nothing at all
Str(t) == [k |-> "string", t |-> t]
Num(s, i) == [k |-> "num", s |-> s, i |-> i]
Big(i) == [k |-> "bigint", i |-> i]
Date(t) == [k |-> "date", t |-> t]
View(v) == [k |-> "view", view |-> v]
Arr(items) == [k |-> "array", items |-> items]
SetOf(items) == [k |-> "set", items |-> items]
MapOf(pairs) == [k |-> "map", items |-> pairs]  \* each pair is an array
Obj(f) == [k |-> "object", items |-> f]
Err(cause) == [k |-> "error", items |-> cause]

(* JsValueBridge values and wire JSON. *)
Bridge(b, x) == [b |-> b, x |-> x]
Refused == Bridge("Refused", 0)  \* no bridge value, an error
JNull == [j |-> "null"]
JBool == [j |-> "bool"]
JText(t) == [j |-> "string", t |-> t]
JNum(s, i) == [j |-> "number", s |-> s, i |-> i]
JArr(items) == [j |-> "array", items |-> items]
JObj(f) == [j |-> "object", f |-> f]
JRaw(x) == [j |-> "raw", x |-> x]  \* bytes, digits, the parts of a view
Tag(key, payload) == JObj(key :> payload)
Has(j, key) == j.j = "object" /\ key \in DOMAIN j.f

Each(items, Op(_)) == [i \in DOMAIN items |-> Op(items[i])]
Holders == {"array", "set", "map", "object", "error"}
Members(v) == IF v.k \in Holders THEN {v.items[i] : i \in DOMAIN v.items} ELSE {}

RECURSIVE Parts(_)
Parts(v) == {v} \cup UNION {Parts(m) : m \in Members(v)}

(* Every codec takes a cause of null or undefined for none. *)
IsCause(c) == c \notin {Undefined, Null}
Cause(v) == SelectSeq(v.items, IsCause)

(* is_wire_marker_key: the keys the codecs read a meaning into. *)
MarkerKeys ==
  {"__undef", "__num", "__denojs_worker_num", "__date", "__bigint", "__regexp", "__buffer",
   "__map", "__set", "__url", "__urlSearchParams", "__denojs_worker_type", "__graph"}

-----------------------------------------------------------------------------
(* A BigInt of the worker travels as a number if it goes as one, and as its *)
(* decimal text otherwise, which may have 40 characters and the sign is one *)
(* (big_int_to_string_checked).                                             *)
TooLong(i) == i > BigLimit \/ -i > BigLimit \div 10
BigIntBridge(i) ==
  IF GoesAsNumber(i) THEN Bridge("Number", Num("int", F64(i)))
  ELSE IF TooLong(i) THEN Refused
  ELSE Bridge("BigInt", i)

MaybeBigIntToNumber(i) == IF Magnitude(i) < 2 ^ Mantissa THEN Num("int", i) ELSE Big(i)

-----------------------------------------------------------------------------
(* wire.rs *)

(* Mutant: -0 under the key of the other special numbers. *)
NumberToWireOneKey(n) == IF n.s = "int" THEN JNum("int", n.i) ELSE Tag("__num", JText(n.s))

NumberToWire(n) ==
  CASE n.s \in {"nan", "inf"} -> Tag("__num", JText(n.s))
    [] n.s = "negzero" -> Tag("__denojs_worker_num", JText("-0"))
    [] OTHER -> JNum("int", n.i)

(* JSON has no NaN: the time of an invalid date is written as null. *)
DateToWire(t) == Tag("__date", IF t = "nan" THEN JNull ELSE JText(t))
TimeOf(payload) == IF payload = JNull THEN "epoch" ELSE payload.t

ErrorToWire(cause) == JObj("__denojs_worker_type" :> JText("error") @@ "cause" :> cause)

RECURSIVE ToWireJson(_)
ToWireJson(b) ==
  CASE b.b = "Undefined" -> Tag("__undef", JBool)
    [] b.b = "Null" -> JNull
    [] b.b = "Bool" -> JBool
    [] b.b = "String" -> JText(b.x)
    [] b.b = "Number" -> NumberToWire(b.x)
    [] b.b = "BigInt" -> Tag("__bigint", JRaw(b.x))
    [] b.b = "DateMs" -> DateToWire(b.x)
    [] b.b = "RegExp" -> Tag("__regexp", JText("source"))
    [] b.b = "BufferView" -> Tag("__buffer", JRaw(b.x))
    [] b.b = "Map" -> Tag("__map", JArr(Each(b.x, LAMBDA p : JArr(Each(p, ToWireJson)))))
    [] b.b = "Set" -> Tag("__set", JArr(Each(b.x, ToWireJson)))
    [] b.b = "Url" -> Tag("__url", JText("href"))
    [] b.b = "UrlSearchParams" -> Tag("__urlSearchParams", JText("query"))
    [] b.b = "Json" -> b.x
    [] b.b = "V8Serialized" -> Tag("__v8", JRaw(b.x))
    [] b.b = "Error" -> ErrorToWire(IF b.x = <<>> THEN JNull ELSE ToWireJson(b.x[1]))
    [] b.b = "HostFunction" -> Tag("__denojs_worker_type", JText("function"))

-----------------------------------------------------------------------------
(* From the host: neon_codec.rs *)

(* Node's serializer refuses functions, and its format of a view is one     *)
(* that V8's own deserializer cannot read; a URL has no properties to keep. *)
Clonable(v) == Function \notin Parts(v)
RECURSIVE Cloned(_)
Cloned(v) ==
  CASE v.k \in {"url", "searchParams"} -> Obj(<<>>)
    [] v.k \in Holders -> [v EXCEPT !.items = Each(v.items, Cloned)]
    [] OTHER -> v
ReadClone(v) == IF \E p \in Parts(v) : p.k = "view" THEN Failed ELSE v

Unstringified(v) == v.k \in {"undefined", "function"}

(* try_json_stringify_with_replacer: toJSON has run on dates and URLs when  *)
(* the replacer sees them.                                                  *)
RECURSIVE Stringify(_)
Stringify(v) ==
  CASE v.k = "null" \/ Unstringified(v) -> JNull
    [] v.k = "bool" -> JBool
    [] v.k = "string" -> JText(v.t)
    [] v.k = "num" -> IF v.s \in {"nan", "inf"} THEN JNull ELSE NumberToWire(v)
    [] v.k = "bigint" -> Tag("__bigint", JRaw(v.i))
    [] v.k = "date" -> IF v.t = "nan" THEN JNull ELSE JText("iso")
    [] v.k = "regexp" -> Tag("__regexp", JText("source"))
    [] v.k = "url" -> JText("href")
    [] v.k = "searchParams" -> Tag("__urlSearchParams", JText("query"))
    [] v.k = "view" -> Tag("__buffer", JRaw(CopyOut(v.view)))
    [] v.k = "error" -> ErrorToWire(IF Cause(v) = <<>> THEN JNull ELSE Stringify(v.items[1]))
    [] v.k = "map" -> Tag("__map", JArr(Each(v.items, Stringify)))
    [] v.k = "set" -> Tag("__set", JArr(Each(v.items, Stringify)))
    [] v.k = "array" -> JArr(Each(v.items, Stringify))
    [] v.k = "object" -> JObj([key \in {n \in DOMAIN v.items : ~Unstringified(v.items[n])} |->
                                 Stringify(v.items[key])])

(* from_neon_value on everything that has no parts. *)
FromNeonLeaf(v) ==
  CASE v.k \in {"undefined", "function"} -> Bridge("Undefined", 0)
    [] v.k = "null" -> Bridge("Null", 0)
    [] v.k = "bool" -> Bridge("Bool", 0)
    [] v.k = "string" -> Bridge("String", v.t)
    [] v.k = "num" -> Bridge("Number", v)
    [] v.k = "bigint" -> Bridge("BigInt", v.i)
    [] v.k = "date" -> Bridge("DateMs", v.t)
    [] v.k = "regexp" -> Bridge("RegExp", 0)
    [] v.k = "url" -> Bridge("Url", 0)
    [] v.k = "searchParams" -> Bridge("UrlSearchParams", 0)
    [] v.k = "view" -> Bridge("BufferView", CopyOut(v.view))
    [] v.k = "error" -> Bridge("Error", <<>>)

(* dehydrate_neon_to_wire *)
RECURSIVE DehydrateNeon(_)
DehydrateNeon(v) ==
  CASE v.k = "array" -> Tag("__graph", JArr(Each(v.items, DehydrateNeon)))
    [] v.k = "object" -> Tag("__graph", JObj(Each(v.items, DehydrateNeon)))
    [] v.k \in {"map", "set"} -> Stringify(v)
    [] OTHER -> ToWireJson(FromNeonLeaf(v))

FromNeon(v) ==
  IF v.k \notin Holders \ {"error"} THEN FromNeonLeaf(v)
  ELSE IF Clonable(v) THEN Bridge("V8Serialized", Cloned(v))
  ELSE Bridge("Json", IF v.k \in {"array", "object"} THEN DehydrateNeon(v) ELSE Stringify(v))

(* encode_set_global_value: containers are walked so that functions in them *)
(* become host functions.                                                   *)
RECURSIVE EncodeGlobal(_)
EncodeGlobal(v) ==
  CASE v.k = "function" -> Bridge("HostFunction", 0)
    [] v.k = "array" -> Bridge("Json", JArr(Each(v.items, LAMBDA x : ToWireJson(EncodeGlobal(x)))))
    [] v.k = "object" /\ DOMAIN v.items # {} ->
         Bridge("Json", JObj(Each(v.items, LAMBDA x : ToWireJson(EncodeGlobal(x)))))
    [] v.k \in {"undefined", "null", "bool", "string", "num", "bigint"} -> FromNeon(v)
    [] OTHER -> Bridge("Json", DehydrateNeon(v))

-----------------------------------------------------------------------------
(* Into the worker: bootstrap.js and v8_codec.rs *)

RECURSIVE JsonContainsWireMarkers(_)
JsonContainsWireMarkers(j) ==
  CASE j.j = "array" -> \E i \in DOMAIN j.items : JsonContainsWireMarkers(j.items[i])
    [] j.j = "object" -> \/ DOMAIN j.f \cap MarkerKeys # {}
                         \/ \E key \in DOMAIN j.f : JsonContainsWireMarkers(j.f[key])
    [] OTHER -> FALSE

RECURSIVE JsonToV8Plain(_)
JsonToV8Plain(j) ==
  CASE j.j = "null" -> Null
    [] j.j = "bool" -> Bool
    [] j.j = "string" -> Str(j.t)
    [] j.j = "number" -> Num(j.s, j.i)
    [] j.j = "array" -> Arr(Each(j.items, JsonToV8Plain))
    [] j.j = "object" -> Obj(Each(j.f, JsonToV8Plain))
    [] j.j = "raw" -> Str("raw")

(* globalThis.__hydrate *)
RECURSIVE HydrateWorker(_)
HydrateWorker(j) ==
  CASE j.j = "array" -> Arr(Each(j.items, HydrateWorker))
    [] j.j # "object" -> JsonToV8Plain(j)
    [] Has(j, "__graph") /\ j.f["__graph"].j = "array" -> Arr(Each(j.f["__graph"].items, HydrateWorker))
    [] Has(j, "__graph") -> Obj(Each(j.f["__graph"].f, HydrateWorker))
    [] Has(j, "__undef") -> Undefined
    [] Has(j, "__denojs_worker_num") -> Num("negzero", 0)
    [] Has(j, "__num") /\ j.f["__num"].t \in {"nan", "inf"} -> Num(j.f["__num"].t, 0)
    [] Has(j, "__date") -> Date(TimeOf(j.f["__date"]))
    [] Has(j, "__bigint") -> Big(j.f["__bigint"].x)
    [] Has(j, "__regexp") -> RegExp
    [] Has(j, "__url") -> Url
    [] Has(j, "__urlSearchParams") -> SearchParams
    [] Has(j, "__buffer") -> View(CopyIn(j.f["__buffer"].x))
    [] Has(j, "__v8") -> IF ReadClone(j.f["__v8"].x) = Failed THEN Undefined ELSE j.f["__v8"].x
    [] Has(j, "__map") -> MapOf(Each(j.f["__map"].items, HydrateWorker))
    [] Has(j, "__set") -> SetOf(Each(j.f["__set"].items, HydrateWorker))
    [] Has(j, "__denojs_worker_type") /\ j.f["__denojs_worker_type"] = JText("function") -> Function
    [] Has(j, "__denojs_worker_type") ->
         Err(IF j.f["cause"] = JNull THEN <<>> ELSE <<HydrateWorker(j.f["cause"])>>)
    [] OTHER -> Obj(Each(j.f, HydrateWorker))

(* to_v8: the bridge values that arguments are made of. *)
ToV8(b) ==
  CASE b.b = "Undefined" -> Undefined
    [] b.b = "Number" -> b.x
    [] b.b = "DateMs" -> Date(b.x)
    [] b.b = "Json" -> IF JsonContainsWireMarkers(b.x) THEN HydrateWorker(b.x) ELSE JsonToV8Plain(b.x)
    [] b.b = "V8Serialized" -> ReadClone(b.x)
    [] OTHER -> HydrateWorker(ToWireJson(b))

-----------------------------------------------------------------------------
(* Out of the worker: v8_codec.rs and bootstrap.js *)

(* try_fast_json_from_v8 takes data without special values, and takes an    *)
(* object of a class it does not name for its own properties.               *)
Opaque(v) == v.k \in {"url", "searchParams"} \/ (v.k = "view" /\ v.view.kind = "SharedArrayBuffer")
RECURSIVE Fast(_)
Fast(v) ==
  \/ v.k \in {"null", "bool", "string"} \/ Opaque(v)
  \/ v.k = "num" /\ v.s \notin {"nan", "inf"}
  \/ v.k = "array" /\ \A i \in DOMAIN v.items : Fast(v.items[i])
  \/ v.k = "object" /\ DOMAIN v.items \cap MarkerKeys = {} /\ \A i \in DOMAIN v.items : Fast(v.items[i])

RECURSIVE FastJson(_)
FastJson(v) ==
  CASE v.k = "null" -> JNull
    [] v.k = "bool" -> JBool
    [] v.k = "string" -> JText(v.t)
    [] v.k = "num" -> JNum(v.s, v.i)
    [] v.k = "array" -> JArr(Each(v.items, FastJson))
    [] v.k = "object" -> JObj(Each(v.items, FastJson))
    [] Opaque(v) -> JObj(<<>>)

PrimitiveKey(v) == v.k \in {"null", "string", "num", "bool", "bigint"}

(* dehydrateAny *)
RECURSIVE DehydrateAny(_)
DehydrateAny(v) ==
  CASE v.k = "array" -> Tag("__graph", JArr(Each(v.items, DehydrateAny)))
    [] v.k = "object" -> Tag("__graph", JObj(Each(v.items, DehydrateAny)))
    [] v.k = "map" ->
         Tag("__map", JArr(Each(SelectSeq(v.items, LAMBDA p : PrimitiveKey(p.items[1])),
                                LAMBDA p : JArr(Each(p.items, DehydrateAny)))))
    [] v.k = "set" -> Tag("__set", JArr(Each(v.items, DehydrateAny)))
    [] v.k = "error" -> ErrorToWire(IF Cause(v) = <<>> THEN JNull ELSE DehydrateAny(v.items[1]))
    [] v.k = "view" -> Tag("__buffer", JRaw([CopyOut(v.view) EXCEPT !.offset = 0]))
    [] OTHER -> ToWireJson(FromNeonLeaf(v))

(* A refused member of a map or a set is undefined there, and a refused     *)
(* cause is no cause.                                                       *)
OrUndefined(b) == IF b = Refused THEN Bridge("Undefined", 0) ELSE b
IsTaken(b) == b # Refused

RECURSIVE FromV8(_)
FromV8(v) ==
  CASE v.k = "bigint" -> BigIntBridge(v.i)
    [] v.k = "map" ->
         Bridge("Map", Each(v.items, LAMBDA p : Each(p.items, LAMBDA x : OrUndefined(FromV8(x)))))
    [] v.k = "set" -> Bridge("Set", Each(v.items, LAMBDA x : OrUndefined(FromV8(x))))
    [] v.k = "error" -> Bridge("Error", SelectSeq(Each(Cause(v), FromV8), IsTaken))
    [] v.k = "array" \/ (v.k = "object" /\ "href" \notin DOMAIN v.items) ->
         Bridge("Json", IF Fast(v) THEN FastJson(v) ELSE DehydrateAny(v))
    [] v.k = "object" -> Bridge("Url", 0)
    [] v.k = "view" /\ Opaque(v) -> Bridge("Json", FastJson(v))
    [] OTHER -> FromNeonLeaf(v)

(* asUint8ArrayForOp and bytes_to_u8_bridge: a message or a single argument *)
(* that is a buffer or a view goes by an op of its own, which takes the     *)
(* bytes it shows and nothing else of it.                                   *)
GoesAsBytes(v) == v.k = "view" /\ ~Opaque(v)
BytesBridge(v) ==
  LET shown == Shown(v.view) IN
  Bridge("BufferView", [kind |-> "Uint8Array", bytes |-> shown, offset |-> 0, length |-> Len(shown)])

-----------------------------------------------------------------------------
(* Into the host: neon_codec.rs and ts/wire.ts *)

(* json_to_neon: undefined, NaN and graphs are left to the wrapper. *)
RECURSIVE JsonToNeon(_)
JsonToNeon(j) ==
  CASE j.j = "array" -> Arr(Each(j.items, JsonToNeon))
    [] j.j # "object" -> JsonToV8Plain(j)
    [] Has(j, "__denojs_worker_num") -> Num("negzero", 0)
    [] Has(j, "__date") /\ j.f["__date"] # JNull -> Date(TimeOf(j.f["__date"]))
    [] Has(j, "__bigint") -> Big(j.f["__bigint"].x)
    [] Has(j, "__regexp") -> RegExp
    [] Has(j, "__url") -> Url
    [] Has(j, "__urlSearchParams") -> SearchParams
    [] Has(j, "__buffer") -> View(CopyIn(j.f["__buffer"].x))
    [] Has(j, "__map") -> MapOf(Each(j.f["__map"].items, JsonToNeon))
    [] Has(j, "__set") -> SetOf(Each(j.f["__set"].items, JsonToNeon))
    [] Has(j, "__denojs_worker_type") ->
         Err(IF j.f["cause"] = JNull THEN <<>> ELSE <<JsonToNeon(j.f["cause"])>>)
    [] OTHER -> Obj(Each(j.f, JsonToNeon))

RECURSIVE ToNeon(_)
ToNeon(b) ==
  CASE b.b = "Undefined" -> Undefined
    [] b.b = "Number" -> b.x
    [] b.b = "DateMs" -> Date(b.x)
    [] b.b = "Map" -> MapOf(Each(b.x, LAMBDA p : Arr(Each(p, ToNeon))))
    [] b.b = "Set" -> SetOf(Each(b.x, ToNeon))
    [] b.b = "Error" -> Err(Each(b.x, ToNeon))
    [] OTHER -> JsonToNeon(ToWireJson(b))

(* hydrateFromWire *)
RECURSIVE HydrateHost(_)
HydrateHost(v) ==
  CASE v.k = "bigint" -> MaybeBigIntToNumber(v.i)
    [] v.k \in Holders \ {"object"} -> [v EXCEPT !.items = Each(v.items, HydrateHost)]
    [] v.k # "object" -> v
    [] "__undef" \in DOMAIN v.items -> Undefined
    [] "__num" \in DOMAIN v.items /\ v.items["__num"].t \in {"nan", "inf"} -> Num(v.items["__num"].t, 0)
    [] "__date" \in DOMAIN v.items -> Date("epoch")
    [] "__graph" \in DOMAIN v.items -> HydrateHost(v.items["__graph"])
    [] OTHER -> [v EXCEPT !.items = Each(v.items, HydrateHost)]

-----------------------------------------------------------------------------
CallRoutes == {"call", "calls"}
Routes == {"args", "reply", "global", "result", "message"} \cup CallRoutes

Init ==
  /\ value \in Values /\ route \in Routes
  /\ stage = "sent" /\ cur = value

Cross(bridged) == stage = "sent" /\ stage' = "bridged" /\ cur' = bridged /\ UNCHANGED <<value, route>>
Arrive(v) == stage = "bridged" /\ stage' = "arrived" /\ cur' = v /\ UNCHANGED <<value, route>>

HostSends == route \in {"args", "reply"} /\ Cross(FromNeon(value))
HostSetsGlobal == route = "global" /\ Cross(EncodeGlobal(value))
WorkerSends == route \in {"result", "calls"} /\ Cross(FromV8(value))

(* hostPostMessageImpl, and hostCallAsync and hostCallSync with one argument. *)
WorkerSendsOne ==
  /\ route \in {"message", "call"}
  /\ Cross(IF GoesAsBytes(value) THEN BytesBridge(value) ELSE FromV8(value))

ArgumentArrives == route = "args" /\ Arrive(ToV8(cur))
ReplyArrives == route = "reply" /\ Arrive(HydrateWorker(ToWireJson(cur)))

(* handle_set_global_msg writes undefined as null. *)
GlobalArrives ==
  /\ route = "global"
  /\ Arrive(HydrateWorker(IF cur.b = "Undefined" THEN JNull ELSE ToWireJson(cur)))

(* A refused result rejects the eval, and a refused message is dropped. *)
ResultArrives ==
  route \in {"result", "message"} /\ Arrive(IF cur = Refused THEN Failed ELSE HydrateHost(ToNeon(cur)))

(* Nothing hydrates what a host function is called with; a refused argument *)
(* fails the call.                                                          *)
CallArrives == route \in CallRoutes /\ Arrive(IF cur = Refused THEN Failed ELSE ToNeon(cur))

(* The worker sends back what it got. *)
WorkerEchoes ==
  /\ stage = "arrived" /\ route \in {"args", "reply", "global"} /\ cur # Failed
  /\ value' = cur /\ route' = "result" /\ stage' = "sent" /\ UNCHANGED cur

Next ==
  \/ HostSends \/ HostSetsGlobal \/ WorkerSends \/ WorkerSendsOne
  \/ ArgumentArrives \/ ReplyArrives \/ GlobalArrives \/ ResultArrives \/ CallArrives
  \/ WorkerEchoes

Spec == Init /\ [][Next]_vars

-----------------------------------------------------------------------------
(* Properties *)

(* A value has a route and a stage, and is a bridge value only in between. *)
ValueCodecTypeOK ==
  /\ route \in Routes /\ stage \in {"sent", "bridged", "arrived"}
  /\ IF stage = "bridged" THEN DOMAIN cur = {"b", "x"} ELSE "k" \in DOMAIN cur
  /\ stage = "arrived" => \A p \in Parts(cur) : p.k = "view" => IsView(p.view)

(* The same value: a view shows the same bytes whatever its offset, and a   *)
(* BigInt that is a number of the same value is as good.                    *)
RECURSIVE Same(_, _)
Same(a, b) ==
  CASE a.k = "bigint" -> b \in {Big(a.i), Num("int", a.i)}
    [] a.k = "view" -> b.k = "view" /\ b.view.kind = a.view.kind /\ Shown(b.view) = Shown(a.view)
    [] a.k \in Holders -> /\ b.k = a.k /\ DOMAIN b.items = DOMAIN a.items
                          /\ \A i \in DOMAIN a.items : Same(a.items[i], b.items[i])
    [] OTHER -> a = b

(* What each way is known to lose.  Reached are the parts a recursive       *)
(* from_v8 sees, Encoded the containers it leaves to the JSON encoders.     *)
Inside(v) == UNION {Parts(m) : m \in Members(v)}
Kinds(vs) == {p.k : p \in vs}
RECURSIVE Reached(_)
Reached(v) ==
  {v} \cup UNION {Reached(m) : m \in CASE v.k \in {"set", "error"} -> Members(v)
                                       [] v.k = "map" -> UNION {Members(p) : p \in Members(v)}
                                       [] OTHER -> {}}
Encoded(v) == {c \in Reached(v) : c.k \in {"array", "object"}}
MarkedObject(p) == p.k = "object" /\ DOMAIN p.items \cap MarkerKeys # {}
WithCause(p) == p.k = "error" /\ p.items # <<>>
NoCause(p) == WithCause(p) /\ Cause(p) = <<>>
InMaps(v) == UNION {Inside(p) : p \in {q \in Parts(v) : q.k \in {"map", "set"}}}
SaturatedBig(p) == p.k = "bigint" /\ BigIntBridge(p.i).b = "Number" /\ F64(p.i) # p.i
RefusedBig(p) == p.k = "bigint" /\ BigIntBridge(p.i) = Refused
Rekeyed(p) == p.k = "map" /\ \E i \in DOMAIN p.items : ~PrimitiveKey(p.items[i].items[1])

LostByClone(v) ==
  \/ Function \in Parts(v)
  \/ v.k \in Holders \ {"error"} /\ Kinds(Inside(v)) \cap {"url", "searchParams", "view"} # {}
  \/ WithCause(v)

LostByGlobal(v) ==
  \/ v = Undefined \/ Date("nan") \in Parts(v) \/ \E p \in Parts(v) : MarkedObject(p)
  \/ \E p \in Parts(v) \ InMaps(v) : WithCause(p)
  \/ \E p \in InMaps(v) : \/ NoCause(p) \/ p.k \in {"undefined", "function", "date", "url"}
                          \/ p.k = "num" /\ p.s \in {"nan", "inf"}

LostByResult(v) ==
  \/ Function \in Parts(v) \/ \E p \in Parts(v) : NoCause(p)
  \/ \E p \in Parts(v) : MarkedObject(p)
  \/ \E p \in Reached(v) : SaturatedBig(p) \/ RefusedBig(p) \/ (p.k = "object" /\ "href" \in DOMAIN p.items)
  \/ \E p \in Reached(v) : p.k = "view" /\ Opaque(p)
  \/ \E c \in Encoded(v) : \/ Fast(c) /\ \E q \in Inside(c) : Opaque(q)
                           \/ \E q \in Inside(c) : q = Date("nan") \/ Rekeyed(q)

LostByBytes(v) == GoesAsBytes(v) /\ v.view.kind # "Uint8Array"

Loses(v) ==
  \/ route \in {"args", "reply"} /\ LostByClone(v)
  \/ route = "reply" /\ v = Date("nan")
  \/ route = "global" /\ LostByGlobal(v)
  \/ route \in {"result", "message"} \cup CallRoutes /\ LostByResult(v)
  \/ route \in {"message", "call"} /\ LostByBytes(v)
  \/ route \in CallRoutes /\ \E c \in Encoded(v) : ~Fast(c)

(* What arrives is what was sent, on every way and on the way back, except  *)
(* for exactly these losses: no special number, date, view, error, function *)
(* or container turns into something else, and nothing listed is listed in  *)
(* vain.                                                                    *)
ArrivesIntact == stage = "arrived" => (Same(value, cur) <=> ~Loses(value))

Unmarked(v) == \A p \in Parts(v) : ~MarkedObject(p)

(* The markers of the wire never reach a program: a value that had none of  *)
(* them has none when it arrives, however deep and whatever else was lost.  *)
NoMarkerLeaks == stage = "arrived" /\ route \notin CallRoutes /\ Unmarked(value) => Unmarked(cur)

(* Every variable has its type, a view that arrived lies inside its buffer, *)
(* and no marker has leaked.                                                *)
ArrivesWellFormed == ValueCodecTypeOK /\ NoMarkerLeaks

(* Not so, and checked by no run: that a host function is called with       *)
(* values only.  A container that is not plain JSON (it holds undefined,    *)
(* NaN, a date, a view ...) arrives as its __graph wrapper with undefined   *)
(* and NaN as markers inside; a date, map, set, regexp or URL that is an    *)
(* argument itself arrives as a value (json_to_neon).                       *)
HostFunctionsGetValues == stage = "arrived" /\ route \in CallRoutes /\ Unmarked(value) => Unmarked(cur)
=============================================================================
