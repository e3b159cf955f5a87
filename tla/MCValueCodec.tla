----------------------------- MODULE MCValueCodec -----------------------------
(* Values for the model checker: every kind on its own, and every kind     *)
(* inside every container.                                                 *)
EXTENDS ValueCodec

Ints == {Num("int", 1), Num("negzero", 0), Num("nan", 0), Num("inf", 0)}
Bigs == {Big(i) : i \in {5, 9, 12, 31, 63, 77, 100, -9, -10}}
Dates == {Date("time"), Date("nan")}
Bytes == <<"a", "b", "c", "d">>
Views == {View([kind |-> k, bytes |-> Bytes, offset |-> o, length |-> n]) :
            k \in {"Uint8Array", "Int16Array", "DataView"}, o \in {0, 2}, n \in {0, 1}}
Buffers == {View([kind |-> k, bytes |-> Bytes, offset |-> 0, length |-> 4]) : k \in BufferKinds}
Leaves == {Undefined, Null, Bool, Function, RegExp, Url, SearchParams, Str("text")}
          \cup Ints \cup Bigs \cup Dates \cup Views \cup Buffers

Holding(a, b) ==
  {Arr(<<a, b>>), SetOf(<<a>>), MapOf(<<Arr(<<Str("k"), a>>)>>), MapOf(<<Arr(<<a, b>>)>>),
   Obj("p" :> a @@ "q" :> b), Err(<<a>>)}
Once == UNION {Holding(a, b) : a \in Leaves, b \in {Undefined, Null, Num("int", 1)}}
Few == {Date("time"), Num("nan", 0), Undefined, Null, Url, Big(9), Big(100), CHOOSE v \in Views : v.view.offset = 2,
        Num("negzero", 0), Function}
Twice == UNION {Holding(c, Null) : c \in UNION {Holding(a, Undefined) : a \in Few}}

MCValues == Leaves \cup Once \cup Twice \cup {Err(<<>>), Arr(<<>>), Obj("__date" :> Str("text")), Obj("href" :> Str("text"))}
=============================================================================
