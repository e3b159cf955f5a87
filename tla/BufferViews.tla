----------------------------- MODULE BufferViews -----------------------------
(***************************************************************************)
(* ArrayBuffers and the views on them as they cross the bridge: a producer *)
(* copies the bytes of the view only but keeps the byteOffset the view had *)
(* in its source buffer, and the consumer works out which window of the    *)
(* copied bytes to show (buffer_view_window, of which wire.rs, neon_codec  *)
(* and v8_codec each have a copy).                                         *)
(***************************************************************************)
EXTENDS Naturals, Sequences

BufferKinds == {"ArrayBuffer", "SharedArrayBuffer"}
ViewKinds == {"Uint8Array", "DataView", "Int16Array", "Int32Array", "Float64Array"}

(* buffer_view_bytes_per_element *)
BytesPerElement(kind) ==
  CASE kind = "Int16Array" -> 2
    [] kind = "Int32Array" -> 4
    [] kind = "Float64Array" -> 8
    [] OTHER -> 1

Window(offset, length) == [offset |-> offset, length |-> length]

(* Mutant: the offset is believed although only the view was copied. *)
BufferViewWindowTrusting(kind, raw, byteOffset, length) ==
  LET bpe == BytesPerElement(kind)
      safe == IF byteOffset <= raw THEN byteOffset ELSE raw
  IN IF kind \in BufferKinds THEN Window(0, IF length <= raw THEN length ELSE raw)
     ELSE IF byteOffset + length * bpe <= raw THEN Window(byteOffset, length)
     ELSE Window(safe, (raw - safe) \div bpe)

(* The window of a payload of raw bytes: where the producer said it is if   *)
(* the payload reaches that far, at the start if it was rebased, and what   *)
(* is left otherwise.                                                       *)
BufferViewWindow(kind, raw, byteOffset, length) ==
  LET bpe == BytesPerElement(kind)
      safe == IF byteOffset <= raw THEN byteOffset ELSE raw
  IN IF kind \in BufferKinds THEN Window(0, IF length <= raw THEN length ELSE raw)
     ELSE IF byteOffset + length * bpe <= raw THEN Window(byteOffset, length)
     ELSE IF length * bpe <= raw THEN Window(0, length)
     ELSE Window(safe, (raw - safe) \div bpe)

(* A view is its buffer's bytes and its window on them. *)
IsView(v) ==
  /\ v.kind \in ViewKinds \cup BufferKinds
  /\ v.offset + v.length * BytesPerElement(v.kind) <= Len(v.bytes)

(* The bytes a program reads through the view. *)
Shown(v) == SubSeq(v.bytes, v.offset + 1, v.offset + v.length * BytesPerElement(v.kind))

(* from_v8 and from_neon_value: the bytes of the view, its old offset, its  *)
(* length in elements.                                                      *)
CopyOut(v) ==
  [kind |-> v.kind, bytes |-> Shown(v), offset |-> v.offset, length |-> v.length]

(* buffer_view_to_neon and try_buffer_view_to_v8: a fresh buffer and the    *)
(* window on it.                                                            *)
CopyIn(p) ==
  LET w == BufferViewWindow(p.kind, Len(p.bytes), p.offset, p.length) IN
  [kind |-> p.kind, bytes |-> p.bytes, offset |-> w.offset, length |-> w.length]
=============================================================================
