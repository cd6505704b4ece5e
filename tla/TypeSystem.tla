----------------------------- MODULE TypeSystem -----------------------------
(***************************************************************************)
(* The types of the language.  A type is a record with its class and       *)
(* whether it is qualified with mut; NoType is the null pointer that a     *)
(* reference has for a type until its definition is found.                 *)
(***************************************************************************)
EXTENDS Naturals, Sequences

NoType == [cls |-> "None", mut |-> FALSE]

Builtin(kind) == [cls |-> "Builtin", kind |-> kind, mut |-> FALSE]

PointerTo(t) == [cls |-> "Pointer", pointee |-> t, mut |-> FALSE]

ArrayOf(t, size) == [cls |-> "Array", element |-> t, size |-> size, mut |-> FALSE]

FunctionOf(ret, params) ==
  [cls |-> "Function", ret |-> ret, params |-> params, mut |-> FALSE]

StructNamed(name) == [cls |-> "Struct", name |-> name, mut |-> FALSE]

EnumOf(name, under) == [cls |-> "Enum", name |-> name, under |-> under, mut |-> FALSE]

AliasOf(name, under) == [cls |-> "Alias", name |-> name, under |-> under, mut |-> FALSE]

Deferred(name) == [cls |-> "Deferred", name |-> name, mut |-> FALSE]

WithMut(t) == [t EXCEPT !.mut = TRUE]

-----------------------------------------------------------------------------

SignedKinds == {"Bool", "Char", "Int8", "Int16", "Int32", "Int64"}

UnsignedKinds == {"UInt8", "UInt16", "UInt32", "UInt64"}

FloatKinds == {"Float32", "Float64"}

(* Only builtin types are numbers: an enum or an alias of one is not.      *)
IsKind(t, kinds) == t.cls = "Builtin" /\ t.kind \in kinds

IsInteger(t) == IsKind(t, SignedKinds \union UnsignedKinds)

IsUnsigned(t) == IsKind(t, UnsignedKinds)

IsFloat(t) == IsKind(t, FloatKinds)

IsVoid(t) == IsKind(t, {"Void"})

(* Type::compare and its overrides: mut does not count, and function and   *)
(* deferred types are like no other.                                       *)
RECURSIVE Compare(_, _)
Compare(a, b) ==
  \/ a.cls = "Builtin" /\ b.cls = "Builtin" /\ a.kind = b.kind
  \/ a.cls = "Pointer" /\ b.cls = "Pointer" /\ Compare(a.pointee, b.pointee)
  \/ /\ a.cls = "Array" /\ b.cls = "Array"
     /\ a.size = b.size /\ Compare(a.element, b.element)
  \/ /\ {a.cls, b.cls} \subseteq {"Alias", "Enum", "Struct"}
     /\ a.name = b.name

BuiltinCanCast(a, b, implicitly) ==
  \/ /\ b.cls = "Builtin"
     /\ IsVoid(a) <=> IsVoid(b)
     /\ ~(implicitly /\ IsFloat(a) /\ IsInteger(b))
  \/ ~implicitly /\ b.cls = "Pointer" /\ IsInteger(a)

PointerCanCast(a, b, implicitly) ==
  IF implicitly
  THEN IsVoid(a.pointee) \/ (b.cls = "Pointer" /\ IsVoid(b.pointee))
  ELSE b.cls = "Pointer" \/ IsInteger(b)

(* Type::can_cast and its overrides.  An array asks whether its elements   *)
(* can be cast explicitly even when the cast is implicit.                  *)
RECURSIVE CanCast(_, _, _)
CanCast(a, b, implicitly) ==
  CASE a.cls = "Builtin" -> BuiltinCanCast(a, b, implicitly)
    [] a.cls = "Pointer" -> PointerCanCast(a, b, implicitly)
    [] a.cls = "Array"   -> b.cls = "Pointer" /\ CanCast(a.element, b.pointee, FALSE)
    [] a.cls = "Enum"    -> IsInteger(b)
    [] a.cls = "Alias"   -> CanCast(a.under, b, implicitly)
    [] OTHER             -> FALSE
=============================================================================
