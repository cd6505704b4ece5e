-------------------------------- MODULE Layout --------------------------------
(***************************************************************************)
(* How large values are in memory, and where a struct keeps its fields.    *)
(***************************************************************************)
EXTENDS IRCode

(* Machine::get_align and get_size; fields gives the types of a struct's.  *)
RECURSIVE AlignOf(_, _)
AlignOf(t, fields) ==
  CASE t[1] = "array"             -> AlignOf(t[2], fields)
    [] t[1] \in {"i", "f"}        -> t[2] \div 8
    [] t[1] \in {"ptr", "function"} -> 8
    [] t[1] = "struct" ->
         LET aligns == {1} \union {AlignOf(fields[t[2]][i], fields) :
                                     i \in DOMAIN fields[t[2]]}
         IN  CHOOSE a \in aligns : \A b \in aligns : b <= a
    [] OTHER                      -> 0

(* The mask of an alignment, a power of two; with none it clears all bits.  *)
AlignTo(offset, align) ==
  IF align = 0 THEN 0 ELSE ((offset + align - 1) \div align) * align

RECURSIVE SizeOf(_, _), FieldOffset(_, _, _)
SizeOf(t, fields) ==
  CASE t[1] = "array"             -> SizeOf(t[2], fields) * t[3]
    [] t[1] = "i"                 -> IF t[2] = 1 THEN 1 ELSE t[2] \div 8
    [] t[1] = "f"                 -> t[2] \div 8
    [] t[1] \in {"ptr", "function"} -> 8
    [] t[1] = "struct" ->
         AlignTo(FieldOffset(fields[t[2]], Len(fields[t[2]]) + 1, fields),
                 AlignOf(t, fields))
    [] OTHER                      -> 0

(* Machine::get_field_offset of the i-th of the types ts; past the last    *)
(* one, where they end.                                                    *)
FieldOffset(ts, i, fields) ==
  LET end == FieldOffset(ts, i - 1, fields) + SizeOf(ts[i - 1], fields)
  IN  CASE i = 1       -> 0
        [] i > Len(ts) -> end
        [] OTHER       -> AlignTo(end, AlignOf(ts[i], fields))
=============================================================================
