------------------------------ MODULE Accessor ------------------------------
(***************************************************************************)
(* accessor.Accessor and SyncAccessorFields: fields that know whether they *)
(* were set, and the copy of the dirty ones from one struct to another.    *)
(*                                                                         *)
(* A struct is the sequence of its leaf fields, embedded structs flattened *)
(* where they stand, which is the order both walks visit them in.  A field *)
(* is [name, tag, holds, dirty, value]: `tag` is the name in its json tag  *)
(* or "", `holds` is "accessor", "plain" or "pointer".                     *)
(***************************************************************************)
EXTENDS Integers, SequencesExt

\* Accessor.Set: also what UnmarshalJSON and New(val) leave behind.
Set(f, v) == [f EXCEPT !.dirty = TRUE, !.value = v]

\* isDirty: false for a field without the method, which only the address of an
\* Accessor has: of a struct passed by value no field is dirty.
IsDirty(f, addressable) == f.holds = "accessor" /\ f.dirty /\ addressable

HasTag(f) == f.tag \notin {"", "-"}

\* The names a field goes by.
NamesOf(f) == {f.name} \cup (IF HasTag(f) THEN {f.tag} ELSE {})

\* The last field of some that goes by a name.
LastNamed(k, src, fields) == CHOOSE i \in fields : k \in NamesOf(src[i]) /\ \A j \in fields : j > i => k \notin NamesOf(src[j])

\* Mutant: every accessor is taken, set or not.
collectAccessors(src, addressable) ==
    LET taken == {i \in DOMAIN src : src[i].holds = "accessor" /\ addressable}
    IN  [k \in UNION {NamesOf(src[i]) : i \in taken} |-> src[LastNamed(k, src, taken)].value]

\* collectDirtyAccessors: under the field's name and under its tag; a later
\* field takes over a key that an earlier one has.
collectDirtyAccessors(src, addressable) ==
    LET dirty == {i \in DOMAIN src : IsDirty(src[i], addressable)}
    IN  [k \in UNION {NamesOf(src[i]) : i \in dirty} |-> src[LastNamed(k, src, dirty)].value]

\* setTargetValue: an accessor becomes dirty, a pointer is allocated.
setTargetValue(f, v) == IF f.holds = "accessor" THEN Set(f, v) ELSE [f EXCEPT !.value = v]

\* applyToDst: the name comes before the tag.
applyToDst(dst, values) ==
    [i \in DOMAIN dst |->
       LET f == dst[i]
       IN  IF f.name \in DOMAIN values THEN setTargetValue(f, values[f.name])
           ELSE IF HasTag(f) /\ f.tag \in DOMAIN values THEN setTargetValue(f, values[f.tag])
           ELSE f]

\* `dst` is a pointer; `src` is one, or a struct.
SyncAccessorFields(dst, src, addressable) == applyToDst(dst, collectDirtyAccessors(src, addressable))
=============================================================================
