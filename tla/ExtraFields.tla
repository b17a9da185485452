----------------------------- MODULE ExtraFields -----------------------------
(* Lists of extra fields (zip_extra_field.c).  A field is a record of its id,  *)
(* the length of its data and the data.  Indices are counted from 0, among the *)
(* fields with the id, as in the API.                                          *)
EXTENDS Naturals, FiniteSets, Sequences, SequencesExt

CONSTANTS
    MaxFields, \* ZIP_UINT16_MAX as the size of a list of fields
    NULL

AnyField == 65535 \* ZIP_EXTRA_FIELD_ALL, as an id and as an index
NewField == 65535 \* ZIP_EXTRA_FIELD_NEW, as an index

EfZip64       == 1     \* 0x0001
EfUtf8Comment == 25461 \* 0x6375
EfUtf8Name    == 28789 \* 0x7075
EfWinzipAes   == 39169 \* 0x9901

\* ZIP_EF_IS_INTERNAL: the fields libzip writes itself.
Internal == {EfZip64, EfUtf8Comment, EfUtf8Name, EfWinzipAes}

HasId(f, id) == id = AnyField \/ f.id = id

\* How many of the fields before position k have the id.
Rank(fields, id, k) == Cardinality({j \in 1..(k - 1) : HasId(fields[j], id)})

\* _zip_ef_find: the position of the field, 0 for none.
EfFind(fields, id, idx) ==
    LET found == {k \in DOMAIN fields : HasId(fields[k], id) /\ Rank(fields, id, k) = idx}
    IN  IF found # {} THEN CHOOSE k \in found : TRUE ELSE 0

\* _zip_ef_delete_by_id
EfDelete(fields, id, idx) ==
    IF idx = AnyField
    THEN SelectSeq(fields, LAMBDA f : ~HasId(f, id))
    ELSE IF EfFind(fields, id, idx) = 0 THEN fields
         ELSE RemoveAt(fields, EfFind(fields, id, idx))

\* _zip_ef_size
EfSize(fields) == FoldSeq(LAMBDA f, n : n + 4 + f.len, 0, fields)

TooLarge(fields) == EfSize(fields) > MaxFields

\* _zip_ef_set: the list with the field set, NULL when the call fails.
EfSet(fields, field, idx) ==
    LET k   == EfFind(fields, field.id, idx)
        new == IF idx = NewField THEN Append(fields, field)
               ELSE ReplaceAt(fields, k, field)
    IN  IF (idx # NewField /\ k = 0) \/ TooLarge(fields) \/ TooLarge(new)
        THEN NULL ELSE new

\* _zip_ef_remove_internal
RemoveInternal(fields) == SelectSeq(fields, LAMBDA f : f.id \notin Internal)
=============================================================================
