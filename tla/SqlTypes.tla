------------------------------- MODULE SqlTypes -------------------------------
(***************************************************************************)
(* Snowflake scalar types as every gate reads them (sql_types.py): the     *)
(* canonical form of a declared type, and whether a change of type widens  *)
(* it.  A declared type is its name in upper case and its parameters.      *)
(***************************************************************************)
EXTENDS Integers, Sequences

IntegerTypes == {"BIGINT", "BYTEINT", "INT", "INTEGER", "SMALLINT", "TINYINT"}
NumberTypes == {"NUMBER", "DEC", "DECIMAL", "NUMERIC"}
FloatTypes == {"DOUBLE", "DOUBLE PRECISION", "FLOAT", "FLOAT4", "FLOAT8", "REAL"}
CharTypes == {"CHAR", "CHARACTER", "NCHAR", "NATIONAL CHAR", "NATIONAL CHARACTER"}
VarcharTypes ==
  {"CHAR VARYING", "CHARACTER VARYING", "NCHAR VARYING", "NATIONAL CHAR VARYING",
   "NATIONAL CHARACTER VARYING", "NVARCHAR", "NVARCHAR2", "STRING", "TEXT",
   "VARCHAR", "VARCHAR2"}
BinaryTypes == {"BINARY", "VARBINARY"}
TimestampTypes ==
  {"DATETIME", "TIME", "TIMESTAMP", "TIMESTAMP_LTZ", "TIMESTAMP_NTZ", "TIMESTAMP_TZ"}
ParameterlessTypes ==
  {"ARRAY", "BOOLEAN", "DATE", "DECFLOAT", "GEOGRAPHY", "GEOMETRY", "OBJECT",
   "UUID", "VARIANT"}

VarcharDefaultLength == 16777216
VarcharMaxLength     == 134217728
BinaryDefaultLength  == 8388608
BinaryMaxLength      == 67108864

\* What canonical_sql_type() gives for a type it refuses (ValueError).
Unsupported == [base |-> "unsupported", params |-> <<>>]

Type(base, params) == [base |-> base, params |-> params]

\* The i-th parameter, or what it is by default.
Param(t, i, default) == IF Len(t.params) >= i THEN t.params[i] ELSE default

\* A type with one parameter that has to be in a range.
OneParam(t, base, default, least, most) ==
  LET n == Param(t, 1, default) IN
  IF Len(t.params) <= 1 /\ least <= n /\ n <= most
  THEN Type(base, <<n>>) ELSE Unsupported

NoParam(t, base) == IF t.params = <<>> THEN Type(base, <<>>) ELSE Unsupported

\* NUMBER: precision 1 to 38, scale at most the precision and 37.
Number(t) ==
  LET precision == Param(t, 1, 38)
      scale     == Param(t, 2, 0) IN
  IF /\ Len(t.params) <= 2 /\ 1 <= precision /\ precision <= 38
     /\ scale <= precision /\ scale <= 37
  THEN Type("NUMBER", <<precision, scale>>) ELSE Unsupported

\* canonical_sql_type().
Canonical(t) ==
  CASE t.name \in IntegerTypes ->
         IF t.params = <<>> THEN Type("NUMBER", <<38, 0>>) ELSE Unsupported
    [] t.name \in NumberTypes  -> Number(t)
    [] t.name \in FloatTypes   -> NoParam(t, "FLOAT")
    [] t.name \in CharTypes    -> OneParam(t, "VARCHAR", 1, 1, VarcharMaxLength)
    [] t.name \in VarcharTypes ->
         OneParam(t, "VARCHAR", VarcharDefaultLength, 1, VarcharMaxLength)
    [] t.name \in BinaryTypes ->
         OneParam(t, "BINARY", BinaryDefaultLength, 1, BinaryMaxLength)
    [] t.name \in TimestampTypes ->
         OneParam(t, IF t.name = "DATETIME" THEN "TIMESTAMP_NTZ" ELSE t.name, 9, 0, 9)
    [] t.name \in ParameterlessTypes -> NoParam(t, t.name)
    [] OTHER -> Unsupported

Supported(t) == Canonical(t) # Unsupported

-----------------------------------------------------------------------------

\* A longer string, or a number with room for all digits on both sides.
Widens(old, new) ==
  /\ old.base = new.base
  /\ \/ old.base \in {"VARCHAR", "BINARY"} /\ new.params[1] > old.params[1]
     \/ /\ old.base = "NUMBER"
        /\ new.params[2] >= old.params[2]
        /\ new.params[1] - new.params[2] >= old.params[1] - old.params[2]

\* type_change_kind() of two canonical types.
TypeChangeKind(old, new) ==
  IF old = new THEN "no_op" ELSE IF Widens(old, new) THEN "widening" ELSE "incompatible"
=============================================================================
