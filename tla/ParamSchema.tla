---------------------------- MODULE ParamSchema ----------------------------
(***************************************************************************)
(* ParamSchema.validate and compute_parameter_hash: what becomes of the     *)
(* parameters that a strategy is registered with.                          *)
(*                                                                         *)
(* A value has a type, a number in thousandths, and the form in which its   *)
(* text reads: "whole" (900), "decimal" (900.0) or "word".  A schema is a   *)
(* function from the names of the fields to their types and defaults.       *)
(***************************************************************************)
EXTENDS Integers

Value(type, number) ==
  [type |-> type, number |-> number,
   form |-> CASE type = "int" -> "whole" [] type = "float" -> "decimal" [] OTHER -> "word"]

\* isinstance: a bool is an int, too.
IsInstance(raw, type) == raw.type = type \/ (raw.type = "bool" /\ type = "int")

\* int() of a number cuts off its decimals.
Truncated(n) == IF n >= 0 THEN n - (n % 1000) ELSE n + ((-n) % 1000)

\* What coerce accepts: None, the type itself, 0 and 1 as a bool, and, but for
\* bools, what int(), float() and str() accept.
Coercible(field, raw) ==
  \/ raw.type = "None" \/ IsInstance(raw, field.type)
  \/ field.type = "bool" /\ raw.type = "int" /\ raw.number \in {0, 1000}
  \/ field.type = "int" /\ (raw.type = "float" \/ (raw.type = "str" /\ raw.form = "whole"))
  \/ field.type = "float" /\ (raw.type = "int" \/ (raw.type = "str" /\ raw.form # "word"))
  \/ field.type = "str" /\ raw.type # "bool"

Converted(type, raw) ==
  CASE type = "int" -> Value("int", Truncated(raw.number))
    [] type \in {"float", "bool"} -> Value(type, raw.number)
    [] type = "str" -> [type |-> "str", number |-> raw.number, form |-> raw.form]

\* ParamField.coerce
Coerce(field, raw) ==
  IF raw.type = "None" THEN field.default
  ELSE IF IsInstance(raw, field.type) THEN raw
  ELSE Converted(field.type, raw)

\* ParamSchema.validate does not raise.
Valid(schema, payload) ==
  /\ DOMAIN payload \subseteq DOMAIN schema
  /\ \A f \in DOMAIN payload : Coercible(schema[f], payload[f])

\* ParamSchema.validate: every field of the schema gets a value.
Validated(schema, payload) ==
  [f \in DOMAIN schema |-> IF f \in DOMAIN payload THEN Coerce(schema[f], payload[f])
                           ELSE schema[f].default]

\* compute_parameter_hash of injective hashes: bools are hashed as integers.
ParameterHash(params) ==
  <<"sha256", [f \in DOMAIN params |->
                 IF params[f].type = "bool" THEN Value("int", params[f].number) ELSE params[f]]>>

\* A default is of the type of its field.
IsSchema(schema) ==
  \A f \in DOMAIN schema : schema[f].default.type = schema[f].type
============================================================================
