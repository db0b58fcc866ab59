--------------------------- MODULE InputValidation ---------------------------
(***************************************************************************)
(* src/bailment/engine/validation.py: the inputs of a request against the  *)
(* JSON Schema of its golden path, and the defaults that are filled in.    *)
(*                                                                         *)
(* A schema is a record of its keywords; "default", "const" and "enum"     *)
(* hold values as Expressions has them, "type" is a set of type names and  *)
(* "additionalProperties" is <<>> for false and <<schema>> for a schema.   *)
(***************************************************************************)
EXTENDS Expressions

CONSTANTS
    UnboundedStringLimit, MaxSchemaDepth,
    Found       \* the regular expressions that compile, with the texts they are found in

SUPPORTED_KEYWORDS ==
    {"additionalProperties", "const", "enum", "exclusiveMaximum", "exclusiveMinimum",
     "items", "maxItems", "maxLength", "maximum", "minItems", "minLength", "minimum",
     "multipleOf", "pattern", "properties", "required", "type", "uniqueItems"}
ANNOTATION_KEYWORDS ==
    {"$comment", "$id", "$schema", "default", "deprecated", "description", "examples",
     "format", "readOnly", "title", "writeOnly"}

\* type_matches: JSON's view, in which true is no number.
TypesOf(value) ==
    CASE value.type = "str" -> {"string"}
      [] value.type = "bool" -> {"boolean"}
      [] value.type = "int" -> {"integer", "number"}
      [] value.type = "float" -> {"number"}
      [] value.type = "map" -> {"object"}
      [] value.type = "list" -> {"array"}
      [] value.type = "null" -> {"null"}
TYPE_NAMES == {"array", "boolean", "integer", "null", "number", "object", "string"}

\* What becomes of a value: itself with the defaults below it, a complaint
\* about it, or the schema's refusal to be enforced at all.
Checked(value, problem) == [value |-> value, problem |-> problem, unusable |-> FALSE]
Unusable == [value |-> Null, problem |-> FALSE, unusable |-> TRUE]

Keyword(schema, name, otherwise) ==
    IF name \in DOMAIN schema THEN schema[name] ELSE otherwise

\* search, not fullmatch.
IsFound(value, pattern) == value.val \in Found[pattern]

CheckString(schema, value) ==
    LET n == Size(value)
        long == n > Keyword(schema, "maxLength", UnboundedStringLimit)
        patterned == "pattern" \in DOMAIN schema
    IN IF long THEN Checked(value, TRUE)
       ELSE IF patterned /\ schema.pattern \notin DOMAIN Found THEN Unusable
       ELSE Checked(value, \/ n < Keyword(schema, "minLength", 0)
                           \/ patterned /\ ~IsFound(value, schema.pattern))

CheckNumber(schema, value) ==
    LET n == value.val
        step == Keyword(schema, "multipleOf", 1)
    IN IF step <= 0 THEN Unusable
       ELSE Checked(value, \/ n < Keyword(schema, "minimum", n)
                           \/ n > Keyword(schema, "maximum", n)
                           \/ n <= Keyword(schema, "exclusiveMinimum", n - 1)
                           \/ n >= Keyword(schema, "exclusiveMaximum", n + 1)
                           \/ n % step # 0)

\* The parts of a list or a map, checked, make up the whole.
Composed(kind, parts, problem) ==
    [value |-> [type |-> kind, val |-> [i \in DOMAIN parts |-> parts[i].value]],
     problem |-> problem \/ \E i \in DOMAIN parts : parts[i].problem,
     unusable |-> \E i \in DOMAIN parts : parts[i].unusable]

RECURSIVE ValidateValue(_, _, _)

CheckArray(schema, value, depth) ==
    LET items == value.val
        n == Len(items)
        twice == \E i, j \in DOMAIN items : i < j /\ Same(items[i], items[j])
        problem == \/ n < Keyword(schema, "minItems", 0)
                   \/ Keyword(schema, "uniqueItems", FALSE) /\ twice
    IN IF n > Keyword(schema, "maxItems", n) THEN Checked(value, TRUE)
       ELSE IF "items" \notin DOMAIN schema THEN Checked(value, problem)
       ELSE Composed("list", [i \in DOMAIN items |->
                                ValidateValue(schema.items, items[i], depth + 1)], problem)

\* MUTANT of Filled: a default is taken as it stands.
FilledUnchecked(properties, supplied, depth) ==
    LET names == {n \in DOMAIN properties : n \notin supplied /\ "default" \in DOMAIN properties[n]}
    IN [n \in names |-> Checked(properties[n].default, FALSE)]

\* The defaults of the properties that were not supplied, checked like values.
Filled(properties, supplied, depth) ==
    LET names == {n \in DOMAIN properties : n \notin supplied /\ "default" \in DOMAIN properties[n]}
    IN [n \in names |-> ValidateValue(properties[n], properties[n].default, depth + 1)]

\* The supplied keys that stay; a closed schema complains about the others.
Kept(schema, properties, supplied) ==
    IF Keyword(schema, "additionalProperties", <<schema>>) = <<>>
    THEN supplied \cap DOMAIN properties ELSE supplied

CheckObject(schema, value, depth) ==
    LET supplied == DOMAIN value.val
        properties == Keyword(schema, "properties", <<>>)
        required == Keyword(schema, "required", {})
        additional == Keyword(schema, "additionalProperties", <<>>)
        kept == Kept(schema, properties, supplied)
        Part(k) == IF k \in DOMAIN properties THEN ValidateValue(properties[k], value.val[k], depth + 1)
                   ELSE IF additional # <<>>
                   THEN ValidateValue(additional[1], value.val[k], depth + 1)
                   ELSE Checked(value.val[k], FALSE)
        filled == Filled(properties, kept, depth)
    IN Composed("map", filled @@ [k \in kept |-> Part(k)],
              ~(required \subseteq supplied) \/ kept # supplied)

-----------------------------------------------------------------------------

\* _validate_value: keywords, type, const and enum, then what the type asks.
ValidateValue(schema, value, depth) ==
    LET types == Keyword(schema, "type", TypesOf(value))
        listed == Keyword(schema, "enum", <<value>>)
    IN
    IF \/ depth > MaxSchemaDepth
       \/ ~(DOMAIN schema \subseteq SUPPORTED_KEYWORDS \cup ANNOTATION_KEYWORDS)
       \/ ~(types \subseteq TYPE_NAMES) THEN Unusable
    ELSE IF \/ types \cap TypesOf(value) = {}
            \/ ~Same(Keyword(schema, "const", value), value)
            \/ \A i \in DOMAIN listed : ~Same(listed[i], value)
    THEN Checked(value, TRUE)
    ELSE CASE value.type = "str" -> CheckString(schema, value)
           [] value.type \in {"int", "float"} -> CheckNumber(schema, value)
           [] value.type = "list" -> CheckArray(schema, value, depth)
           [] value.type = "map" -> CheckObject(schema, value, depth)
           [] OTHER -> Checked(value, FALSE)

\* validate_inputs: the root of a schema is an object, and its other keywords
\* are not looked at.
ValidateInputs(schema, values) == CheckObject(schema, values, 0)

=============================================================================
