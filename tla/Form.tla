-------------------------------- MODULE Form --------------------------------
(***************************************************************************)
(* Data forms (package form): a form comes over the wire, its fields are   *)
(* set, it is submitted, and the processing entity reads the submission.   *)
(*                                                                         *)
(* A value on the wire is a line: "" is empty, "0", "1", "true" and        *)
(* "false" are Boolean, "jid" is an address, others are text.  A value is  *)
(* [is, of]: its type and its lines, several for []string, []jid.JID and a *)
(* string with line breaks.                                                *)
(***************************************************************************)
EXTENDS Integers, Sequences, SequencesExt, FiniteSets

CONSTANTS Fields,       \* [typ, required, value]: fields a form may have
          Values,       \* values given to Set
          MaxFields     \* bound: fields of a form

VARIABLES fields,       \* Data.fields; the position is the var attribute
          values,       \* Data.values: what was set, Unset where nothing was
          submitted,    \* the fields of the submission
          okay,         \* the second result of Submit
          formAt

formVars == <<fields, values, submitted, okay, formAt>>

Unset == [is |-> "nil", of |-> <<>>]
Val(is, of) == [is |-> is, of |-> of]
FormInit ==
    /\ fields = <<>> /\ values = <<>> /\ submitted = <<>> /\ okay = FALSE /\ formAt = "build"

(***************************************************************************)
(* Building or decoding a form: New with its Options, UnmarshalXML.        *)
(***************************************************************************)
\* A field without a type is a line of text once decoded.
TypeRead(t) == IF t = "" THEN "text-single" ELSE t
AddField(f) ==
    /\ formAt = "build" /\ Len(fields) < MaxFields
    /\ fields' = Append(fields, [f EXCEPT !.typ = TypeRead(@)]) /\ values' = Append(values, Unset)
    /\ UNCHANGED <<submitted, okay, formAt>>

(***************************************************************************)
(* Get and Set.                                                            *)
(***************************************************************************)
IsBool(v) == v \in {"0", "1", "true", "false"}
FormatBool(v) == IF v \in {"1", "true"} THEN "true" ELSE "false"
IsJid(v) == v = "jid"
Texts1 == {"text-single", "text-private", "hidden", "list-single"}
\* The default of a field: the second part is ok.
Default(f) ==
    LET bools == SelectSeq(f.value, IsBool)
        jids  == SelectSeq(f.value, IsJid)
        one(is, s) == IF s = <<>> THEN <<Val(is, <<"">>), FALSE>> ELSE <<Val(is, <<s[1]>>), TRUE>>
    IN  CASE f.typ = "fixed" -> <<Val("string", <<"">>), FALSE>>
          [] f.typ = "boolean" -> IF bools = <<>> THEN <<Val("bool", <<"false">>), FALSE>>
                                                  ELSE <<Val("bool", <<FormatBool(bools[1])>>), TRUE>>
          [] f.typ \in Texts1 -> one("string", f.value)
          [] f.typ = "jid-single" -> one("jid", jids)
          [] f.typ = "jid-multi" -> <<Val("jids", jids), jids # <<>>>>
          [] f.typ = "text-multi" -> <<Val("string", IF f.value = <<>> THEN <<"">> ELSE f.value), f.value # <<>>>>
          [] f.typ = "list-multi" -> <<Val("strings", f.value), f.value # <<>>>>
          [] OTHER -> <<Unset, FALSE>>
Get(fs, vs, i) == IF vs[i] # Unset THEN <<vs[i], TRUE>> ELSE Default(fs[i])

\* The type a field's value has to have.
GoType(typ) == CASE typ = "boolean" -> "bool" [] typ \in Texts1 \cup {"text-multi"} -> "string"
                 [] typ = "jid-single" -> "jid" [] typ = "jid-multi" -> "jids"
                 [] typ = "list-multi" -> "strings" [] OTHER -> "none"
\* A string with line breaks matters to text-multi only; elsewhere it is a
\* value like any other.
Set(i, v) ==
    /\ formAt = "build" /\ i \in DOMAIN fields
    /\ v.is = "string" /\ Len(v.of) > 1 => fields[i].typ = "text-multi"
    /\ values' = IF v.is = GoType(fields[i].typ) THEN [values EXCEPT ![i] = v] ELSE values
    /\ UNCHANGED <<fields, submitted, okay, formAt>>

(***************************************************************************)
(* Submit and TokenReader.                                                 *)
(***************************************************************************)
\* The value of a string that is split at its line breaks; the loop runs on
\* at an empty last line and slices with -1.
SplitPanics(v) == Last(v.of) = ""
\* field.TokenReader: empty values are skipped, and so are ones that are no
\* Boolean or address; all but the first are for the multi types.
Multi == {"list-multi", "jid-multi", "text-multi"}
FieldElement(f) ==
    LET good == SelectSeq(f.value, LAMBDA v : v # "" /\ (f.typ = "boolean" => IsBool(v))
                                              /\ (f.typ \in {"jid-single", "jid-multi"} => IsJid(v)))
    IN  [f EXCEPT !.value = IF f.typ \in Multi \/ good = <<>> THEN good ELSE <<good[1]>>]
\* A field that is not set and not required is left out, and a fixed one.
Sent(i) == fields[i].typ # "fixed" /\ (fields[i].required \/ Get(fields, values, i)[2])
SentField(i) == FieldElement([fields[i] EXCEPT !.value = Get(fields, values, i)[1].of])
Panics == \E i \in DOMAIN fields :
    Sent(i) /\ fields[i].typ = "text-multi" /\ SplitPanics(Get(fields, values, i)[1])
Submit ==
    /\ formAt = "build" /\ fields # <<>>
    /\ formAt' = IF Panics THEN "panic" ELSE "submitted"
    /\ okay' = \A i \in DOMAIN fields : fields[i].required => Get(fields, values, i)[2]
    /\ submitted' = IF Panics THEN <<>>
         ELSE LET sent == SelectSeq([i \in DOMAIN fields |-> i], Sent)
              IN  [k \in DOMAIN sent |-> [pos |-> sent[k], field |-> SentField(sent[k])]]
    /\ UNCHANGED <<fields, values>>

(***************************************************************************)
(* Properties.                                                             *)
(***************************************************************************)
\* What the processing entity gets for the field at position i.
Received(i) ==
    LET S == {k \in DOMAIN submitted : submitted[k].pos = i}
    IN  IF S = {} THEN <<Unset, FALSE>> ELSE Default(submitted[CHOOSE k \in S : TRUE].field)
HasEmpty(v) == \E k \in DOMAIN v.of : v.of[k] = ""

\* The submission says what the form says: every value that was set or is a
\* default is read by the other side, and if Submit is content nothing else
\* is.  Left out are values with an empty line, which are not written
\* (form.go:207-275, 343-500, fields.go:93-193).
FormKept == formAt = "submitted" =>
    /\ \A i \in DOMAIN fields : LET g == Get(fields, values, i) IN
         fields[i].typ # "fixed" /\ ~HasEmpty(g[1]) /\ g[2] => Received(i) = g
    /\ okay => \A i \in DOMAIN fields : Received(i)[2] => Get(fields, values, i)[2]
=============================================================================
