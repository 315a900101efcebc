------------------------------ MODULE Requests ------------------------------
(***************************************************************************)
(* The request that clients send and the server sends back:                *)
(* src/request.h and src/request.cpp.  The fields are those that some step *)
(* of the server decides on; the others are carried by the same rules.     *)
(* A JSON value is its kind and what it holds; an object gives values to   *)
(* some fields.  A temperature is counted in hundredths.                   *)
(***************************************************************************)
EXTENDS Integers, Sequences

CONSTANT Drawn  \* what the random device may give for a seed

\* A uint32_t kept in an int64_t.
ASSUME DrawnAssumption == Drawn \subseteq Nat

\* request_init.
Default ==
    [caption          |-> "",
     lyrics           |-> "",
     vocal_language   |-> "",
     audio_codes      |-> "",
     seed             |-> -1,
     lm_seed          |-> -1,
     lm_batch_size    |-> 1,
     synth_batch_size |-> 1,
     lm_temperature   |-> 85,
     use_cot_caption  |-> TRUE,
     lm_mode          |-> "generate",
     task_type        |-> "text2music",
     output_format    |-> "mp3",
     synth_model      |-> "",
     lm_model         |-> "",
     adapter          |-> "",
     vae              |-> ""]

Fields == DOMAIN Default
Numbers == {"seed", "lm_seed", "lm_batch_size", "synth_batch_size", "lm_temperature"}
Flags == {"use_cot_caption"}

KindOf(f) == CASE f \in Numbers -> "num" [] f \in Flags -> "bool" [] OTHER -> "str"

\* Never empty: an empty one is not taken over, and they are always written.
Named == {"task_type", "lm_mode", "output_format"}

\* A flag may come as text too.
ValueOf(f, v) == IF f \in Flags /\ v.kind = "str" THEN v.is \in {"true", "1"} ELSE v.is

TakenOver(f, v) ==
    \/ v.kind = KindOf(f) /\ ~(f \in Named /\ v.is = "")
    \/ f \in Flags /\ v.kind = "str"

\* The lyrics say whether a song has no voice.
Instrumental(r) ==
    IF r.lyrics = "[Instrumental]" THEN [r EXCEPT !.vocal_language = "unknown"] ELSE r

\* request_parse_obj over request_init: what is missing or of another kind
\* keeps its default.
Parse(object) ==
    Instrumental([f \in Fields |->
        IF f \in DOMAIN object /\ TakenOver(f, object[f])
        THEN ValueOf(f, object[f]) ELSE Default[f]])

\* Texts come from files, bodies and form parts: none, one that is not JSON or
\* not made of objects, an object, an array of them.
NoText == [form |-> "none", objects |-> <<>>]
BadText == [form |-> "bad", objects |-> <<>>]
ObjectText(o) == [form |-> "object", objects |-> <<o>>]
ArrayText(s) == [form |-> "array", objects |-> s]

\* request_parse_json_array, empty where it returns false.
ParseArray(text) == [i \in DOMAIN text.objects |-> Parse(text.objects[i])]

\* request_parse_json, for a part that may be missing: the one request, none
\* where it returns false, and the handler's own if there is no part.
ParseOne(text, own) ==
    CASE text.form = "none"   -> <<own>>
      [] text.form = "object" -> <<Parse(text.objects[1])>>
      [] OTHER                -> <<>>

Written(r, fields) == [f \in fields |-> [kind |-> KindOf(f), is |-> r[f]]]

\* Slip: a field is left out when it is zero or empty, whatever its default.
BuildNonZero(r) ==
    Written(r, {f \in Fields : r[f] # (CASE f \in Numbers -> 0
                                         [] f \in Flags -> FALSE
                                         [] OTHER -> "")})

\* request_build_doc, sparse: the caption, the seed and what is never empty
\* are always written, the others when they are not at their default.
Build(r) ==
    Written(r, {"caption", "seed"} \cup Named \cup {f \in Fields : r[f] # Default[f]})

\* request_resolve_seed and request_resolve_lm_seed.
ResolveSeed(r, f) ==
    {[r EXCEPT ![f] = s] : s \in IF r[f] < 0 THEN Drawn ELSE {r[f]}}

ResolveSeeds(r) == UNION {ResolveSeed(q, "seed") : q \in ResolveSeed(r, "lm_seed")}
=============================================================================
