-------------------------- MODULE MCHostArguments --------------------------
(***************************************************************************)
(* HostArguments with key IDs of two bytes, u32 of two digits and u16 of   *)
(* one: every short text of a few characters, and numbers at their limits. *)
(***************************************************************************)
EXTENDS HostArguments

All(chars, n) == UNION {[1 .. k -> chars] : k \in 0 .. n}

Numbers == {<<>>, <<"0">>, <<"7">>, <<"1", "5">>, <<"1", "6">>, <<"+", "1">>, <<"0", "1">>, <<"x">>}

Versions ==
  {<<>>} \cup Numbers
  \cup {a \o <<".">> \o b : a, b \in Numbers}
  \cup {a \o <<".">> \o b \o <<".">> \o c : a, b, c \in Numbers}
  \cup {a \o <<".">> \o a \o <<".">> \o b \o <<".">> \o c : a, b, c \in Numbers}

KeyIds == All({"0", "f", "F", "+", "2-byte"}, 4)

U32s ==
  All({"0", "2", "5", "6", "f", "x", "+", "-"}, 4)
  \cup {<<"0", x>> \o t : x \in {"x", "X"},
          t \in {<<"1", "0", "0">>, <<"0", "f", "F">>, <<"+", "0", "f">>, <<"A", "f">>, <<"g", "0">>}}

MCCharacters ==
  ToSet(Lower) \cup ToSet(Upper) \cup key_role_labels \cup DOMAIN parse_rollback_policy
  \cup {"+", "-", ".", "x", "X", "g", "2-byte", "of 2-byte", "release", "FALLBACK"}

MCTexts(k) ==
  CASE k = "u32" -> U32s
    [] k = "key_id" -> KeyIds \cup {<<"0", x>> \o t : x \in {"x", "X"}, t \in KeyIds}
    [] k = "version" -> Versions
    [] k \in {"role", "label"} ->
         {<<>>, <<"release">>} \cup {<<role_name[n]>> : n \in DOMAIN role_name}
    [] k = "rollback" -> {<<>>, <<"none">>, <<"fallback">>, <<"FALLBACK">>}
=============================================================================
