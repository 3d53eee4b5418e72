--------------------------- MODULE HostArguments ---------------------------
(***************************************************************************)
(* Text the host tool reads: key IDs, u32 options, versions, names of      *)
(* roles and rollback policies, each in an argument or a manifest          *)
(* document; and the text it prints of the same values, which a user or a  *)
(* script gives back to it (keys.rs, main.rs, format.rs).  A text is a     *)
(* sequence of characters; a name is one character of its own.             *)
(***************************************************************************)
EXTENDS Integers, Sequences, SequencesExt

CONSTANTS
  KEY_ID_SIZE,    \* bytes of a key ID
  U32_MAX,        \* largest value of a u32
  U32_DIGITS,     \* hexadecimal digits of a u32
  U16_MAX,        \* largest value of a u16
  Characters,     \* characters of a text
  Wide,           \* characters of two bytes
  Continuation,   \* the second of these bytes
  Texts(_)        \* texts given for each kind of value

Kinds == {"key_id", "u32", "version", "role", "label", "rollback"}

Lower == <<"0", "1", "2", "3", "4", "5", "6", "7", "8", "9", "a", "b", "c", "d", "e", "f">>
Upper == <<"0", "1", "2", "3", "4", "5", "6", "7", "8", "9", "A", "B", "C", "D", "E", "F">>

DigitsOf(c) == {d \in 0 .. 15 : c \in {Lower[d + 1], Upper[d + 1]}}

\* A plus sign may go before the digits.
Unsigned(text) == IF Len(text) > 1 /\ text[1] = "+" THEN Tail(text) ELSE text

\* What is read of a number, with one character more: none if it is no digit or
\* the number is too large.
Pushed(so_far, c, radix, max) ==
  {n * radix + d : n \in so_far, d \in {e \in DigitsOf(c) : e < radix}} \cap 0 .. max

\* from_str_radix and str::parse of an unsigned number, none if they fail.
from_str_radix(text, radix, max) ==
  LET digits == Unsigned(text)
      so_far[n \in 0 .. Len(digits)] ==
        IF n = 0 THEN {0} ELSE Pushed(so_far[n - 1], digits[n], radix, max)
  IN IF digits = << >> THEN {} ELSE so_far[Len(digits)]

\* strip_prefix of 0x or 0X.
Stripped(text) ==
  IF Len(text) >= 2 /\ text[1] = "0" /\ text[2] \in {"x", "X"}
  THEN SubSeq(text, 3, Len(text)) ELSE text

parse_u32_value(text) ==
  IF Stripped(text) # text THEN from_str_radix(Stripped(text), 16, U32_MAX)
  ELSE from_str_radix(text, 10, U32_MAX)

Encoded(c) == IF c \in Wide THEN <<c, Continuation>> ELSE <<c>>

Utf8(text) ==
  LET bytes[n \in 0 .. Len(text)] ==
        IF n = 0 THEN << >> ELSE bytes[n - 1] \o Encoded(text[n])
  IN bytes[Len(text)]

KeyIdBytes(text) == Utf8(Stripped(text))

\* Slicing the n-th pair of bytes out of the text cuts a character in two.
Splits(bytes, n) ==
  \/ bytes[2 * n - 1] = Continuation
  \/ 2 * n < Len(bytes) /\ bytes[2 * n + 1] = Continuation

PairValue(bytes, n) == from_str_radix(SubSeq(bytes, 2 * n - 1, 2 * n), 16, 255)

\* parse_key_id_hex slices a cut character before it has met a wrong pair.
KeyIdPanics(text) ==
  LET bytes == KeyIdBytes(text)
  IN /\ Len(bytes) = 2 * KEY_ID_SIZE
     /\ \E n \in 1 .. KEY_ID_SIZE :
          Splits(bytes, n) /\ \A k \in 1 .. n - 1 : PairValue(bytes, k) # {}

\* The key ID that parse_key_id_hex returns, if it does.
parse_key_id_hex(text) ==
  LET bytes == KeyIdBytes(text)
  IN IF Len(bytes) # 2 * KEY_ID_SIZE THEN {}
     ELSE {id \in [1 .. KEY_ID_SIZE -> UNION {PairValue(bytes, n) : n \in 1 .. KEY_ID_SIZE}] :
             \A n \in 1 .. KEY_ID_SIZE : id[n] \in PairValue(bytes, n)}

\* A separator begins another part.
Added(parts, c, at) ==
  IF c = at THEN Append(parts, << >>) ELSE [parts EXCEPT ![Len(parts)] = Append(@, c)]

Split(text, at) ==
  LET parts[n \in 0 .. Len(text)] ==
        IF n = 0 THEN << << >> >> ELSE Added(parts[n - 1], text[n], at)
  IN parts[Len(text)]

\* A broken version: what follows the patch level is not looked at.
LeadingVersion(text) ==
  LET parts == Split(text, ".")
      Part(n) == from_str_radix(parts[n], 10, U16_MAX)
  IN IF Len(parts) < 3 THEN {}
     ELSE {<<major, minor, patch>> : major \in Part(1), minor \in Part(2), patch \in Part(3)}

parse_semver_core(text) ==
  LET parts == Split(text, ".")
      Part(n) == from_str_radix(parts[n], 10, U16_MAX)
  IN IF Len(parts) # 3 THEN {}
     ELSE {<<major, minor, patch>> : major \in Part(1), minor \in Part(2), patch \in Part(3)}

parse_role ==
  [RELEASE |-> 1, SECURITY |-> 2, BOOT_MANAGER |-> 3, RECOVERY |-> 4, FACTORY |-> 5,
   DEVELOPMENT |-> 6]

role_name == <<"RELEASE", "SECURITY", "BOOT_MANAGER", "RECOVERY", "FACTORY", "DEVELOPMENT">>

key_role_labels ==
  {"RELEASE", "SECURITY", "BOOT_MANAGER", "RECOVERY", "FACTORY", "DEVELOPMENT"}

parse_rollback_policy == [none |-> 0, fallback |-> 1]

rollback_policy_name(policy) == IF policy = 0 THEN "none" ELSE "fallback"

\* What a text names in a table; a document may leave the name out.
Lookup(table, text, default) ==
  IF text = << >> THEN {<<table[default]>>}
  ELSE IF Len(text) = 1 /\ text[1] \in DOMAIN table THEN {<<table[text[1]]>>} ELSE {}

\* The values that a text is read as: one or, on an error, none.
Values(kind, text) ==
  CASE kind = "key_id" -> parse_key_id_hex(text)
    [] kind = "u32" -> {<<n>> : n \in parse_u32_value(text)}
    [] kind = "version" -> parse_semver_core(text)
    [] kind = "role" -> Lookup(parse_role, text, "RELEASE")
    [] kind = "label" -> {l \in {text} : Len(l) = 1 /\ l[1] \in key_role_labels}
    [] kind = "rollback" -> Lookup(parse_rollback_policy, text, "fallback")
-----------------------------------------------------------------------------
\* The digits of a number, and of no number more than it needs.
Numeral(number, radix) ==
  LET digits[n \in 0 .. number] ==
        IF n < radix THEN <<Lower[n + 1]>>
        ELSE Append(digits[n \div radix], Lower[(n % radix) + 1])
  IN digits[number]

Zeros(count) == [n \in 1 .. count |-> "0"]

\* {:0width$x}
PadHex(number, width) ==
  LET digits == Numeral(number, 16)
  IN Zeros(width - Len(digits)) \o digits

\* A broken encoding: one digit where one will do.
UnpaddedHex(id) == FlattenSeq([n \in 1 .. KEY_ID_SIZE |-> Numeral(id[n], 16)])

key_id_hex(id) ==
  LET hex[n \in 0 .. KEY_ID_SIZE] ==
        IF n = 0 THEN << >> ELSE hex[n - 1] \o PadHex(id[n], 2)
  IN hex[KEY_ID_SIZE]

version_string(version) ==
  Numeral(version[1], 10) \o <<".">> \o Numeral(version[2], 10) \o <<".">>
    \o Numeral(version[3], 10)

\* A value as the tool prints it.
Printed(kind, value) ==
  CASE kind = "key_id" -> <<"0", "x">> \o key_id_hex(value)
    [] kind = "u32" -> <<"0", "x">> \o PadHex(value[1], U32_DIGITS)
    [] kind = "version" -> version_string(value)
    [] kind = "role" -> <<role_name[value[1]]>>
    [] kind = "label" -> value
    [] kind = "rollback" -> <<rollback_policy_name(value[1])>>
-----------------------------------------------------------------------------
\* A character of two bytes is none that a number, a version or a prefix is
\* written with.
ASSUME TextsAssumption ==
  /\ KEY_ID_SIZE \in Nat /\ {U32_MAX, U32_DIGITS, U16_MAX} \subseteq Nat
  /\ {Lower[n] : n \in 1 .. 16} \cup {Upper[n] : n \in 1 .. 16} \subseteq Characters
  /\ {"+", ".", "x", "X"} \subseteq Characters
  /\ key_role_labels \cup DOMAIN parse_rollback_policy \subseteq Characters
  /\ Wide \cup {Continuation} \subseteq Characters
  /\ \A c \in Wide \cup {Continuation} :
       DigitsOf(c) = {} /\ c \notin {"+", ".", "x", "X"}
  /\ \A k \in Kinds : Texts(k) \subseteq Seq(Characters)

VARIABLES
  kind,     \* what the text is given for
  text,     \* the text given
  outcome,  \* "given", or what became of it: "read", "refused", "panic"
  value,    \* the value that was read
  shown     \* the value whose printed form the text is: none or one

text_vars == <<kind, text, outcome, value, shown>>

TextInit ==
  /\ \E k \in Kinds : \E t \in Texts(k) : kind = k /\ text = t
  /\ outcome = "given" /\ value = << >> /\ shown = {}

\* The parser runs: its value, an error (exit status 2), or a panic (101).
Read ==
  /\ outcome = "given"
  /\ LET values == Values(kind, text)
     IN IF kind = "key_id" /\ KeyIdPanics(text)
        THEN outcome' = "panic" /\ UNCHANGED value
        ELSE IF values = {} THEN outcome' = "refused" /\ UNCHANGED value
        ELSE outcome' = "read" /\ value' \in values
  /\ UNCHANGED <<kind, text, shown>>

\* What was printed is given back, a role also as the label of a new key.
GiveBack(k) ==
  /\ outcome = "read" /\ shown = {}
  /\ \/ k = kind
     \/ kind = "role" /\ k = "label"
  /\ kind' = k
  /\ text' = Printed(kind, value)
  /\ shown' = {value}
  /\ outcome' = "given" /\ value' = << >>

TextNext ==
  \/ Read
  \/ \E k \in Kinds : GiveBack(k)

TextSpec == TextInit /\ [][TextNext]_text_vars
-----------------------------------------------------------------------------
\* What the tool prints it reads back as the same value: IDs of a report, the
\* version, the role and the policy of an artifact, the key ID of a key, and
\* every role an artifact may have is one a key may be generated for
\* (format.rs:863-975, keys.rs:19-51, main.rs:391-410).
PrintedIsReadBack ==
  shown # {} /\ outcome # "given" =>
    outcome = "read" /\ (kind # "label" => value \in shown)

\* The spellings of a number, without an order of reading them: a sign or none,
\* zeros, its digits in either case.
Spells(t, number, radix) ==
  \E sign \in {<< >>, <<"+">>}, z \in 0 .. Len(t) :
    LET digits == sign \o Zeros(z) \o Numeral(number, radix)
    IN /\ Len(t) = Len(digits)
       /\ \A n \in 1 .. Len(t) :
            t[n] = digits[n] \/ DigitsOf(t[n]) \cap DigitsOf(digits[n]) # {}

Field(t, radix, max) == [text |-> t, radix |-> radix, max |-> max]

\* The numbers a text is made of: as an option, a key ID, or a version.
Readings ==
  CASE kind = "u32" ->
         {<<Field(text, 10, U32_MAX)>>}
           \cup {<<Field(SubSeq(text, 3, Len(text)), 16, U32_MAX)>> :
                   x \in {"x", "X"} \cap {c \in ToSet(text) : IsPrefix(<<"0", c>>, text)}}
    [] kind = "key_id" ->
         {[n \in 1 .. KEY_ID_SIZE |-> Field(SubSeq(t, 2 * n - 1, 2 * n), 16, 255)] :
            t \in {u \in {Stripped(text)} : Len(u) = 2 * KEY_ID_SIZE}}
    [] kind = "version" ->
         LET dots == {n \in DOMAIN text : text[n] = "."}
         IN {<<Field(SubSeq(text, 1, d[1] - 1), 10, U16_MAX),
               Field(SubSeq(text, d[1] + 1, d[2] - 1), 10, U16_MAX),
               Field(SubSeq(text, d[2] + 1, Len(text)), 10, U16_MAX)>> :
               d \in {e \in dots \X dots : e[1] < e[2]}}

\* A number is read exactly if the whole text spells it: no overflow wraps,
\* nothing behind a value is left out, no spelling is refused, and what panics
\* spells nothing (keys.rs:29-51, main.rs:398-410, format.rs:894-916).
ReadIsWhatItSpells ==
  kind \in {"u32", "key_id", "version"} /\ outcome # "given" =>
    IF outcome = "read"
    THEN \E r \in Readings : \A n \in DOMAIN r :
           value[n] <= r[n].max /\ Spells(r[n].text, value[n], r[n].radix)
    ELSE \A r \in Readings : \E n \in DOMAIN r :
           \A m \in 0 .. r[n].max : ~Spells(r[n].text, m, r[n].radix)

\* "key ID must contain {} hexadecimal characters" (keys.rs:36) and "key ID
\* contains non-hexadecimal characters" (keys.rs:47): a text of another number
\* of characters, or with any other character, is refused.
OtherTextIsRefused ==
  LET id == Stripped(text)
  IN kind = "key_id" /\ outcome # "given" =>
       \/ outcome = "refused"
       \/ Len(id) = 2 * KEY_ID_SIZE /\ \A n \in DOMAIN id : DigitsOf(id[n]) # {}
=============================================================================
