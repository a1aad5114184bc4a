-------------------------- MODULE KeyNormalization --------------------------
(***************************************************************************)
(* normalizing_hasher: the word that stands for a key of each supported    *)
(* type before it is hashed, and a sketch that counts words.               *)
(*                                                                         *)
(* A key is [type, bits]; an integer type is [kind, width].  Widths are    *)
(* parameters; words have the width of the widest type (64 in the code).   *)
(***************************************************************************)
EXTENDS FloatFormat, FiniteSets

CONSTANTS
  Wide,     \* width of a word
  Narrow,   \* widths of the narrower integer types
  Float,    \* the format of float
  Double,   \* the format of double
  MaxKeys   \* bound on the keys given to the sketch

ASSUME KeyAssumption ==
  /\ Wide \in Nat \ {0} /\ Narrow \subseteq 1 .. Wide - 1
  /\ Float \in Formats /\ Double \in Formats
  /\ Fits(Float, Double) /\ Size(Double) = Wide
  /\ MaxKeys \in Nat

\* The powers that words and the numbers of a double need.
ASSUME KeyPowers == Powers(Wide) /\ Powers(Wide + 2 ^ Double.exp)

VARIABLES
  seen,  \* the keys given so far
  words  \* the words the sketch has hashed for them

keyVars == <<seen, words>>

IntegralTypes == [kind : {"signed", "unsigned"}, width : Narrow \union {Wide}]
FloatingTypes == {[kind |-> "float", width |-> Size(Float)],
                  [kind |-> "double", width |-> Wide]}

Keys == UNION {[type : {t}, bits : 0 .. 2 ^ t.width - 1] : t \in IntegralTypes \union FloatingTypes}

KeyWords == 0 .. 2 ^ Wide - 1

IsIntegral(key) == key.type \in IntegralTypes

-----------------------------------------------------------------------------
(* The word of a key. *)

\* The number that bits of this width are as a signed integer.
AsSigned(bits, width) == IF bits < 2 ^ (width - 1) THEN bits ELSE bits - 2 ^ width

\* bit_cast of a signed 64-bit integer to an unsigned one.
BitCast(number) == number % 2 ^ Wide

\* Faulty variant: narrow unsigned integers keep their value.
CanonicalIntegerByValue(key) ==
  IF key.type.width = Wide \/ key.type.kind = "unsigned"
  THEN key.bits
  ELSE BitCast(AsSigned(key.bits, key.type.width))

CanonicalInteger(key) ==
  IF key.type.width = Wide
  THEN key.bits
  ELSE BitCast(AsSigned(key.bits, key.type.width))

AsDouble(key) ==
  IF key.type.kind = "float" THEN Widened(Float, Double, key.bits) ELSE key.bits

CanonicalNaN == (2 ^ Double.exp - 1) * 2 ^ Double.mant + 2 ^ (Double.mant - 1)

\* Faulty variant: the sign of zero stays.
CanonicalDoubleSigned(d) == IF IsNaN(Double, d) THEN CanonicalNaN ELSE d

CanonicalDouble(d) ==
  CASE IsNaN(Double, d)      -> CanonicalNaN
    [] Number(Double, d) = 0 -> 0
    [] OTHER                 -> d

_canonicalize(key) ==
  IF IsIntegral(key) THEN CanonicalInteger(key) ELSE CanonicalDouble(AsDouble(key))

-----------------------------------------------------------------------------
(* What datasketches-cpp's update overloads hash: each forwards to another *)
(* one, by a conversion of the language.                                   *)

ToSigned(key) == [type |-> [key.type EXCEPT !.kind = "signed"], bits |-> key.bits]

ToInt64(key) ==
  [type |-> [kind |-> "signed", width |-> Wide],
   bits |-> IF key.bits >= 2 ^ (key.type.width - 1)
            THEN key.bits + (2 ^ Wide - 2 ^ key.type.width)
            ELSE key.bits]

ToCpuDouble(key) ==
  [type |-> [kind |-> "double", width |-> Wide], bits |-> Widened(Float, Double, key.bits)]

PositiveZero == 0

CpuUpdateDouble(key) ==
  CASE IsNaN(Double, key.bits)      -> CanonicalNaN
    [] Number(Double, key.bits) = 0 -> PositiveZero
    [] OTHER                        -> key.bits

CpuWord(key) ==
  CASE key.type.kind = "unsigned" -> ToInt64(ToSigned(key)).bits
    [] key.type.kind = "signed"   -> ToInt64(key).bits
    [] key.type.kind = "float"    -> CpuUpdateDouble(ToCpuDouble(key))
    [] key.type.kind = "double"   -> CpuUpdateDouble(key)

-----------------------------------------------------------------------------

KeysInit == seen = {} /\ words = {}

Update(key) ==
  /\ Cardinality(seen) < MaxKeys
  /\ seen' = seen \union {key}
  /\ words' = words \union {_canonicalize(key)}

KeysNext == \E key \in Keys : Update(key)

KeysSpec == KeysInit /\ [][KeysNext]_keyVars

-----------------------------------------------------------------------------

KeysTypeOK == seen \subseteq Keys /\ words \subseteq KeyWords

\* The sketch hashes the words that the CPU sketch hashes for the same keys,
\* whatever mixture of types they come in.
WordParity == words = {CpuWord(key) : key \in seen}

\* Two keys mean the same when they are the same signed integer, whatever
\* their widths and signedness, or the same floating-point number, or both no
\* number.  The widest unsigned integers mean their signed counterparts, too.
SameMeaning(k1, k2) ==
  IF IsIntegral(k1)
  THEN AsSigned(k1.bits, k1.type.width) = AsSigned(k2.bits, k2.type.width)
  ELSE LET d1 == AsDouble(k1)
           d2 == AsDouble(k2)
       IN  IF IsNaN(Double, d1) \/ IsNaN(Double, d2)
           THEN IsNaN(Double, d1) /\ IsNaN(Double, d2)
           ELSE Number(Double, d1) = Number(Double, d2)

\* A key is counted once however it is written, and keys that differ are told
\* apart: integers among themselves, and floating-point numbers likewise.
CountedOnce ==
  \A k1, k2 \in seen :
    IsIntegral(k1) = IsIntegral(k2) =>
      ((_canonicalize(k1) = _canonicalize(k2)) <=> SameMeaning(k1, k2))
=============================================================================
