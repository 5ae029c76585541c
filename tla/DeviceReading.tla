--------------------------- MODULE DeviceReading ---------------------------
(***************************************************************************)
(* What becomes of a reading of a device: NewResult and checkValueInRange  *)
(* of device-addon/pkg/device/util.                                        *)
(*                                                                         *)
(* A reading has a Go type and a value: a wide signed or unsigned integer, *)
(* a float, a boolean, a float that is no number, the null of JSON, or a   *)
(* text that is no numeral.  The value type of a resource is signed or     *)
(* unsigned and has a limit, half the number of its values: Wide stands    *)
(* for 2^63, other limits for 2^7, 2^15 and 2^31.  A float is a number of  *)
(* halves.  cast is the library that converts; what it makes of a float    *)
(* that the integer type cannot hold, the language leaves open, and so     *)
(* conversions are sets of results.                                        *)
(***************************************************************************)
EXTENDS Integers

CONSTANTS Wide,     \* the limit of the widest integers
          Rejected

ASSUME WideAssumption == Wide \in Nat /\ Wide > 1

Signed(limit) == -limit..(limit - 1)

Unsigned(limit) == 0..(2 * limit - 1)

ValuesOf(type) == IF type.signed THEN Signed(type.limit) ELSE Unsigned(type.limit)

\* The lowest bits of v, as many as an integer with this limit has, read as a
\* signed number.
Wrapped(v, limit) ==
  LET low == v % (2 * limit) IN IF low < limit THEN low ELSE low - 2 * limit

\* The conversion of a float to an integer drops the fraction.
Whole(halves) == IF halves < 0 THEN -((-halves) \div 2) ELSE halves \div 2

\* Readings that have a value, and what it is as a whole number.
HasValue(reading) == reading.go \in {"int", "uint", "float", "bool"}

NumberIn(reading) ==
  CASE reading.go = "float" -> Whole(reading.value)
    [] reading.go = "bool"  -> IF reading.value THEN 1 ELSE 0
    [] OTHER                -> reading.value

IsNegative(reading) ==
  reading.go \in {"int", "float"} /\ reading.value < 0

\* A text is no integer, and a negative number no unsigned one.
IsError(type, reading) ==
  reading.go = "text" \/ (~type.signed /\ IsNegative(reading))

\* The integers of the type that a conversion of another reading may give.
Converted(type, reading) ==
  CASE reading.go = "nil" -> {0}
    [] reading.go = "nan" -> ValuesOf(type)
    [] reading.go = "float" ->
         IF NumberIn(reading) \in ValuesOf(type) THEN {NumberIn(reading)}
                                                ELSE ValuesOf(type)
    [] OTHER -> {IF type.signed THEN Wrapped(NumberIn(reading), type.limit)
                                ELSE NumberIn(reading) % (2 * type.limit)}

Widest(type) == [type EXCEPT !.limit = Wide]

\* cast.ToInt64 and cast.ToUint64, whose errors become 0.
Widened(type, reading) ==
  IF IsError(type, reading) THEN {0} ELSE Converted(Widest(type), reading)

\* cast.ToInt8E, cast.ToUint8E and so on.
Cast(type, reading) ==
  IF IsError(type, reading) THEN {Rejected} ELSE Converted(type, reading)

\* Mutant of InRange: one type is as good as the other.
InWideRange(type, v) == v \in Signed(Wide) \cup Unsigned(Wide)

InRange(type, v) == v \in ValuesOf(type)

\* What may be published of a reading; Rejected is nothing.
NewResults(type, reading) ==
  {IF InRange(type, wide) THEN v ELSE Rejected :
     wide \in Widened(type, reading), v \in Cast(type, reading)}

=============================================================================
