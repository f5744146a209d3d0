---------------------------------- MODULE CInt ----------------------------------
(***************************************************************************)
(* The integers of C: the machine's, that the interpreter is compiled to, and *)
(* those that a script means.  A type is one of eight, signed ones even:      *)
(* char, short, int and long long (basetypes B_SC .. B_ULL).                  *)
(***************************************************************************)
EXTENDS Integers, Bitwise

CONSTANT Bits   \* bits in a byte: 8, or fewer for a small instance

ASSUME BitsAssumption == Bits \in Nat \ {0}

Indices == 0..7
IntIdx == 4
Bytes(i) == 2 ^ (i \div 2)
Pow(size) == 2 ^ (Bits * size)
IsSigned(i) == i % 2 = 0

\* What a register of so many bytes holds of n, and n as a number of type i.
Low(n, size) == n % Pow(size)
Conv(n, i) ==
    LET u == Low(n, Bytes(i))
    IN  IF IsSigned(i) /\ u >= Pow(Bytes(i)) \div 2 THEN u - Pow(Bytes(i)) ELSE u

\* The usual arithmetic conversions.
Promoted(i) == IF i < IntIdx THEN IntIdx ELSE i
Common(i, j) == IF Promoted(i) >= Promoted(j) THEN Promoted(i) ELSE Promoted(j)

Arithmetic == {"ADD", "SUB", "MUL", "DIV", "MOD", "AND", "OR", "XOR"}
Shifts == {"SHL", "SHR"}
Relations == {"EQ", "NE", "LT", "LE", "GT", "GE"}
ResultType(op, i, j) ==
    CASE op \in Arithmetic -> Common(i, j)
      [] op \in Shifts -> Promoted(i)
      [] op \in Relations -> IntIdx

Quot(a, b) == LET q == (IF a < 0 THEN -a ELSE a) \div (IF b < 0 THEN -b ELSE b)
              IN  IF (a < 0) = (b < 0) THEN q ELSE -q

Truth(p) == IF p THEN 1 ELSE 0
\* What the machine cannot do: it divides by zero or over the top, and a shift has
\* to be one of the type's.
Traps(op, m, i, n, j) ==
    LET c == Common(i, j)
    IN  op \in {"DIV", "MOD"} /\ \/ Conv(n, c) = 0
                                 \/ IsSigned(c) /\ Conv(n, c) = -1 /\ Conv(m, c) = -(Pow(Bytes(c)) \div 2)
Undefined(op, i, n) == op \in Shifts /\ n \notin 0 .. Bits * Bytes(Promoted(i)) - 1

\* m op n for m of type i and n of type j, of type ResultType.
COp(op, m, i, n, j) ==
    LET c == Common(i, j)
        a == Conv(m, c)
        b == Conv(n, c)
        size == Bytes(c)
    IN  CASE op = "ADD" -> Conv(a + b, c)
          [] op = "SUB" -> Conv(a - b, c)
          [] op = "MUL" -> Conv(a * b, c)
          [] op = "DIV" -> Conv(Quot(a, b), c)
          [] op = "MOD" -> Conv(a - b * Quot(a, b), c)
          [] op = "AND" -> Conv(Low(a, size) & Low(b, size), c)
          [] op = "OR" -> Conv(Low(a, size) | Low(b, size), c)
          [] op = "XOR" -> Conv(Low(a, size) ^^ Low(b, size), c)
          [] op = "SHL" -> Conv(m * 2 ^ n, Promoted(i))
          [] op = "SHR" -> Conv(m, Promoted(i)) \div 2 ^ n
          [] op = "EQ" -> Truth(a = b)
          [] op = "NE" -> Truth(a # b)
          [] op = "LT" -> Truth(a < b)
          [] op = "LE" -> Truth(a <= b)
          [] op = "GT" -> Truth(a > b)
          [] op = "GE" -> Truth(a >= b)
=============================================================================
