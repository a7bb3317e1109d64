--------------------------- MODULE NumberLiterals ---------------------------
(***************************************************************************)
(* The rules no-loss-of-precision and no-constant-math-min-max-clamp.      *)
(* Numbers have the code's shape with fewer bits: Significand is 53 there, *)
(* SafeDigits 15, MaxPrecision 100, Word 64 and Largest 1023.              *)
(***************************************************************************)
EXTENDS RuleVisit, Integers, SequencesExt

CONSTANTS
    Significand,  \* the bits of a number's significand
    SafeDigits,   \* maxObviouslySafeSignificantDigits
    MaxPrecision, \* the digits a literal is compared with at most
    Word,         \* the bits of an unsigned integer
    Largest,      \* the exponent of the largest numbers
    Smallest      \* the smallest positive number is 2^-Smallest

ASSUME NumberAssumption ==
    /\ {Significand, SafeDigits, MaxPrecision, Word, Largest, Smallest} \subseteq Nat \ {0}
    /\ SafeDigits < MaxPrecision
    /\ 10^SafeDigits <= 2^(Significand - 1)
    /\ Significand < Word /\ Word < Largest

PrecisionId == "no-loss-of-precision"
ClampId == "no-constant-math-min-max-clamp"

-----------------------------------------------------------------------------
(* The number nearest to a / b that is Significand bits and zeros.         *)
Nearest(a, b) ==
    LET zeros == CHOOSE k \in 0..30 : a < b * 2^(Significand + k) /\ (k = 0 \/ a >= b * 2^(Significand + k - 1))
        unit == b * 2^zeros
        down == a \div unit
        rest == a % unit
        up == rest > unit - rest \/ (rest = unit - rest /\ down % 2 = 1)
    IN  (IF up THEN down + 1 ELSE down) * 2^zeros
TooLarge == 2^(Largest + 1)

(* Digits of a base, the most significant first.                           *)
RECURSIVE ValueOf(_, _), DigitsOf(_, _)
ValueOf(digits, base) == IF digits = <<>> THEN 0 ELSE ValueOf(Front(digits), base) * base + Last(digits)
DigitsOf(v, base) == IF v < base THEN <<v>> ELSE Append(DigitsOf(v \div base, base), v % base)
NonZero(digits) == {i \in DOMAIN digits : digits[i] # 0}
First(digits) == Min(NonZero(digits))
Final(digits) == Max(NonZero(digits))
WithoutZeros(digits) == IF NonZero(digits) = {} THEN <<>> ELSE SubSeq(digits, First(digits), Len(digits))
TrimmedZeros(digits) == IF NonZero(digits) = {} THEN <<>> ELSE SubSeq(digits, 1, Final(digits))

-----------------------------------------------------------------------------
(* no-loss-of-precision, binary, octal and hexadecimal literals: the bits  *)
(* between the first and the last that is set, and the highest of them.    *)
HighestSetBit(v) == Max({k \in 0..3 : 2^k <= v})
LowestSetBit(v) == Max({k \in 0..3 : v % 2^k = 0})
(* Mutant: the bits are counted in whole digits.                           *)
IsExactInDigits(n) ==
    LET d == n.digits IN NonZero(d) = {} \/ (Final(d) - First(d) + 1) * n.bits <= Significand + n.bits
IsExact(n) ==
    LET d == n.digits
        high == HighestSetBit(d[First(d)])
    IN  \/ NonZero(d) = {}
        \/ /\ (Final(d) - First(d)) * n.bits + high - LowestSetBit(d[Final(d)]) + 1 <= Significand
           /\ (Len(d) - First(d)) * n.bits + high <= Largest
(* parseNonBaseTen: through a word if it fits, digit by digit if not; a    *)
(* conversion of what does not fit gives what the platform gives.          *)
RECURSIVE Accumulated(_, _)
Accumulated(digits, base) ==
    IF digits = <<>> THEN 0 ELSE Nearest(Accumulated(Front(digits), base) * base + Last(digits), 1)
Parsed(n) ==
    LET exact == ValueOf(n.digits, 2^n.bits)
    IN  IF exact < 2^Word THEN Nearest(exact, 1) ELSE Accumulated(n.digits, 2^n.bits)
Converted(f, overflow) ==
    IF f < 2^Word THEN f ELSE CASE overflow = "zero" -> 0 [] overflow = "high bit" -> 2^(Word - 1) [] OTHER -> 2^Word - 1
NonBaseTenLosesPrecision(n) ==
    /\ ~IsExact(n)
    /\ \/ Parsed(n) >= TooLarge
       \/ ~IsSuffix(DigitsOf(Converted(Parsed(n), n.overflow), 2^n.bits), n.digits)

(* Decimal literals: an integer part, a fraction and an exponent.  A       *)
(* stored number is a multiple of the smallest.                            *)
AllDigits(n) == n.int \o n.frac
Scale(n) == n.exp - Len(n.frac)
Stored(n) ==
    LET v == ValueOf(AllDigits(n), 10) * 2^Smallest
    IN  IF Scale(n) >= 0 THEN Nearest(v * 10^Scale(n), 1) ELSE Nearest(v, 10^(-Scale(n)))
IsSafe(n) ==
    LET d == AllDigits(n)
    IN  /\ ~n.hasExp
        /\ \/ NonZero(d) = {}
           \/ /\ Stored(n) # 0
              /\ IF n.hasDot /\ NonZero(n.frac) = {} THEN Len(n.int) - First(d) + 1 <= SafeDigits
                 ELSE (IF n.hasDot THEN Len(d) ELSE Final(d)) - First(d) < SafeDigits

(* Scientific notation of the literal: without a dot the last zeros are    *)
(* not significant.                                                        *)
Scientific(digits, exp) == [digits |-> IF digits = <<>> THEN <<0>> ELSE digits, exp |-> exp]
Normalize(n) ==
    LET int == WithoutZeros(n.int)
        zeros == Len(n.frac) - Len(WithoutZeros(n.frac))
    IN  IF int = <<>> /\ n.frac # <<>> THEN Scientific(WithoutZeros(n.frac), n.exp - 1 - zeros)
        ELSE IF int = <<>> THEN Scientific(<<>>, n.exp)
        ELSE Scientific(IF n.frac = <<>> /\ ~n.hasDot THEN TrimmedZeros(int) ELSE int \o n.frac, n.exp + Len(int) - 1)
(* And of the stored number: its digits cut after one more than are wanted *)
(* and rounded up from five; nines carry over.                             *)
RoundToPrecision(digits, exp) ==
    LET kept == Front(digits)
        other == {i \in DOMAIN kept : kept[i] # 9}
    IN  IF Last(digits) <= 4 THEN Scientific(kept, exp)
        ELSE IF other = {} THEN Scientific([i \in DOMAIN kept |-> IF i = 1 THEN 1 ELSE 0], exp + 1)
        ELSE Scientific([i \in DOMAIN kept |-> IF i < Max(other) THEN kept[i] ELSE IF i = Max(other) THEN kept[i] + 1 ELSE 0], exp)
ToPrecision(v, wanted) ==
    IF v = 0 THEN Scientific(<<>>, 0)
    ELSE LET exp == IF v >= 2^Smallest THEN Max({e \in 0..5 : v >= 10^e * 2^Smallest})
                    ELSE Max({e \in -4..-1 : v * 10^(-e) >= 2^Smallest})
             precision == Max({1, Min({wanted, MaxPrecision})})
             shift == precision - exp
             cut == IF shift >= 0 THEN (v * 10^shift) \div 2^Smallest ELSE v \div (2^Smallest * 10^(-shift))
         IN  RoundToPrecision(DigitsOf(cut, 10), exp)
ScientificEqual(a, b) == a.digits = b.digits /\ (a.digits = <<0>> \/ a.exp = b.exp)
BaseTenLosesPrecision(n) ==
    LET totalSig == Len(Normalize(n).digits)
    IN  \/ Stored(n) >= TooLarge * 2^Smallest
        \/ /\ ~IsSafe(n)
           /\ totalSig > MaxPrecision \/ ~ScientificEqual(Normalize(n), ToPrecision(Stored(n), totalSig))

VisitNumber(n) ==
    IF (n.form = "digits" /\ NonBaseTenLosesPrecision(n)) \/ (n.form = "decimal" /\ BaseTenLosesPrecision(n)) THEN {"loses"} ELSE {}

-----------------------------------------------------------------------------
(* no-constant-math-min-max-clamp: min and max with a literal each.        *)
IsLiteral(e) == e.kind = "literal"
PickLiteral(args) == IF IsLiteral(args[1]) THEN 1 ELSE IF IsLiteral(args[2]) THEN 2 ELSE 0
MathCall(e) == e.kind = "call" /\ e.method \in {"min", "max"} /\ (e.on = "window.Math" \/ (e.on = "Math" /\ e.binding = "none"))
VisitClamp(n) ==
    LET outer == PickLiteral(n.args)
        inner == n.args[3 - outer]
        at == PickLiteral(inner.args)
        low == n.args[outer].value
        high == inner.args[at].value
    IN  IF /\ MathCall(n) /\ Len(n.args) = 2 /\ outer # 0
           /\ MathCall(inner) /\ inner.method # n.method /\ Len(inner.args) = 2
           /\ at # 0 /\ ~IsLiteral(inner.args[3 - at])
           /\ IF n.method = "min" THEN low <= high ELSE low >= high
          THEN {"constant"} ELSE {}

-----------------------------------------------------------------------------
(* A literal in digits of a power of two loses precision if it is no       *)
(* number.  Known: beyond a word, the literal may end with the digits of   *)
(* what the conversion makes of it.                                        *)
BinariesAreExact ==
    Visited(PrecisionId) /\ node.form = "digits" =>
        LET v == ValueOf(node.digits, 2^node.bits)
            loses == Nearest(v, 1) # v \/ v >= TooLarge
        IN  reports # {} <=> loses /\ ~(Parsed(node) \in 2^Word..(TooLarge - 1)
                                        /\ IsSuffix(DigitsOf(Converted(Parsed(node), node.overflow), 2^node.bits), node.digits))

(* A decimal literal loses precision if the stored number, rounded to the  *)
(* last significant digit of the literal, is not the literal.  A power of  *)
(* ten that is stored below itself has one digit more.  Known: the         *)
(* shortcut for a few digits does not know that the smallest numbers have  *)
(* fewer bits; a literal with too many digits to be compared is reported,  *)
(* exact or not.                                                           *)
RoundsBack(n) ==
    LET trailing == IF n.hasDot THEN 0 ELSE Len(n.int) - Len(TrimmedZeros(n.int))
        last == Scale(n) + trailing
        written == ValueOf(AllDigits(n), 10) \div 10^trailing
        unit == IF last >= 0 THEN 2^Smallest * 10^last ELSE 2^Smallest
        v == IF last >= 0 THEN Stored(n) ELSE Stored(n) * 10^(-last)
        next == written = 10^(Len(Normalize(n).digits) - 1) /\ v < written * unit
    IN  IF next THEN (20 * v + unit) \div (2 * unit) = 10 * written ELSE (2 * v + unit) \div (2 * unit) = written
IsSubnormal(n) == Stored(n) < 2^(Significand - 1)
IsTooPrecise(n) == ~IsSafe(n) /\ Len(Normalize(n).digits) > MaxPrecision
DecimalsAreKept ==
    Visited(PrecisionId) /\ node.form = "decimal" =>
        LET loses == Stored(node) >= TooLarge * 2^Smallest \/ ~RoundsBack(node)
        IN  reports # {} <=> IsTooPrecise(node) \/ (loses /\ ~(IsSafe(node) /\ IsSubnormal(node)))

(* A clamp is constant when it has one value for every number.  Known: a   *)
(* binding of Math anywhere in the file silences the rule; literals on     *)
(* both sides and more bounds are not seen.                                *)
RECURSIVE Clamped(_, _)
Clamped(e, x) ==
    CASE e.kind = "literal" -> e.value
      [] e.kind = "variable" -> x
      [] OTHER -> LET values == {Clamped(a, x) : a \in ToSet(e.args)} IN IF e.method = "min" THEN Min(values) ELSE Max(values)
IsGlobalMath(e) == e.binding # "enclosing"
IsVariable(e) == e.kind = "variable" \/ (e.kind = "call" /\ \E a \in ToSet(e.args) : a.kind = "variable")
ClampsAreConstant ==
    Visited(ClampId) =>
        LET inner == {a \in ToSet(node.args) : a.kind = "call"}
            constant == \A x, y \in -4..4 : Clamped(node, x) = Clamped(node, y)
        IN  /\ reports # {} => constant /\ \A e \in {node} \cup inner : IsGlobalMath(e)
            /\ constant /\ Len(node.args) = 2 /\ inner # {} =>
                  \/ reports # {}
                  \/ \E e \in {node} \cup inner : e.binding # "none"
                  \/ \E e \in inner : Len(e.args) # 2 \/ ~IsVariable(e)

(* Literals are what they are written as.                                  *)
NumbersAreAsWritten == BinariesAreExact /\ DecimalsAreKept /\ ClampsAreConstant
=============================================================================
