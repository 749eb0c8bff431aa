------------------------------- MODULE HexArg -------------------------------
(***************************************************************************)
(* How VATranslate and vm_inspector read an address: strtol() stops at     *)
(* LONG_MAX, so strtolu() takes 8 off the first of eight hex digits and    *)
(* puts the top bit back.  A character is its ASCII code.                  *)
(***************************************************************************)
EXTENDS Naturals, Sequences

CONSTANT HexDigits   \* the hex digits of an unsigned long: 8 in the program

ASSUME HexDigitsOK == HexDigits \in Nat \ {0}

Char(first, n) == first .. first + n - 1
Digit   == Char(48, 10)      \* '0' .. '9'
Capital == Char(65, 6)       \* 'A' .. 'F'
Small   == Char(97, 6)       \* 'a' .. 'f'

DigitValue(c) == IF c \in Small THEN c - 87 ELSE IF c \in Capital THEN c - 55 ELSE c - 48

\* What the first k of a string of hex digits stand for, for every k.
PrefixValue(s) ==
    LET v[k \in 0..Len(s)] == IF k = 0 THEN 0 ELSE 16 * v[k - 1] + DigitValue(s[k])
    IN  v

HexValue(s) == PrefixValue(s)[Len(s)]

\* 1 << 31, in hex "80000000".
ULONG_TOP == HexValue([k \in 1..HexDigits |-> IF k = 1 THEN 56 ELSE 48])
LONG_MAX  == ULONG_TOP - 1

\* strtol(s, NULL, 16)
strtol(s) == IF HexValue(s) > LONG_MAX THEN LONG_MAX ELSE HexValue(s)

\* Mutant: capitals are taken for digits.
lower_digits(c) == IF c >= 97 THEN c - 97 + 50 ELSE c - 8

\* For a hex digit of 8 or more, the digit for 8 less.
lower(c) ==
    IF c >= 97 THEN c - 97 + 50
    ELSE IF c >= 65 THEN c - 65 + 50
    ELSE c - 8

strtolu(s) ==
    LET flag == Len(s) = HexDigits /\ s[1] >= 56
    IN  IF flag THEN strtol([s EXCEPT ![1] = lower(s[1])]) + ULONG_TOP ELSE strtol(s)

\* The strings a program may be given.
HexStrings == UNION {[1..n -> Digit \cup Capital \cup Small] : n \in 1..HexDigits}

AllConverted == \A s \in HexStrings : strtolu(s) = HexValue(s)

=============================================================================
