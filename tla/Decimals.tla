------------------------------ MODULE Decimals ------------------------------
(***************************************************************************)
(* Numbers as text, in datetime.zig: how paddedInt and nanoseconds read    *)
(* digits, and how paddingTwoDigits and formatIntBuf with a width write    *)
(* them.  A character is a string of length one.                           *)
(***************************************************************************)
EXTENDS Integers, Sequences

Digit  == <<"0", "1", "2", "3", "4", "5", "6", "7", "8", "9">>
Digits == {Digit[i] : i \in DOMAIN Digit}

DigitValue(c) == CHOOSE n \in 0 .. 9 : Digit[n + 1] = c

(* std.math.pow *)
Power10[n \in Nat] == IF n = 0 THEN 1 ELSE 10 * Power10[n - 1]

(* The number of the first digits of s, for all beginnings of s. *)
Number(s) ==
    LET value[i \in 0 .. Len(s)] ==
            IF i = 0 THEN 0 ELSE 10 * value[i - 1] + DigitValue(s[i])
    IN  value[Len(s)]

(* How many digits n has, or the given number if that is more. *)
Size(width, n) ==
    CHOOSE k \in width .. width + n : /\ n < Power10[k]
                                      /\ \A j \in width .. k - 1 : n >= Power10[j]

(* n with the given number of digits at least. *)
Padded(width, n) ==
    [i \in 1 .. Size(width, n) |->
        Digit[((n \div Power10[Size(width, n) - i]) % 10) + 1]]
=============================================================================
