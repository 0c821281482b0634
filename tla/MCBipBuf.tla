------------------------------ MODULE MCBipBuf ------------------------------
(***************************************************************************)
(* BipBuf for TLC, with next_power_of_two as the shifts compute it checked *)
(* against the least power of two that BipBuf uses.                        *)
(***************************************************************************)
EXTENDS BipBuf, Bitwise

\* x |= x >> shift
Smear(x, shift) == x | shiftR(x, shift)

next_power_of_two(x) ==
    1 + Smear(Smear(Smear(Smear(Smear(x - 1, 1), 2), 4), 8), 16)

\* Every small argument, and the neighbours of larger powers.
Arguments == (1..300) \cup UNION {{2^k - 1, 2^k, 2^k + 1} : k \in {12, 16, 17, 29}}

\* The shifts of next_power_of_two compute the least power of two that is
\* not less than the argument.
ASSUME RoundsUp ==
    \A x \in Arguments : next_power_of_two(x) = NextPowerOfTwo(x)

=============================================================================
