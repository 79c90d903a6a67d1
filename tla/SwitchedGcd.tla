------------------------------ MODULE SwitchedGcd ------------------------------
(***************************************************************************)
(* The programs of lab5: gcd in two libraries, of which prog2.c loads one  *)
(* at run time and changes it when the user asks (prog1.c is linked with   *)
(* the first and never changes it).  Each round of the libraries' loops is *)
(* a step.                                                                 *)
(*                                                                         *)
(* An int is the integers from -IntMax - 1 to IntMax.  Pi, a computation   *)
(* on floating point numbers, is left out.                                 *)
(***************************************************************************)
EXTENDS Integers, FiniteSetsExt

CONSTANTS
  Arguments,     \* what the user may type for A and B
  IntMax         \* INT_MAX

ASSUME SwitchedGcdAssumption ==
  IntMax \in Nat /\ Arguments \subseteq (-IntMax)..IntMax

VARIABLES
  cur_lib,       \* 0 or 1
  loaded,        \* the library whose functions gcdFunc points to
  call,          \* "none", "loop", "returned", "killed" by a division by zero,
                 \* "overflow", "exit" when a library could not be loaded
  A, B,          \* the arguments, changed by the first library
  x,             \* of the second library
  arguments,     \* history: the arguments of the call
  result         \* what the call has returned

gcdVars == <<cur_lib, loaded, call, A, B, x, arguments, result>>

\* The remainder of C, which has the sign of n.
Rem(n, d) == LET Abs(k) == IF k < 0 THEN -k ELSE k
                 r == Abs(n) % Abs(d)
             IN  IF n < 0 THEN -r ELSE r

Overflow == -IntMax - 2

GcdInit ==
  /\ cur_lib = 0 /\ loaded = 0
  /\ call = "none"
  /\ A = 0 /\ B = 0 /\ x = 0 /\ arguments = <<0, 0>> /\ result = 0

\* dlclose, then dlopen and dlsym of the other library.
ChangeImplementation ==
  /\ call \in {"none", "returned"}
  /\ cur_lib' = IF cur_lib = 0 THEN 1 ELSE 0
  /\ \/ loaded' = cur_lib' /\ call' = "none"
     \/ UNCHANGED loaded /\ call' = "exit"
  /\ UNCHANGED <<A, B, x, arguments, result>>

\* The smaller of the arguments.
FirstTried(a, b) == IF a > b THEN b ELSE a

CallGcd ==
  /\ call \in {"none", "returned"}
  /\ call' = "loop"
  /\ \E a, b \in Arguments :
       A' = a /\ B' = b /\ x' = FirstTried(a, b) /\ arguments' = <<a, b>>
  /\ UNCHANGED <<cur_lib, loaded, result>>

\* Variant: the remainder is that of the first division.
EuclidRemainder(a, b) == IF a < b THEN a ELSE a - b

\* What is left of a division.
Remainder(a, b) == Rem(a, b)

\* lib1.c
Euclid ==
  /\ call = "loop" /\ loaded = 0
  /\ \/ /\ B = 0
        /\ result' = A /\ call' = "returned"
        /\ UNCHANGED <<A, B>>
     \/ /\ B # 0
        /\ A' = B /\ B' = Remainder(A, B)
        /\ UNCHANGED <<result, call>>
  /\ UNCHANGED <<cur_lib, loaded, x, arguments>>

\* Variant: a divisor of one of the arguments is enough.
DividesEither(n, a, b) == Rem(a, n) = 0 \/ Rem(b, n) = 0

\* The condition of the loop, turned round.
DividesBoth(n, a, b) == Rem(a, n) = 0 /\ Rem(b, n) = 0

NextTried(n) == n - 1

\* lib2.c
Naive ==
  /\ call = "loop" /\ loaded = 1
  /\ \/ /\ x = 0
        /\ call' = "killed"
        /\ UNCHANGED <<x, result>>
     \/ /\ x # 0 /\ DividesBoth(x, A, B)
        /\ result' = x /\ call' = "returned"
        /\ UNCHANGED x
     \/ /\ x # 0 /\ ~DividesBoth(x, A, B)
        /\ x' = NextTried(x)
        /\ call' = IF x' < -IntMax - 1 THEN "overflow" ELSE "loop"
        /\ UNCHANGED result
  /\ UNCHANGED <<cur_lib, loaded, A, B, arguments>>

Round == Euclid \/ Naive

GcdNext == ChangeImplementation \/ CallGcd \/ Round

GcdSpec == GcdInit /\ [][GcdNext]_gcdVars

-----------------------------------------------------------------------------
GcdTypeOK ==
  /\ {cur_lib, loaded} \subseteq {0, 1}
  /\ call \in {"none", "loop", "returned", "killed", "overflow", "exit"}
  /\ {A, B, result} \subseteq (-IntMax)..IntMax
  /\ x \in Overflow..IntMax
  /\ arguments \in Arguments \X Arguments \cup {<<0, 0>>}

Positive == arguments[1] > 0 /\ arguments[2] > 0

CommonDivisors(a, b) == {d \in 1..IntMax : a % d = 0 /\ b % d = 0}

\* Whichever library is loaded, the result for positive arguments is their
\* greatest common divisor; and a call with such arguments neither dies nor
\* overflows.
SameResult ==
  Positive /\ call # "loop" /\ call # "exit" =>
    /\ call \in {"none", "returned"}
    /\ call = "returned" => result = Max(CommonDivisors(arguments[1], arguments[2]))

=============================================================================
