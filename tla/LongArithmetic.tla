---------------------------- MODULE LongArithmetic ----------------------------
(***************************************************************************)
(* llMulDiv and Int64x32Div32 (baseclasses arithutil.cpp), (a * b + d) / c *)
(* with a product of twice the width, put together from half-width digits. *)
(*                                                                         *)
(* A DWORD has W bits here, and a LONGLONG 2 * W; the arguments are those  *)
(* near the places where a digit or the sign changes.                      *)
(***************************************************************************)
EXTENDS Integers

CONSTANT W      \* bound: the bits of a DWORD, 32 in the code

WAssumption == W \in Nat /\ W > 1

\* Powers of two, by doubling.
Power[n \in 0..(2 * W)] == IF n = 0 THEN 1 ELSE 2 * Power[n - 1]

B == Power[W]   \* of a digit, a DWORD
D == B * B      \* of a DWORDLONG

VARIABLES args, done, long, short
vars == << args, done, long, short >>

Near(places, size) ==
    { x \in { p + e : p \in places, e \in -1..1 } : x >= -(size \div 2) /\ x < size \div 2 }
LongLongs == Near({ -(D \div 2), -B, 0, B \div 2, B, D \div 4, D \div 2 }, D)
Longs     == Near({ -(B \div 2), 0, B \div 2 }, B)

-----------------------------------------------------------------------------
Lo(x) == x % B
Hi(x) == x \div B
Abs(x, size) == (IF x >= 0 THEN x ELSE -x) % size
\* An unsigned number read as a signed one.
Signed(x) == IF x >= D \div 2 THEN x - D ELSE x
Least    == -(D \div 2)
Greatest == D \div 2 - 1

\* d, or -d for a negative product, as a long number of the given size.
Extended(d, bSign, size) == (IF bSign THEN -d ELSE d) % size

\* The magnitude of the sum of the product and d, and whether it is negative.
Magnitude_KeepSign(p, d, bSign, size) ==    \* mutated form: the sum keeps the product's sign
    LET sum == (p + Extended(d, bSign, size)) % size IN
    [p |-> IF sum >= size \div 2 THEN size - sum ELSE sum, bSign |-> bSign]

Magnitude(p, d, bSign, size) ==
    LET sum == (p + Extended(d, bSign, size)) % size IN
    IF sum >= size \div 2 THEN [p |-> size - sum, bSign |-> ~bSign]
                          ELSE [p |-> sum, bSign |-> bSign]

WithSign(r, bSign) == IF bSign THEN Signed((-r) % D) ELSE Signed(r % D)

\* Long multiplication; the middle sum must fit.
Product(ua, ub) ==
    LET low == Lo(ua) * Lo(ub)
        x   == (Lo(ua) * Hi(ub) + Hi(ua) * Lo(ub) + Hi(low)) % D
    IN  ((Hi(ua) * Hi(ub) + Hi(x)) % D) * D + Lo(x) * B + Lo(low)

\* Division by a divisor of one digit: two digits at a time.
ShortDivide(p, uc) ==
    LET dividend == Lo(p \div D) * B + Hi(p % D) IN
    ((dividend \div uc) % B) * B + ((dividend % uc) * B + Lo(p)) \div uc

\* Long division: one bit at a time, the quotient is shifted in.
LongDivide(p, uc) ==
    LET step[n \in 0..(2 * W)] ==
          IF n = 0 THEN [p |-> p, q |-> 0]
          ELSE LET was  == step[n - 1]
                   twice == (2 * was.p) % (D * D)
               IN  IF uc <= twice \div D THEN [p |-> twice - uc * D, q |-> 2 * was.q + 1]
                                         ELSE [p |-> twice, q |-> 2 * was.q]
    IN  step[2 * W].q

llMulDiv(a, b, c, d) ==
    LET uc    == Abs(c, D)
        sum   == Magnitude(Product(Abs(a, D), Abs(b, D)), d, (a < 0) # (b < 0), D * D)
        bSign == sum.bSign # (c < 0)
        p1    == sum.p \div D
    IN  IF uc <= p1 THEN IF bSign THEN Least ELSE Greatest
        ELSE WithSign(CASE p1 = 0     -> sum.p \div uc
                        [] p1 # 0 /\ Hi(uc) = 0 -> ShortDivide(sum.p, uc)
                        [] OTHER      -> LongDivide(sum.p, uc), bSign)

\* The product of three digits.
Int64x32Div32(a, b, c, d) ==
    LET ua    == Abs(a, D)   ub == Abs(b, B)   uc == Abs(c, B)
        low   == Lo(ua) * ub
        x     == Hi(ua) * ub + Hi(low)
        p     == Hi(x) * D + Lo(x) * B + Lo(low)
        sum   == Magnitude(p, d, (a < 0) # (b < 0), D * B)
        bSign == sum.bSign # (c < 0)
        p1    == sum.p \div D
    IN  IF uc <= p1 THEN IF bSign THEN Least ELSE Greatest
        ELSE WithSign(ShortDivide(sum.p, uc), bSign)

-----------------------------------------------------------------------------
Asked(arguments) == args \in arguments /\ done = FALSE /\ long = 0 /\ short = 0

Init == Asked([a : LongLongs, b : LongLongs, c : LongLongs, d : LongLongs])

Small == { args.b, args.c, args.d } \subseteq Longs

Compute ==
    /\ ~done /\ done' = TRUE
    /\ long' = llMulDiv(args.a, args.b, args.c, args.d)
    /\ short' = IF Small THEN Int64x32Div32(args.a, args.b, args.c, args.d) ELSE 0
    /\ UNCHANGED args

Next == Compute
Spec == Init /\ [][Next]_vars

-----------------------------------------------------------------------------
\* Division of C, towards zero.
Quotient(n, c) ==
    LET q == Abs(n, D * D * D) \div Abs(c, D * D) IN IF (n < 0) # (c < 0) THEN -q ELSE q

Numerator == args.a * args.b + args.d

RightFor(r) ==
    IF args.c = 0 THEN /\ r \in { Least, Greatest }
                       /\ Numerator # 0 => (r = Least) = (Numerator < 0)
    ELSE LET q == Quotient(Numerator, args.c) IN
         /\ q \in Least..Greatest => r = q
         /\ q >= D => r = Greatest
         /\ q <= -D => r = Least

(* Both functions give (a * b + d) / c, rounded towards zero, whenever it   *)
(* can be represented: no carry is lost in the long multiplication, in the  *)
(* addition of d, whose sign may turn that of the sum, or in the divisions. *)
(* A zero divisor and a quotient of more than the width are answered by the *)
(* end of the range on the right side.                                      *)
QuotientsRight ==
    done => RightFor(long) /\ (Small => RightFor(short))

(* "This will catch c == 0 and overflow": no result is on the wrong side of *)
(* zero.                                                                   *)
OverflowCaught ==
    done /\ args.c # 0 =>
        LET q == Quotient(Numerator, args.c) IN
        /\ q > Greatest => long = Greatest
        /\ q < Least => long = Least

==============================================================================
