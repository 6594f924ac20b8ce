-------------------------------- MODULE Quad --------------------------------
(* The 64-bit arithmetic the compiler calls for (common/gcc-millicode):     *)
(* division by Knuth's Algorithm D (qdivrem.c, and divdi3.c, moddi3.c for   *)
(* signed operands) and multiplication from half-width products (muldi3.c). *)
(*                                                                          *)
(* Every width follows from HALF_BITS, which is 16 in the code: a digit has *)
(* HALF_BITS bits, an unsigned int twice as many and a long long four times *)
(* as many; all arithmetic wraps at its width.  A pass of the loop of       *)
(* __qdivrem is a step; "x" and "y" are the operands.                       *)
EXTENDS Integers, Sequences, FiniteSets, FiniteSetsExt

CONSTANT HALF_BITS

VARIABLES x, y, div

vars == <<x, y, div>>

B == 2^HALF_BITS
Int32 == B * B
Int64 == Int32 * Int32

HHALF(t) == t \div B
LHALF(t) == t % B
LHUP(t) == (t * B) % Int32
COMBINE(a, b) == a * B + b
Hi(ll) == ll \div Int32
Lo(ll) == ll % Int32
Word(hi, lo) == hi * Int32 + lo

\* The digits of a long long, the most significant first, with a zero before.
Digits(ll) == [i \in 0..4 |-> IF i = 0 THEN 0 ELSE (ll \div B^(4 - i)) % B]
Number(p, first, last) ==
    LET n[i \in first-1..last] == IF i < first THEN 0 ELSE n[i-1] * B + p[i]
    IN  n[last]
LeadingZeros(ll) == Min({i \in 1..4 : Digits(ll)[i] # 0}) - 1

------------------------------------------------------------------------------
(* __qdivrem.  "u" and "v" are the digits from the first that is not zero,    *)
(* u[0] one digit before; "q" the quotient digits found so far.               *)

Zero5 == [i \in 0..4 |-> 0]
Idle == [at |-> "start", u |-> Zero5, v |-> Zero5, q |-> Zero5,
         m |-> 0, n |-> 0, d |-> 0, j |-> 0, quot |-> 0, rem |-> 0]

Init == /\ x \in 0..Int64-1 /\ y \in 0..Int64-1
        /\ div = Idle

Result(quot, rem) == div' = [Idle EXCEPT !.at = "done", !.quot = quot, !.rem = rem]

\* The divisor has one digit: a digit of the quotient at a time.
ShortDivision(ull, t) ==
    LET u == Digits(ull)
        rbj[i \in 1..4] == IF i = 1 THEN u[1] ELSE COMBINE(rbj[i-1] % t, u[i])
    IN  Result(Number([i \in 0..4 |-> IF i = 0 THEN 0 ELSE rbj[i] \div t], 1, 4), rbj[4] % t)

\* shl, on p[0] to p[len].
shl(p, len, sh) ==
    [i \in 0..4 |-> IF i < len THEN LHALF(p[i] * 2^sh) + (p[i+1] \div 2^(HALF_BITS - sh))
                    ELSE IF i = len THEN LHALF(p[i] * 2^sh)
                    ELSE p[i]]

\* The special cases (a zero divisor traps), and D1: multiply both by 2^d so that v[1] >= B/2.
Start ==
    LET n == 4 - LeadingZeros(y)
        m == 4 - n - LeadingZeros(x)
        u == [i \in 0..4 |-> IF i + LeadingZeros(x) \in 1..4
                             THEN Digits(x)[i + LeadingZeros(x)] ELSE 0]
        v == [i \in 0..4 |-> IF i + 4 - n \in 1..4 THEN Digits(y)[i + 4 - n] ELSE 0]
        d == Min({k \in 0..HALF_BITS : v[1] * 2^k >= B \div 2})
        vs == shl([i \in 0..4 |-> IF i < 4 THEN v[i+1] ELSE 0], n - 1, d)
    IN  /\ div.at = "start" /\ y # 0
        /\ \/ x < y /\ Result(0, x)
           \/ x >= y /\ n = 1 /\ ShortDivision(x, v[1])
           \/ /\ x >= y /\ n > 1
              /\ div' = [Idle EXCEPT !.at = "loop", !.m = m, !.n = n, !.d = d,
                             !.u = IF d > 0 THEN shl(u, m + n, d) ELSE u,
                             !.v = IF d > 0 THEN [i \in 0..4 |-> IF i = 0 THEN 0 ELSE vs[i-1]]
                                   ELSE v]
        /\ UNCHANGED <<x, y>>

\* D3: the estimate of the next digit, lowered while the second digit of the
\* divisor shows it to be too large.
Qhat(u, v, j) ==
    LET lower[q \in 0..B] ==
            [r \in 0..2*B |->
                IF r < B /\ v[2] * q > COMBINE(r, u[j+2])
                THEN lower[q-1][r + v[1]] ELSE q]
        nn == COMBINE(u[j], u[j+1])
    IN  IF u[j] = v[1] THEN lower[B-1][u[j+1] + v[1]]
        ELSE lower[nn \div v[1]][nn % v[1]]

\* D4: u[j..j+n] minus qhat times v, and whether that borrows.
Borrow(t) == (B - HHALF(t)) % B
Subtract(u, v, j, n, qhat) ==
    LET t[i \in 0..n] ==
            IF i = 0 THEN (u[j] - Borrow(t[1])) % Int32
            ELSE (u[i+j] - v[i] * qhat - (IF i = n THEN 0 ELSE Borrow(t[i+1]))) % Int32
    IN  [u |-> [i \in 0..4 |-> IF i \in j..j+n THEN LHALF(t[i-j]) ELSE u[i]],
         borrow |-> HHALF(t[0]) # 0]

\* D6: v is added back.
AddBack(u, v, j, n) ==
    LET t[i \in 1..n] == (IF i = n THEN 0 ELSE HHALF(t[i+1])) + u[i+j] + v[i]
    IN  [i \in 0..4 |-> IF i \in j+1..j+n THEN LHALF(t[i-j])
                        ELSE IF i = j THEN LHALF(u[j] + HHALF(t[1]))
                        ELSE u[i]]

\* D3 to D7: one digit of the quotient.
Step ==
    LET j == div.j
        qhat == Qhat(div.u, div.v, j)
        sub == Subtract(div.u, div.v, j, div.n, qhat)
    IN  /\ div.at = "loop" /\ j <= div.m
        /\ div' = [div EXCEPT !.j = j + 1,
                       !.u = IF sub.borrow THEN AddBack(sub.u, div.v, j, div.n) ELSE sub.u,
                       !.q[j] = IF sub.borrow THEN qhat - 1 ELSE qhat]
        /\ UNCHANGED <<x, y>>

\* Mutant of Finish: the remainder is not shifted back.
FinishShifted ==
    /\ div.at = "loop" /\ div.j > div.m
    /\ Result(Number(div.q, 0, div.m), Number(div.u, 0, div.m + div.n))
    /\ UNCHANGED <<x, y>>

\* The remainder is shifted back, the quotient put together.
Finish ==
    LET u == div.u
        d == div.d
        low == div.m + 1..div.m + div.n
        r == IF d = 0 THEN u
             ELSE [i \in 0..4 |->
                     IF i \in low THEN (u[i] \div 2^d) + LHALF(u[i-1] * 2^(HALF_BITS - d))
                     ELSE IF i = div.m THEN 0 ELSE u[i]]
    IN  /\ div.at = "loop" /\ div.j > div.m
        /\ Result(Number(div.q, 0, div.m), Number(r, IF div.m + div.n = 4 THEN 1 ELSE 0, div.m + div.n))
        /\ UNCHANGED <<x, y>>

Next == Start \/ Step \/ Finish

Spec == Init /\ [][Next]_vars

------------------------------------------------------------------------------
(* Signed operands.                                                           *)

Neg(ll) == (Int64 - ll) % Int64
IsNeg(ll) == ll >= Int64 \div 2
Signed(ll) == IF IsNeg(ll) THEN ll - Int64 ELSE ll
Abs(ll) == IF IsNeg(ll) THEN Neg(ll) ELSE ll

\* __divdi3 and __moddi3, given what __qdivrem makes of the absolute values.
__divdi3(a, b, uq) == IF IsNeg(a) # IsNeg(b) THEN Neg(uq) ELSE uq
__moddi3(a, ur) == IF IsNeg(a) THEN Neg(ur) ELSE ur

------------------------------------------------------------------------------
(* Multiplication.                                                            *)

\* __lmulq: two unsigned ints to a long long.
__lmulq(u, v) ==
    LET u1 == HHALF(u)  u0 == LHALF(u)  v1 == HHALF(v)  v0 == LHALF(v)
        low == u0 * v0
        high == u1 * v1
        mid == (IF u1 >= u0 THEN u1 - u0 ELSE u0 - u1) * (IF v0 >= v1 THEN v0 - v1 ELSE v1 - v0)
        neg == (u1 < u0) # (v0 < v1)
        \* add (or subtract) to the low word, carrying into the high one
        plus(p, h, l) == LET s == (p[2] + l) % Int32
                         IN  <<(p[1] + h + IF s < p[2] THEN 1 ELSE 0) % Int32, s>>
        minus(p, h, l) == LET s == (p[2] - l) % Int32
                          IN  <<(p[1] - h - IF s > p[2] THEN 1 ELSE 0) % Int32, s>>
        p1 == <<high + HHALF(high), LHUP(high)>>
        p2 == IF neg THEN minus(p1, HHALF(mid), LHUP(mid)) ELSE plus(p1, HHALF(mid), LHUP(mid))
        p3 == plus(p2, HHALF(low), LHUP(low))
        p4 == plus(p3, 0, low)
    IN  IF u1 = 0 /\ v1 = 0 THEN low ELSE Word(p4[1], p4[2])

__muldi3(a, b) ==
    LET u == Abs(a)
        v == Abs(b)
        low == __lmulq(Lo(u), Lo(v))
        udiff == IF Hi(u) >= Lo(u) THEN Hi(u) - Lo(u) ELSE Lo(u) - Hi(u)
        vdiff == IF Lo(v) >= Hi(v) THEN Lo(v) - Hi(v) ELSE Hi(v) - Lo(v)
        negmid == (Hi(u) < Lo(u)) # (Lo(v) < Hi(v))
        mid == (udiff * vdiff) % Int32
        hi == (Hi(u) * Hi(v) + (IF negmid THEN -mid ELSE mid) + Lo(low) + Hi(low)) % Int32
        prod == IF Hi(u) = 0 /\ Hi(v) = 0 THEN low ELSE Word(hi, Lo(low))
    IN  IF IsNeg(a) # IsNeg(b) THEN Neg(prod) ELSE prod

------------------------------------------------------------------------------
(* Shifts, sums and comparison, from operations on the two words.             *)

INT_BITS == 2 * HALF_BITS
Lsh(w, sh) == (w * 2^sh) % Int32
Rsh(w, sh) == w \div 2^sh
SignedWord(w) == IF w >= Int32 \div 2 THEN w - Int32 ELSE w
Arsh(w, sh) == (SignedWord(w) \div 2^sh) % Int32

\* __ashldi3, which __lshldi3 repeats.
__ashldi3(a, shift) ==
    IF shift = 0 THEN a
    ELSE IF shift >= INT_BITS THEN Word(Lsh(Lo(a), shift - INT_BITS), 0)
    ELSE Word(Lsh(Hi(a), shift) + Rsh(Lo(a), INT_BITS - shift), Lsh(Lo(a), shift))

__ashrdi3(a, shift) ==
    IF shift = 0 THEN a
    ELSE IF shift >= INT_BITS
         THEN Word(Arsh(Arsh(Hi(a), INT_BITS - 1), 1), Arsh(Hi(a), shift - INT_BITS))
    ELSE Word(Arsh(Hi(a), shift), Rsh(Lo(a), shift) + Lsh(Hi(a), INT_BITS - shift))

__lshrdi3(a, shift) ==
    IF shift = 0 THEN a
    ELSE IF shift >= INT_BITS THEN Word(0, Rsh(Hi(a), shift - INT_BITS))
    ELSE Word(Rsh(Hi(a), shift), Rsh(Lo(a), shift) + Lsh(Hi(a), INT_BITS - shift))

__adddi3(a, b) ==
    LET low == (Lo(a) + Lo(b)) % Int32
    IN  Word((Hi(a) + Hi(b) + IF low < Lo(b) THEN 1 ELSE 0) % Int32, low)

__subdi3(a, b) ==
    LET low == (Lo(a) - Lo(b)) % Int32
    IN  Word((Hi(a) - Hi(b) - IF low > Lo(a) THEN 1 ELSE 0) % Int32, low)

Compare(ah, al, bh, bl) ==
    CASE ah < bh -> 0 [] ah > bh -> 2 [] ah = bh /\ al < bl -> 0
      [] ah = bh /\ al > bl -> 2 [] OTHER -> 1

__cmpdi2(a, b) == Compare(SignedWord(Hi(a)), Lo(a), SignedWord(Hi(b)), Lo(b))
__ucmpdi2(a, b) == Compare(Hi(a), Lo(a), Hi(b), Lo(b))

------------------------------------------------------------------------------
\* __qdivrem returns the quotient and the remainder, for every dividend and
\* every divisor but 0.
DivisionRight ==
    div.at = "done" => div.quot = x \div y /\ div.rem = x % y

\* The invariant of the loop: the digits found so far times the divisor, plus
\* what is left of the dividend, are the dividend, and what is left above the
\* digits to come is less than the divisor: no digit of the quotient is ever
\* out by one.
LoopInvariant ==
    div.at = "loop" =>
        LET v == Number(div.v, 1, div.n)
            left == Number(div.u, 0, div.m + div.n)
            found == Number([i \in 0..4 |-> IF i < div.j THEN div.q[i] ELSE 0], 0, div.m)
        IN  /\ found * v + left = x * 2^div.d
            /\ left < v * B^(div.m + 1 - div.j)
            /\ \A i \in 0..4 : div.q[i] < B

\* Signed division truncates toward zero and the remainder has the sign of the
\* dividend, so that quotient * divisor + remainder is the dividend, the most
\* negative number included, where the quotient may wrap.
SignedDivisionRight ==
    div.at = "start" /\ y # 0 =>
        LET q == __divdi3(x, y, Abs(x) \div Abs(y))
            r == __moddi3(x, Abs(x) % Abs(y))
        IN  /\ (Signed(q) * Signed(y) + Signed(r) - Signed(x)) % Int64 = 0
            /\ Signed(r) = 0 \/ (Signed(r) < 0) = (Signed(x) < 0)
            /\ Abs(r) < Abs(y)

\* __muldi3 is multiplication modulo 2^64, from __lmulq's exact products of
\* halves, whatever the signs and whichever middle term is negative.
MultiplicationRight ==
    div.at = "start" => __muldi3(x, y) = (x * y) % Int64

\* A shift by any number of bits less than a long long has moves the right bits
\* from one word to the other, the shifts by 0 and by one word included; sums
\* and differences carry between the words; comparisons of the words order the
\* whole numbers.
WordsRight ==
    div.at = "start" =>
        /\ y < 2 * INT_BITS =>
               /\ __ashldi3(x, y) = (x * 2^y) % Int64
               /\ __lshrdi3(x, y) = x \div 2^y
               /\ Signed(__ashrdi3(x, y)) = Signed(x) \div 2^y
        /\ __adddi3(x, y) = (x + y) % Int64
        /\ __subdi3(x, y) = (x - y) % Int64
        /\ __cmpdi2(x, y) = 1 + (IF Signed(x) > Signed(y) THEN 1 ELSE 0)
                              - (IF Signed(x) < Signed(y) THEN 1 ELSE 0)
        /\ __ucmpdi2(x, y) = 1 + (IF x > y THEN 1 ELSE 0) - (IF x < y THEN 1 ELSE 0)

=============================================================================
