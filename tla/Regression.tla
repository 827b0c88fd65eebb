----------------------------- MODULE Regression -----------------------------
(***************************************************************************)
(* Interpolation::line and Interpolation::parabola                         *)
(* (crs/math/interpolation.cpp): the curve through two or three points,    *)
(* and the least-squares fit of any number of them, built at once or point *)
(* by point from running sums.  Numbers are exact fractions; what would be *)
(* infinite or not a number has the denominator 0.                         *)
(***************************************************************************)
EXTENDS Integers, Sequences, SequencesExt, FiniteSetsExt

CONSTANTS Abscissae, Ordinates,
          MaxFit,         \* bound: points of a fit
          MaxBefore       \* bound: points of a fit before a curve is laid through others

VARIABLES
  curve,    \* "line" or "parabola"
  cf,       \* cf [0], cf [1] and, of a parabola, cf [2]
  sums,     \* b00, b01, b02, b12, b22, c0, c1, c2
  fitted,   \* history: the points of the fit
  through   \* history: the points the curve was laid through, when that was the last call
regressionVars == <<curve, cf, sums, fitted, through>>

DataPoints == Abscissae \X Ordinates
Size == IF curve = "line" THEN 2 ELSE 3

-----------------------------------------------------------------------------
(* Fractions.                                                              *)

Gcd[p \in Nat \X Nat] == IF p[2] = 0 THEN p[1] ELSE Gcd[<<p[2], p[1] % p[2]>>]

Magnitude(n) == IF n < 0 THEN -n ELSE n

NotANumber == <<0, 0>>
Over(n, d) ==
  IF d = 0 THEN NotANumber
  ELSE LET g == Gcd[<<Magnitude(n), Magnitude(d)>>]
           sign == IF d < 0 THEN -1 ELSE 1
       IN  <<sign * (n \div g), Magnitude(d) \div g>>

Whole(n) == <<n, 1>>
Plus(a, b) == Over(a[1] * b[2] + b[1] * a[2], a[2] * b[2])
Minus(a, b) == Plus(a, <<-b[1], b[2]>>)
Times(a, b) == Over(a[1] * b[1], a[2] * b[2])
By(a, b) == IF b[2] = 0 THEN NotANumber ELSE Over(a[1] * b[2], a[2] * b[1])

\* polynom::func.
Func(c, x) ==
  LET terms == [i \in DOMAIN c |-> Times(c[i], Whole(IF i = 1 THEN 1 ELSE x^(i - 1)))]
  IN  FoldLeft(Plus, Whole(0), terms)

-----------------------------------------------------------------------------
(* Through points.                                                         *)

LineThrough(p) ==
  LET c1 == Over(p[1][2] - p[2][2], p[1][1] - p[2][1])
  IN  <<Minus(Whole(p[2][2]), Times(c1, Whole(p[2][1]))), c1>>

ParabolaThrough(p) ==
  LET x(i) == Whole(p[i][1])
      y(i) == Whole(p[i][2])
      o == Plus(x(1), x(2))
      square == Times(x(3), x(3))
      q == Minus(x(3), By(square, o))
      r == Times(x(1), x(1))
      s == By(Minus(y(1), y(2)), Minus(r, Times(x(2), x(2))))
      t == Minus(y(3), Times(s, square))
      c1 == By(Minus(Minus(y(1), Times(s, r)), t), Minus(Minus(x(1), By(r, o)), q))
  IN  <<Minus(t, Times(c1, q)), c1, Minus(s, By(c1, o))>>

\* The sums of a fit stay.
IpBuild(p) ==
  /\ Len(p) = Size /\ Len(fitted) <= MaxBefore
  /\ cf' = IF curve = "line" THEN LineThrough(p) ELSE ParabolaThrough(p)
  /\ through' = p
  /\ UNCHANGED <<curve, sums, fitted>>

-----------------------------------------------------------------------------
(* Least squares.                                                          *)

NoSums == [b00 |-> 0, b01 |-> 0, b02 |-> 0, b12 |-> 0, b22 |-> 0, c0 |-> 0, c1 |-> 0, c2 |-> 0]

\* line::regressAddPoint and the sums a parabola adds.
WithPoint(u, p) ==
  LET x == p[1]
      y == p[2]
  IN  [b00 |-> u.b00 + 1, b01 |-> u.b01 + x, b02 |-> u.b02 + x * x, b12 |-> u.b12 + x^3,
       b22 |-> u.b22 + x^4, c0 |-> u.c0 + y, c1 |-> u.c1 + x * y, c2 |-> u.c2 + x * x * y]

\* regressBuild: from nothing.
SumsOf(ps) == FoldLeft(WithPoint, NoSums, ps)

S(u) == u.c1 * u.b00 - u.c0 * u.b01
Q(u) == u.b02 * u.b00 - u.b01 * u.b01
P(u) == u.b12 * u.b00 - u.b01 * u.b02

LineOf(u) ==
  LET c1 == Over(S(u), Q(u))
  IN  <<By(Minus(Whole(u.c0), Times(c1, Whole(u.b01))), Whole(u.b00)), c1>>

\* Fault: the slope of the line stays.
IncrementedHalf(u, c) ==
  LET r == Over(P(u), Q(u))
      c2 == By(Minus(Whole(u.c2 * u.b00 - u.c0 * u.b02), Times(Whole(S(u)), r)),
               Minus(Whole(u.b22 * u.b00 - u.b02 * u.b02), Times(Whole(P(u)), r)))
  IN  <<Minus(c[1], By(Times(c2, Whole(u.b02)), Whole(u.b00))), c[2], c2>>

\* parabola::incrementCoefficients.
Incremented(u, c) ==
  LET r == Over(P(u), Q(u))
      c2 == By(Minus(Whole(u.c2 * u.b00 - u.c0 * u.b02), Times(Whole(S(u)), r)),
               Minus(Whole(u.b22 * u.b00 - u.b02 * u.b02), Times(Whole(P(u)), r)))
  IN  <<Minus(c[1], By(Times(c2, Whole(u.b02)), Whole(u.b00))), Minus(c[2], Times(c2, r)), c2>>

Coefficients(u) == IF curve = "line" THEN LineOf(u) ELSE Incremented(u, LineOf(u))

RegressBuild(ps) ==
  /\ sums' = SumsOf(ps) /\ cf' = Coefficients(SumsOf(ps))
  /\ fitted' = ps /\ through' = <<>>
  /\ UNCHANGED curve

RegressAddPoint(p) ==
  /\ Len(fitted) < MaxFit
  /\ sums' = WithPoint(sums, p) /\ cf' = Coefficients(WithPoint(sums, p))
  /\ fitted' = Append(fitted, p) /\ through' = <<>>
  /\ UNCHANGED curve

-----------------------------------------------------------------------------
Init ==
  /\ \/ curve = "line" /\ cf = <<Whole(0), Whole(1)>>
     \/ curve = "parabola" /\ cf = <<Whole(0), Whole(1), Whole(0)>>
  /\ sums = NoSums /\ fitted = <<>> /\ through = <<>>

Next ==
  \/ \E n \in 2..3 : \E p \in [1..n -> DataPoints] : IpBuild(p)
  \/ \E p, q \in DataPoints : RegressBuild(<<p, q>>)
  \/ \E p \in DataPoints : RegressAddPoint(p)

Spec == Init /\ [][Next]_regressionVars

-----------------------------------------------------------------------------
AbscissaeOf(ps) == {ps[i][1] : i \in DOMAIN ps}
Sum(ps, f(_)) == FoldLeft(LAMBDA n, p : Plus(n, f(p)), Whole(0), ps)
Residual(p) == Minus(Whole(p[2]), Func(cf, p[1]))

\* Where the code divides by zero: two points of a parabola on both sides of zero.
Opposite(p) == curve = "parabola" /\ p[1][1] + p[2][1] = 0

\* A curve that was laid through points with different abscissae passes them (ipBuild).
PassesThrough ==
  through # <<>> /\ Cardinality(AbscissaeOf(through)) = Size /\ ~Opposite(through) =>
    \A i \in DOMAIN through : Residual(through[i]) = Whole(0)

\* A fit of enough points, whether they came at once or one by one and whatever was
\* built between them, has the least squares up to a constant: its residuals vary
\* neither with the abscissa nor, of a parabola, with its square (regressBuild,
\* regressAddPoint).
ShapeFits ==
  through = <<>> /\ Cardinality(AbscissaeOf(fitted)) >= Size =>
    \A k \in 1..(Size - 1) :
      LET n == Whole(Len(fitted))
          power(p) == Whole(p[1]^k)
      IN  Times(n, Sum(fitted, LAMBDA p : Times(power(p), Residual(p))))
            = Times(Sum(fitted, power), Sum(fitted, Residual))

\* The residuals of a line have no mean.
LineFits ==
  curve = "line" /\ through = <<>> /\ Cardinality(AbscissaeOf(fitted)) >= 2 =>
    Sum(fitted, Residual) = Whole(0)

CurveFits == PassesThrough /\ ShapeFits /\ LineFits

\* "coefficients bug fixed" (interpolation.cpp:3): nor have those of a parabola.
ParabolaFits ==
  curve = "parabola" /\ through = <<>> /\ Cardinality(AbscissaeOf(fitted)) >= 3 =>
    Sum(fitted, Residual) = Whole(0)
=============================================================================
