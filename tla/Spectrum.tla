------------------------------ MODULE Spectrum ------------------------------
(***************************************************************************)
(* struct massSpectrum (crs/math/spectrum.cpp) and the measurement of its  *)
(* peak (crs/math/peakCenter.cpp): arrays that grow, an array of smoothed  *)
(* intensities that is as long as the spectrum was when it was smoothed,   *)
(* and the one-pass estimateGuess () beside the functions it combines.     *)
(*                                                                         *)
(* Intensities are integers; smoothed ones are multiplied by the width of  *)
(* the window, so that averages are exact.  mass, time and sigma have the  *)
(* size of intensity and are left out, and so are the numbers computed     *)
(* from them.  What is smoothed and measured is computed from the points   *)
(* when it is asked for; the state keeps how many points that was done     *)
(* with.  Indices start at 1.                                              *)
(***************************************************************************)
EXTENDS Integers, Sequences, FiniteSetsExt, SequencesExt

CONSTANTS Spectra,
          Intensities,
          Reserve,     \* 1000: the size of the arrays, and what they grow by
          HalfPoints,  \* (nFilterSize - 1) / 2
          Orderly,     \* TRUE: a spectrum is smoothed before it is measured or copied
          MaxPoints,   \* bound: points of all spectra together
          Short        \* a line that ends before its intensity

VARIABLES
  spectra,   \* of each: its points, the size of its arrays and of smoothIntensity
  given,     \* history: the intensities each was given since it was cleared
  intact     \* history: no array was left
spectrumVars == <<spectra, given, intact>>

Window == 2 * HalfPoints + 1

\* massSpectrum::massSpectrum.
Constructed == [points |-> <<>>, reserved |-> Reserve, smooth |-> 0]

Init ==
  /\ spectra = [s \in Spectra |-> Constructed]
  /\ given = [s \in Spectra |-> <<>>]
  /\ intact = TRUE

-----------------------------------------------------------------------------
(* The points.                                                             *)

\* Fault: the arrays grow when they are exceeded.
GrownLate(sp) ==
  [sp EXCEPT !.reserved = IF Len(sp.points) > @ THEN @ + Reserve ELSE @]

Grown(sp) ==
  [sp EXCEPT !.reserved = IF Len(sp.points) = @ THEN @ + Reserve ELSE @]

Added(sp, v) == Grown([sp EXCEPT !.points = Append(@, v)])

AddPoint(s, v) ==
  /\ spectra' = [spectra EXCEPT ![s] = Added(@, v)]
  /\ given' = [given EXCEPT ![s] = Append(@, v)]
  /\ intact' = (intact /\ Len(spectra[s].points) < spectra[s].reserved)

\* A stream of two lines; one without its intensity repeats that of the line before.
Read(s, line, next) ==
  LET v == IF line # Short THEN line ELSE 0
      w == IF next # Short THEN next ELSE v
      sp == Added(spectra[s], v)
  IN  /\ spectra' = [spectra EXCEPT ![s] = Added(sp, w)]
      /\ given' = [given EXCEPT ![s] = @ \o <<v, w>>]
      /\ intact' = (/\ intact /\ Len(sp.points) < sp.reserved
                    /\ Len(spectra[s].points) < spectra[s].reserved)

\* What was smoothed stays.
Clear(s) ==
  /\ spectra' = [spectra EXCEPT ![s].points = <<>>]
  /\ given' = [given EXCEPT ![s] = <<>>]
  /\ UNCHANGED intact

-----------------------------------------------------------------------------
(* Smoothing and background, over the points in the order they are visited. *)

InOrder(y) == [i \in DOMAIN y |-> i]

\* The ends from outside to inside, then the points between them.
EndsFirst(y) ==
  LET n == Len(y)
  IN  FlattenSeq([i \in 1..HalfPoints |-> <<i, n + 1 - i>>])
      \o SelectSeq(InOrder(y), LAMBDA i : i > HalfPoints /\ i <= n - HalfPoints)

\* fltMovingAverage: the ends are copied.
MovingAverage(y) ==
  [i \in DOMAIN y |->
     IF i \in (HalfPoints + 1)..(Len(y) - HalfPoints)
     THEN FoldLeft(+, 0, SubSeq(y, i - HalfPoints, i + HalfPoints))
     ELSE Window * y[i]]

\* The most frequent of the lower half of the intensities, if it is in their lower third.
ModeOf(y, order) ==
  LET values == SetToSortSeq(ToSet(y), <)
      size == Len(values)
      count(k) == Cardinality({j \in DOMAIN order : y[order[j]] = values[k]})
      lower == 1..Max({1, size \div 2})
      most == Min({k \in lower : \A l \in lower : count(l) <= count(k)})
  IN  IF y = <<>> \/ most > size \div 3 THEN 0 ELSE values[most]

Background(y) == ModeOf(y, InOrder(y))

\* Fault: an odd point at the end keeps its background.
CompensatedPairs(y, level) ==
  [i \in DOMAIN y |-> IF i <= 2 * (Len(y) \div 2) THEN y[i] - level ELSE y[i]]

Compensated(y, level) == [i \in DOMAIN y |-> y[i] - level]

DoCompensateBackground(s) ==
  LET level == Background(spectra[s].points)
  IN  /\ Orderly => spectra[s].points # <<>>
      /\ spectra' = [spectra EXCEPT ![s].points = Compensated(@, level)]
      /\ given' = [given EXCEPT ![s] = [i \in DOMAIN @ |-> @[i] - level]]
      /\ UNCHANGED intact

-----------------------------------------------------------------------------
(* The peak.                                                               *)

\* findMaximum.
Highest(y) == Min({i \in DOMAIN y : \A j \in DOMAIN y : y[j] <= y[i]})

\* The outermost points above a share of the maximum, or the maximum (measPeak).
Above(y, at, percent) == {i \in DOMAIN y : percent * y[at] < 100 * y[i]}
LevelLeft(y, at, percent) == Min({at} \cup Above(y, at, percent))
LevelRight(y, at, percent) == Max({at} \cup Above(y, at, percent))
MeasPeak(y, at, percent) == <<LevelLeft(y, at, percent), LevelRight(y, at, percent)>>

PeakCenter(y) ==
  LET at == Highest(y)
  IN  [at |-> at, value |-> y[at], height10 |-> MeasPeak(y, at, 10),
       height50 |-> MeasPeak(y, at, 50), height98 |-> MeasPeak(y, at, 98)]

\* What the two loops down the slopes leave of the indices they began with.
Slopes(y, at, percent, began) ==
  LET left == Above(y, at, percent) \cap 1..(at - 1)
      right == Above(y, at, percent) \ 1..at
  IN  <<IF left = {} THEN began[1] ELSE Min(left), IF right = {} THEN began[2] ELSE Max(right)>>

\* The highest point in the order of the pass; an equal one does not replace it.
Traced(y, order) == FoldLeft(LAMBDA best, i : IF y[best] < y[i] THEN i ELSE best, 1, order)

\* Fault: the background is not subtracted from the maximum.
LoweredSlopes(y, at, level) == [i \in DOMAIN y |-> IF i = at THEN y[i] ELSE y[i] - Window * level]

Lowered(y, at, level) == [i \in DOMAIN y |-> y[i] - Window * level]

\* One pass over the points, then one down each slope.  The indices at 98 % begin with
\* what they were: those at 10 % are set twice.
EstimateGuess(y, began98) ==
  LET averages == MovingAverage(y)
      level == ModeOf(y, EndsFirst(y))
      at == Traced(averages, EndsFirst(y))
      lowered == Lowered(averages, at, level)
  IN  [level |-> level, smooth |-> lowered, at |-> at, value |-> lowered[at],
       height10 |-> Slopes(lowered, at, 10, <<at, at>>),
       height50 |-> Slopes(lowered, at, 50, <<at, at>>),
       height98 |-> Slopes(lowered, at, 98, began98)]

-----------------------------------------------------------------------------
(* The array of smoothed intensities.                                      *)

Smoothed(sp) == sp.smooth >= Len(sp.points)

\* doSmoothing and estimateGuess: a new array, whose ends are written in any case.
Smooth(s) ==
  /\ Orderly => Len(spectra[s].points) >= HalfPoints
  /\ spectra' = [spectra EXCEPT ![s].smooth = Len(spectra[s].points)]
  /\ intact' = (intact /\ Len(spectra[s].points) >= HalfPoints)
  /\ UNCHANGED given

\* Reads as many smoothed intensities as there are points, and the first one in any case.
DoPeakCenter(s) ==
  LET sp == spectra[s]
  IN  /\ Orderly => Smoothed(sp) /\ sp.points # <<>>
      /\ intact' = (intact /\ Smoothed(sp) /\ sp.smooth # 0)
      /\ UNCHANGED <<spectra, given>>

-----------------------------------------------------------------------------
(* Copies.                                                                 *)

CopyConstruct(s, t) ==
  LET sp == spectra[s]
  IN  /\ s # t
      /\ Orderly => Smoothed(sp)
      /\ spectra' = [spectra EXCEPT ![t] = [sp EXCEPT !.smooth = Len(sp.points)]]
      /\ given' = [given EXCEPT ![t] = given[s]]
      /\ intact' = (intact /\ Smoothed(sp))

\* A longer spectrum stays as long as it is, and is given what is behind the points of
\* the other one.
Assign(s, t) ==
  LET sp == spectra[s]
      tp == spectra[t]
      n == Max({Len(sp.points), Len(tp.points)})
      held == IF Len(tp.points) < n THEN n ELSE tp.smooth
      inside == n <= sp.reserved /\ n <= sp.smooth /\ n <= held
  IN  /\ s # t
      /\ Orderly => inside /\ n = Len(sp.points)
      /\ \E behind \in [1..(n - Len(sp.points)) -> Intensities] :
           spectra' = [spectra EXCEPT ![t] =
             [points |-> sp.points \o behind, reserved |-> Max({sp.reserved, tp.reserved}),
              smooth |-> held]]
      /\ given' = [given EXCEPT ![t] = given[s]]
      /\ intact' = (intact /\ inside)

-----------------------------------------------------------------------------
Change(s) ==
  \/ \E v \in Intensities : AddPoint(s, v)
  \/ \E v, w \in Intensities \cup {Short} : Read(s, v, w)
  \/ Clear(s) \/ DoCompensateBackground(s) \/ Smooth(s) \/ DoPeakCenter(s)
  \/ \E t \in Spectra : CopyConstruct(s, t) \/ Assign(s, t)

Next ==
  /\ \E s \in Spectra : Change(s)
  /\ FoldSet(LAMBDA s, n : n + Len(spectra'[s].points), 0, Spectra) <= MaxPoints

Spec == Init /\ [][Next]_spectrumVars

-----------------------------------------------------------------------------
\* Spectra that are smoothed before they are measured or copied never leave an array,
\* and what they were given survives growth, copies and compensation
\* (massSpectrum::addPoint, operator =).
SpectrumKeeps ==
  /\ intact
  /\ \A s \in Spectra : /\ Len(spectra[s].points) < spectra[s].reserved
                        /\ spectra[s].points = given[s]

\* "optimized version of the estimateGuess" (spectrum.h:6): one pass finds what the
\* functions it combines find one after the other, if the ends of the window do not
\* overlap; of equal maxima it may take another one.
EstimateMatches ==
  \A s \in Spectra :
    LET y == spectra[s].points
        lowered == [i \in DOMAIN y |-> MovingAverage(y)[i] - Window * Background(y)]
        guess == EstimateGuess(y, <<1, 1>>)
    IN  Len(y) >= 2 * HalfPoints =>
          /\ guess.level = Background(y) /\ guess.smooth = lowered
          /\ lowered[guess.at] = guess.value /\ guess.value = PeakCenter(lowered).value
          /\ guess.height10 = MeasPeak(lowered, guess.at, 10)
          /\ guess.height50 = MeasPeak(lowered, guess.at, 50)

\* "estimate peak width at 98%-height" (peakCenter.cpp:275): the indices at 98 % are
\* found like the others, whatever was measured before.
EstimatesAll ==
  \A s \in Spectra :
    LET guess == EstimateGuess(spectra[s].points, <<1, 1>>)
    IN  Len(spectra[s].points) >= 2 * HalfPoints =>
          guess.height98 = MeasPeak(guess.smooth, guess.at, 98)
=============================================================================
