\* One object of each: every map over six keys and three values, heaps of up to seven
\* values out of four, five points joined in every order, four interval bounds, three
\* handles of two threads, a ring of four pools of two points, words of five bits, files
\* of up to three lines, four points of two spectra, and fits of up to four points.
SPECIFICATION SpecAll
CONSTANTS
  Keys = {0, 1, 2, 3, 4, 5}
  Values = {a, b, c}
  InitVal = a
  MinKey = 0
  Numbers = {0, 1, 2, 3}
  MaxSize = 7
  Points = {p0, p1, p2, p3, p4}
  Unset = Unset
  TracerKeys = {1, 2, 3, 4}
  UseCache = TRUE
  Threads = {t1, t2}
  First = t1
  Second = t2
  Roots = {1, 2, 3}
  SecondRoots = {3}
  Objects = {o1, o2, o3}
  FromInside = FALSE
  Null = Null
  RootSize = 4
  PoolSize = 2
  MemPools = 2
  MaxPushed = 14
  MaxFields = 3
  Digits = 5
  CharDigits = 2
  Hubs = {"h1", "h2"}
  Names = {"a"}
  Contents = {"x", "y"}
  Commented = {}
  Cut = "x"
  Top = "top"
  MaxMembers = 3
  Spectra = {s1, s2}
  Intensities = {1, 2, 6}
  Reserve = 2
  HalfPoints = 1
  Orderly = TRUE
  MaxPoints = 4
  Short = Short
  Abscissae = {0, 1, 3}
  Ordinates = {0, 2}
  MaxFit = 4
  MaxBefore = 1
INVARIANTS Canonical DataKept ComputedRight
PROPERTIES ImplementsPointwiseMap StructuresImplement
\* Every object may have done all there is to do.
CHECK_DEADLOCK FALSE
