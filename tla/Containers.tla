----------------------------- MODULE Containers -----------------------------
(***************************************************************************)
(* The library's data structures and what computes with them, one object   *)
(* of each.  They share nothing: a behaviour works on one of them, so that *)
(* the state spaces are explored side by side.                             *)
(***************************************************************************)
EXTENDS IntervalMap, Integers, FiniteSets

CONSTANTS
  Numbers,   \* the values of the heap
  MaxSize,   \* bound: values in the heap
  Points,    \* the points of the disjoint set
  Unset,     \* its static_cast<size_t> (-1)
  TracerKeys, UseCache,                                            \* intervals of a Tracer
  Threads, First, Second, Roots, SecondRoots, Objects, FromInside, Null,        \* handles
  RootSize, PoolSize, MemPools, MaxPushed, MaxFields,              \* composite core
  Digits, CharDigits,                                              \* sizes of a ring
  Hubs, Names, Contents, Commented, Cut, Top, MaxMembers,          \* ini file
  Spectra, Intensities, Reserve, HalfPoints, Orderly, MaxPoints, Short,   \* spectra
  Abscissae, Ordinates, MaxFit, MaxBefore                          \* fits

ASSUME ContainersAssumption ==
  /\ Numbers \subseteq Nat /\ IsFiniteSet(Numbers) /\ MaxSize \in Nat
  /\ IsFiniteSet(Points) /\ Unset \notin Points
  /\ TracerKeys \subseteq Int /\ IsFiniteSet(TracerKeys) /\ TracerKeys # {}
  /\ Null \notin Roots \cup Objects \cup Nat /\ Roots \cap Objects = {}
  /\ IsFiniteSet(Roots) /\ IsFiniteSet(Objects)
  /\ {First, Second} \subseteq Threads /\ SecondRoots \subseteq Roots
  /\ {UseCache, FromInside, Orderly} \subseteq BOOLEAN
  /\ {RootSize, PoolSize, MemPools} \subseteq Nat \ {0} /\ MemPools <= RootSize /\ MaxFields \in Nat
  /\ {Digits, CharDigits, Reserve, HalfPoints} \subseteq Nat \ {0}
  /\ Intensities \subseteq Int /\ Short \notin Intensities
  /\ Abscissae \subseteq Int /\ Ordinates \subseteq Int

VARIABLES
  object,                                                   \* the object that is worked on
  nodes, call, taken,                                       \* the heap
  parent, rank, ngroups,                                    \* the disjoint set
  entries, recent, next, answer,                            \* the Tracer
  refersTo, links, alive, used, task, dangling,             \* the handles
  linkOf, saved, first, field, newState, made, linkTo, index, freed, swapping, stale,  \* core
  desired, metrics,                                         \* the sizes of a ring
  olist, file,                                              \* the ini file
  spectra, given, intact,                                   \* the spectra
  curve, cf, sums, fitted, through                          \* the fit

heapVars == <<nodes, call, taken>>
setVars == <<parent, rank, ngroups>>
tracerVars == <<entries, recent, next, answer>>
handleVars == <<refersTo, links, alive, used, task, dangling>>
coreVars == <<linkOf, saved, first, field, newState, made, linkTo, index, freed, swapping, stale>>
metricsVars == <<desired, metrics>>
iniVars == <<olist, file>>
spectrumVars == <<spectra, given, intact>>
fitVars == <<curve, cf, sums, fitted, through>>
allVars == <<object, map, heapVars, setVars, tracerVars, handleVars, coreVars, metricsVars,
             iniVars, spectrumVars, fitVars>>

\* The thread that uses a handle.
Owner == [h \in Roots |-> IF h \in SecondRoots THEN Second ELSE First]

H == INSTANCE Heap WITH Values <- Numbers
D == INSTANCE DisjointSet
T == INSTANCE Tracer WITH Keys <- TracerKeys
P == INSTANCE Handles WITH object <- refersTo
C == INSTANCE CompositeCore WITH MaxPoints <- MaxPushed
M == INSTANCE PoolMetrics
F == INSTANCE IniFile
S == INSTANCE Spectrum
R == INSTANCE Regression

Kinds == {"interval map", "heap", "disjoint set", "tracer", "handles", "core", "metrics",
          "ini file", "spectra", "fit"}

\* What is not worked on starts in one state.
InitAll ==
  /\ object \in Kinds
  /\ Init /\ H!Init /\ D!Init /\ T!Init /\ P!Init /\ C!Init /\ M!Init /\ S!Init /\ R!Init
  /\ IF object = "ini file" THEN F!Init ELSE olist = <<>> /\ file = <<>>
  /\ object # "tracer" => \A k \in DOMAIN entries : entries[k] = InitVal
  /\ object # "metrics" => desired = [pool |-> 0, root |-> 0]
  /\ object # "fit" => curve = "line"

\* Only one of the objects is worked on.
Others(name) ==
  /\ object = name /\ UNCHANGED object
  /\ name # "interval map" => UNCHANGED map
  /\ name # "heap" => UNCHANGED heapVars
  /\ name # "disjoint set" => UNCHANGED setVars
  /\ name # "tracer" => UNCHANGED tracerVars
  /\ name # "handles" => UNCHANGED handleVars
  /\ name # "core" => UNCHANGED coreVars
  /\ name # "ini file" => UNCHANGED iniVars
  /\ name # "spectra" => UNCHANGED spectrumVars
  /\ name # "fit" => UNCHANGED fitVars
  /\ UNCHANGED metricsVars

NextAll ==
  \/ Others("interval map") /\ Next
  \/ Others("heap") /\ H!Next
  \/ Others("disjoint set") /\ D!Next
  \/ Others("tracer") /\ T!Next
  \/ Others("handles") /\ P!Next
  \/ Others("core") /\ C!Next
  \/ Others("ini file") /\ F!Next
  \/ Others("spectra") /\ S!Next
  \/ Others("fit") /\ R!Next

SpecAll == InitAll /\ [][NextAll]_allVars

-----------------------------------------------------------------------------
\* crs::heap (Heap.tla) is a bag that gives its least value; crs::disjoint_set
\* (DisjointSet.tla) is a partition, whose trees are no deeper than their ranks say.
StructuresImplement ==
  /\ H!ImplementsPriorityBag
  /\ D!ImplementsPartition /\ [](object = "disjoint set" => D!RanksBoundTrees)

\* What refers to an object, a field state, an interval or a point of a spectrum finds it
\* until it is given up, and it is given up once (cHandle, msdc::composite_core, Tracer,
\* massSpectrum).
DataKept ==
  /\ object = "handles" => P!HandlesSafe
  /\ object = "core" => C!FieldsFreedOnce
  /\ object = "tracer" => T!SelectFindsInterval
  /\ object = "spectra" => S!SpectrumKeeps

\* What is computed is what was asked for: the variables of a file that is written and
\* read again (oio::iniFile), the sizes and masks of a ring (pool_metrics), the measures
\* of a peak (estimateGuess) and the coefficients of a curve (Interpolation).
ComputedRight ==
  /\ object = "ini file" => F!IniKeeps
  /\ object = "metrics" => M!MetricsFit
  /\ object = "spectra" => S!EstimateMatches
  /\ object = "fit" => R!CurveFits
=============================================================================
