--------------------------- MODULE GlueCalls_proofs ---------------------------
(***************************************************************************)
(* What GlueCalls promises, for any number of cells, any callbacks and any *)
(* classes: the browser's references are balanced, a function hears what   *)
(* it was meant to hear, and a script's call runs the overloads that fit.  *)
(***************************************************************************)
EXTENDS GlueCalls, FiniteSetTheorems, WellFoundedInduction, TLAPS

(* Callbacks: the inductive invariant *)

Data == Contents \cup {NULL}
Variants == [is : {"garbage", "void", "null", "plain", "held"}, content : Data,
             cell : Cells \cup {0}]
CallArgs == [params : Seq(Types), meant : Seq(Data), slots : Seq(Variants)]
CellStates == [refs : Nat, content : Data, args : Seq(CallArgs)]
Heaps == [Cells -> CellStates]

RunStates ==
  [phase : {"idle", "pre", "ready", "posted", "release", "return"},
   callback : Callbacks \cup {Quiet.callback}, args : Seq(Data), slots : Seq(Variants),
   made : Seq(Cells \cup {0}), param : Nat \ {0}, success : BOOLEAN,
   own : Cells \cup {0}, answer : Answers \cup {NULL}, result : {Null, Void}]

TypeOK ==
  /\ run \in RunStates
  /\ heap \in Heaps
  /\ function \in Nat /\ glues \in Nat
  /\ posted \in Seq(Cells)

\* What every slot of a call holds by the time the function is called.
Written(params, meant, slots) ==
  /\ DOMAIN slots = DOMAIN meant
  /\ \A i \in DOMAIN slots :
       \/ slots[i] = Plain(meant[i])
       \/ slots[i] = Void /\ Models(params[i], {"string"})
       \/ slots[i] = Null /\ meant[i] = NULL
       \/ \E c \in Cells : slots[i] = Held(c)

\* The cells of a call's slots hold what was meant, and are no NPCallbacks.
Holding(h, meant, slots) ==
  \A i \in DOMAIN slots, c \in Cells :
    slots[i] = Held(c) => h[c].args = <<>> /\ h[c].content = meant[i]

\* What RunCallback has in hand in each phase.
PhaseOK ==
  /\ run.phase \in {"idle", "return"} => run.slots = <<>> /\ run.made = <<>>
  /\ run.phase \in {"pre", "ready", "posted", "release"} =>
       DOMAIN run.slots = DOMAIN run.args /\ DOMAIN run.made = DOMAIN run.args
  /\ run.phase \in {"ready", "posted"} => Written(run.callback.params, run.args, run.slots)
  /\ run.phase = "posted" <=> run.own # 0

\* ParamsToVariantsPre has dealt with the parameters before run.param.
ParamOK(i) ==
  IF i < run.param /\ Models(run.callback.params[i], {"string", "value"})
  THEN /\ run.made[i] = 0
       /\ \/ \E c \in Cells : run.slots[i] = Held(c)
          \/ run.slots[i] = Void /\ Models(run.callback.params[i], {"string"})
  ELSE /\ run.slots[i] = Garbage
       /\ IF i < run.param /\ Models(run.callback.params[i], {"pointer", "nullable"})
          THEN run.made[i] = 0 => run.args[i] = NULL
          ELSE run.made[i] = 0

PreOK == run.phase = "pre" => \A i \in DOMAIN run.args : ParamOK(i)

\* The cells of the call in progress.
RunHolds ==
  /\ Holding(heap, run.args, run.slots)
  /\ \A i \in DOMAIN run.made : run.made[i] # 0 =>
       /\ heap[run.made[i]].args = <<>> /\ heap[run.made[i]].content = run.args[i]
       /\ run.slots[i] \in {Garbage, Held(run.made[i])}

\* The NPCallbacks, and those who wait for them.
CallbacksHold ==
  /\ \A x \in LiveCallbacks(heap) :
       LET a == heap[x].args[1]
       IN  Written(a.params, a.meant, a.slots) /\ Holding(heap, a.meant, a.slots)
  /\ \A i \in DOMAIN posted : heap[posted[i]].args # <<>>
  /\ run.own # 0 => heap[run.own].args # <<>>

\* There are cells left for what RunCallback is going to make.
Room ==
  /\ run.phase = "pre" => /\ run.param <= Len(run.args) + 1
                          /\ Cardinality(Unused) + run.param > Len(run.args) + 1
  /\ run.phase = "ready" => Unused # {}

RefsOK == \A c \in Cells : heap[c].refs = Holders(c)
FunctionOK == function = glues + Cardinality(LiveCallbacks(heap))

Sound == TypeOK /\ PhaseOK /\ PreOK /\ RunHolds /\ CallbacksHold /\ Room /\ RefsOK /\ FunctionOK

RefsInv == spoilt \/ Sound

-----------------------------------------------------------------------------
(* Cells and counts *)

LEMMA LeastNumber ==
  ASSUME NEW S \in SUBSET Nat, S # {}
  PROVE  \E n \in S : \A m \in S : n <= m
<1> DEFINE R == StrictSubsetOrdering(Nat)
           T == {0 .. (n - 1) : n \in S}
<1>1. IsWellFoundedOn(R, FiniteSubsetsOf(Nat))
      BY FS_StrictSubsetOrderingWellFounded
<1>2. T \subseteq FiniteSubsetsOf(Nat) /\ T # {}
  <2>1. ASSUME NEW n \in S PROVE 0 .. (n - 1) \in FiniteSubsetsOf(Nat)
        BY FS_Interval DEF FiniteSubsetsOf
  <2>2. QED
        BY <2>1
<1>3. PICK x \in T : \A y \in T : ~(<<y, x>> \in R)
  <2> HIDE DEF R, T
  <2> QED
      BY <1>1, <1>2, WFMin
<1>4. PICK n \in S : x = 0 .. (n - 1)
      OBVIOUS
<1>5. ASSUME NEW m \in S, m < n PROVE FALSE
  <2>1. /\ 0 .. (m - 1) \in SUBSET Nat /\ x \in SUBSET Nat
        /\ 0 .. (m - 1) \subseteq x /\ m \in x /\ m \notin 0 .. (m - 1)
        BY <1>4, <1>5
  <2>2. <<0 .. (m - 1), x>> \in R
        BY <2>1 DEF StrictSubsetOrdering
  <2>3. QED
        BY <2>2, <1>3
<1>6. QED
      BY <1>5

\* NPN_CreateObject's cell is a free one, if there is any.
LEMMA NewCellUnused ==
  Unused # {} => NewCell \in Unused
<1> SUFFICES ASSUME Unused # {} PROVE NewCell \in Unused
    OBVIOUS
<1>1. Unused \in SUBSET Nat
      BY CellsAssumption DEF Unused
<1>2. \E c \in Unused : \A o \in Unused : c <= o
      BY <1>1, LeastNumber
<1>3. QED
      BY <1>2 DEF NewCell

LEMMA UnusedFinite == IsFiniteSet(Unused) /\ Cardinality(Unused) \in Nat
<1>1. Unused \in SUBSET Cells
      BY DEF Unused
<1>2. QED
      BY <1>1, CellsAssumption, FS_Subset, FS_CardinalityType

LEMMA DistinctVariants ==
  /\ \A c, d : Held(c) = Held(d) => c = d
  /\ \A c : Held(c) \notin {Garbage, Void, Null}
  /\ \A c, v : Held(c) # Plain(v) /\ Garbage # Plain(v)
  /\ Garbage \notin {Void, Null}
BY DEF Held, Garbage, Void, Null, Plain, Variant

LEMMA VariantsTyped ==
  /\ Garbage \in Variants /\ Void \in Variants /\ Null \in Variants
  /\ \A v \in Data : Plain(v) \in Variants
  /\ \A c \in Cells : Held(c) \in Variants
BY DEF Variants, Data, Garbage, Void, Null, Plain, Held, Variant

LEMMA PlacesFinite ==
  ASSUME NEW slots \in Seq(Variants), NEW c
  PROVE  IsFiniteSet(Places(slots, c)) /\ Uses(slots, c) \in Nat
<1>1. IsFiniteSet(1 .. Len(slots)) /\ Places(slots, c) \in SUBSET (1 .. Len(slots))
      BY FS_Interval DEF Places
<1>2. IsFiniteSet(Places(slots, c))
      BY <1>1, FS_Subset
<1>3. QED
      BY <1>2, FS_CardinalityType DEF Uses

LEMMA LiveFinite ==
  ASSUME NEW h
  PROVE  IsFiniteSet(LiveCallbacks(h)) /\ Cardinality(LiveCallbacks(h)) \in Nat
<1>1. LiveCallbacks(h) \in SUBSET Cells
      BY DEF LiveCallbacks
<1>2. QED
      BY <1>1, CellsAssumption, FS_Subset, FS_CardinalityType

LEMMA SlotsOfLive ==
  ASSUME NEW h \in Heaps, NEW x \in LiveCallbacks(h)
  PROVE  x \in Cells /\ h[x].args[1] \in CallArgs /\ h[x].args[1].slots \in Seq(Variants)
<1>1. x \in Cells /\ h[x] \in CellStates /\ h[x].args # <<>>
      BY DEF Heaps, LiveCallbacks
<1>2. h[x].args \in Seq(CallArgs)
      BY <1>1 DEF CellStates
<1>3. h[x].args[1] \in CallArgs
      BY <1>1, <1>2
<1>4. QED
      BY <1>1, <1>3 DEF CallArgs

LEMMA PairedFinite ==
  ASSUME NEW S, IsFiniteSet(S), NEW x
  PROVE  IsFiniteSet({x} \X S) /\ Cardinality({x} \X S) = Cardinality(S)
<1>1. IsFiniteSet({x}) /\ Cardinality({x}) = 1
      BY FS_Singleton
<1>2. IsFiniteSet({x} \X S) /\ Cardinality({x} \X S) = Cardinality({x}) * Cardinality(S)
      BY <1>1, FS_Product
<1>3. Cardinality(S) \in Nat
      BY FS_CardinalityType
<1>4. QED
      BY <1>1, <1>2, <1>3

LEMMA KeptFinite ==
  ASSUME NEW h \in Heaps, NEW c
  PROVE  IsFiniteSet(Kept(h, c)) /\ Cardinality(Kept(h, c)) \in Nat
<1> DEFINE pairs(x) == {x} \X Places(h[x].args[1].slots, c)
           T == {pairs(x) : x \in LiveCallbacks(h)}
           f == [x \in LiveCallbacks(h) |-> pairs(x)]
<1>1. f \in Surjection(LiveCallbacks(h), T)
      BY DEF Surjection
<1>2. IsFiniteSet(T)
  <2> HIDE DEF f, T
  <2> QED
      BY <1>1, LiveFinite, FS_Surjection
<1>3. ASSUME NEW x \in LiveCallbacks(h) PROVE IsFiniteSet(pairs(x))
      BY SlotsOfLive, PlacesFinite, PairedFinite
<1>4. \A P \in T : IsFiniteSet(P)
      BY <1>3
<1>5. IsFiniteSet(UNION T)
  <2> HIDE DEF T
  <2> QED
      BY <1>2, <1>4, FS_UNION
<1>6. QED
      BY <1>5, FS_CardinalityType DEF Kept

LEMMA KeptPairs ==
  ASSUME NEW h, NEW c
  PROVE  \A x, i : <<x, i>> \in Kept(h, c) <=>
           x \in LiveCallbacks(h) /\ i \in Places(h[x].args[1].slots, c)
BY DEF Kept

-----------------------------------------------------------------------------
(* Giving references back *)

\* Cells change the number of their references, and nothing else, until they have none.
SameCells(h, g) ==
  \A x \in Cells : g[x].refs > 0 =>
    h[x].refs > 0 /\ g[x].content = h[x].content /\ g[x].args = h[x].args

\* No slot of an NPCallback holds an NPCallback.
Flat(h) ==
  \A x \in LiveCallbacks(h), d \in Cells :
    Places(h[x].args[1].slots, d) # {} => h[d].args = <<>>

LEMMA FewerTyped ==
  ASSUME NEW cell \in CellStates, NEW k \in Nat
  PROVE  /\ Fewer(cell, k) \in CellStates
         /\ k <= cell.refs => Fewer(cell, k).refs = cell.refs - k
         /\ Fewer(cell, k).refs > 0 =>
              /\ cell.refs > 0 /\ Fewer(cell, k).content = cell.content
              /\ Fewer(cell, k).args = cell.args
<1>1. NoCell \in CellStates
      BY DEF NoCell, CellStates, Data
<1>2. CASE cell.refs > k
      BY <1>2 DEF Fewer, CellStates
<1>3. CASE ~(cell.refs > k)
      BY <1>1, <1>3 DEF Fewer, CellStates, NoCell
<1>4. QED
      BY <1>2, <1>3

LEMMA ReleasingLemma ==
  ASSUME NEW h \in Heaps, NEW slots \in Seq(Variants)
  PROVE  /\ Releasing(h, slots) \in Heaps
         /\ SameCells(h, Releasing(h, slots))
         /\ \A x \in Cells : Uses(slots, x) <= h[x].refs =>
              Releasing(h, slots)[x].refs = h[x].refs - Uses(slots, x)
<1> DEFINE g == Releasing(h, slots)
<1>1. ASSUME NEW x \in Cells
      PROVE  /\ g[x] \in CellStates
             /\ g[x].refs > 0 => h[x].refs > 0 /\ g[x].content = h[x].content
                                 /\ g[x].args = h[x].args
             /\ Uses(slots, x) <= h[x].refs => g[x].refs = h[x].refs - Uses(slots, x)
  <2>1. h[x] \in CellStates /\ Uses(slots, x) \in Nat /\ g[x] = Fewer(h[x], Uses(slots, x))
        BY PlacesFinite DEF Heaps, Releasing
  <2>2. QED
        BY <2>1, FewerTyped
<1>2. g \in Heaps
      BY <1>1 DEF Heaps, Releasing
<1>3. QED
      BY <1>1, <1>2 DEF SameCells

\* Releasing leaves the NPCallbacks alone that the slots do not hold.
LEMMA ReleasingKeeps ==
  ASSUME NEW h \in Heaps, NEW slots \in Seq(Variants),
         \A d \in Cells : Places(slots, d) # {} => h[d].args = <<>>,
         \A d \in Cells : Uses(slots, d) <= h[d].refs
  PROVE  /\ LiveCallbacks(Releasing(h, slots)) = LiveCallbacks(h)
         /\ \A x : Kept(Releasing(h, slots), x) = Kept(h, x)
<1> DEFINE g == Releasing(h, slots)
<1>1. ASSUME NEW x \in Cells, h[x].args # <<>>
      PROVE  g[x].refs = h[x].refs
  <2>1. Uses(slots, x) = 0
        BY <1>1, FS_EmptySet DEF Uses
  <2>2. QED
        BY <2>1, ReleasingLemma DEF Heaps, CellStates
<1>2. \A x \in Cells : g[x].refs > 0 => h[x].refs > 0 /\ g[x].args = h[x].args
      BY ReleasingLemma DEF SameCells
<1>3. LiveCallbacks(g) = LiveCallbacks(h)
      BY <1>1, <1>2 DEF LiveCallbacks
<1>4. \A x \in LiveCallbacks(h) : g[x].args = h[x].args
      BY <1>2, <1>3 DEF LiveCallbacks
<1>5. QED
      BY <1>3, <1>4 DEF Kept

\* What the cells have in slots of NPCallbacks is covered.
Covered(h) == \A x \in Cells : Cardinality(Kept(h, x)) <= h[x].refs

One(x, c) == IF x = c THEN 1 ELSE 0

\* An NPCallback loses one of several references.
LEMMA DropOne ==
  ASSUME NEW h \in Heaps, NEW c \in LiveCallbacks(h), h[c].refs # 1
  PROVE  /\ WithoutCallback(h, c) \in Heaps
         /\ SameCells(h, WithoutCallback(h, c))
         /\ LiveCallbacks(WithoutCallback(h, c)) = LiveCallbacks(h)
         /\ \A x \in Cells :
              /\ Kept(WithoutCallback(h, c), x) = Kept(h, x)
              /\ WithoutCallback(h, c)[x].refs = h[x].refs - One(x, c)
<1> DEFINE g == [h EXCEPT ![c] = Fewer(@, 1)]
<1>1. WithoutCallback(h, c) = g
      BY DEF WithoutCallback
<1>2. c \in Cells /\ h[c] \in CellStates /\ h[c].refs > 1
      BY DEF LiveCallbacks, Heaps, CellStates
<1>3. Fewer(h[c], 1) = [h[c] EXCEPT !.refs = @ - 1] /\ Fewer(h[c], 1) \in CellStates
      BY <1>2, FewerTyped DEF Fewer
<1>4. /\ Fewer(h[c], 1).refs = h[c].refs - 1 /\ Fewer(h[c], 1).content = h[c].content
      /\ Fewer(h[c], 1).args = h[c].args
      BY <1>2, <1>3 DEF CellStates
<1>5. g \in Heaps /\ g[c] = Fewer(h[c], 1) /\ \A x \in Cells : x # c => g[x] = h[x]
      BY <1>2, <1>3 DEF Heaps
<1>6. \A x \in Cells : g[x].args = h[x].args /\ g[x].content = h[x].content
                       /\ (g[x].refs > 0 <=> h[x].refs > 0)
      BY <1>2, <1>4, <1>5 DEF CellStates
<1>7. LiveCallbacks(g) = LiveCallbacks(h)
      BY <1>6 DEF LiveCallbacks
<1>8. \A x \in LiveCallbacks(h) : g[x].args = h[x].args
      BY <1>6 DEF LiveCallbacks
<1>9. \A x : Kept(g, x) = Kept(h, x)
      BY <1>7, <1>8 DEF Kept
<1>10. \A x \in Cells : g[x].refs = h[x].refs - One(x, c)
       BY <1>4, <1>5 DEF One, Heaps, CellStates
<1>11. QED
       BY <1>1, <1>5, <1>6, <1>7, <1>9, <1>10 DEF SameCells

\* The last reference to an NPCallback takes those of its slots along.
LEMMA DropLast ==
  ASSUME NEW h \in Heaps, NEW c \in LiveCallbacks(h), h[c].refs = 1, Flat(h), Covered(h)
  PROVE  /\ WithoutCallback(h, c) \in Heaps
         /\ SameCells(h, WithoutCallback(h, c))
         /\ LiveCallbacks(WithoutCallback(h, c)) = LiveCallbacks(h) \ {c}
         /\ \A x \in Cells :
              /\ Kept(WithoutCallback(h, c), x) \subseteq Kept(h, x)
              /\ WithoutCallback(h, c)[x].refs
                   = h[x].refs - One(x, c)
                     - (Cardinality(Kept(h, x)) - Cardinality(Kept(WithoutCallback(h, c), x)))
<1> DEFINE slots == h[c].args[1].slots
           less == [h EXCEPT ![c] = Fewer(@, 1)]
           g == Releasing(less, slots)
           mine(x) == {c} \X Places(slots, x)
<1>1. WithoutCallback(h, c) = g
      BY DEF WithoutCallback
<1>2. c \in Cells /\ slots \in Seq(Variants) /\ h[c] \in CellStates /\ h[c].args # <<>>
      BY SlotsOfLive DEF LiveCallbacks, Heaps
<1>3. less[c] = NoCell /\ NoCell \in CellStates /\ \A x \in Cells : x # c => less[x] = h[x]
      BY <1>2 DEF Fewer, Heaps, NoCell, CellStates, Data
<1>4. less \in Heaps
      BY <1>2, <1>3 DEF Heaps
<1> HIDE DEF less
\* no NPCallback is in a slot
<1>5. \A d \in Cells : Places(slots, d) # {} => h[d].args = <<>>
      BY DEF Flat
<1>6. \A d \in Cells : h[d].args # <<>> => Kept(h, d) = {}
      BY KeptPairs DEF Flat, Kept
<1>7. \A d \in Cells : Places(slots, d) # {} => d # c /\ less[d].args = <<>>
      BY <1>2, <1>3, <1>5
<1>8. ASSUME NEW x \in Cells
      PROVE  /\ IsFiniteSet(mine(x)) /\ Cardinality(mine(x)) = Uses(slots, x)
             /\ mine(x) \subseteq Kept(h, x)
             /\ Uses(slots, x) <= Cardinality(Kept(h, x))
             /\ Uses(slots, x) \in Nat
  <2>1. IsFiniteSet(mine(x)) /\ Cardinality(mine(x)) = Uses(slots, x) /\ Uses(slots, x) \in Nat
        BY <1>2, PlacesFinite, PairedFinite DEF Uses
  <2>2. mine(x) \subseteq Kept(h, x)
        BY DEF Kept
  <2>3. QED
        BY <2>1, <2>2, KeptFinite, FS_Subset
<1>9. \A x \in Cells : Uses(slots, x) <= less[x].refs
  <2> SUFFICES ASSUME NEW x \in Cells PROVE Uses(slots, x) <= less[x].refs
      OBVIOUS
  <2>1. CASE x = c
    <3>1. Places(slots, x) = {}
          BY <2>1, <1>2, <1>5
    <3>2. Uses(slots, x) = 0
          BY <3>1, FS_EmptySet DEF Uses
    <3>3. QED
          BY <2>1, <3>2, <1>3 DEF NoCell
  <2>2. CASE x # c
    <3>1. h[x].refs \in Nat /\ Cardinality(Kept(h, x)) \in Nat
          BY KeptFinite DEF Heaps, CellStates
    <3>2. Uses(slots, x) \in Nat /\ Uses(slots, x) <= Cardinality(Kept(h, x))
          BY <1>8
    <3>3. Cardinality(Kept(h, x)) <= h[x].refs /\ less[x] = h[x]
          BY <2>2, <1>3 DEF Covered
    <3>4. QED
          BY <3>1, <3>2, <3>3
  <2>3. QED
        BY <2>1, <2>2
<1>10. LiveCallbacks(g) = LiveCallbacks(less) /\ \A x : Kept(g, x) = Kept(less, x)
       BY <1>2, <1>4, <1>7, <1>9, ReleasingKeeps
<1>11. LiveCallbacks(less) = LiveCallbacks(h) \ {c}
       BY <1>2, <1>3 DEF LiveCallbacks, NoCell
<1>12. \A x \in Cells : Kept(less, x) = Kept(h, x) \ mine(x)
  <2>1. \A y \in LiveCallbacks(less) : less[y] = h[y]
        BY <1>3, <1>11 DEF LiveCallbacks
  <2>2. QED
        BY <2>1, <1>11 DEF Kept
<1>13. ASSUME NEW x \in Cells
       PROVE  g[x].refs = h[x].refs - One(x, c)
                          - (Cardinality(Kept(h, x)) - Cardinality(Kept(g, x)))
  <2> HIDE DEF slots, g, mine
  <2>1. Kept(h, x) \cap mine(x) = mine(x) /\ Kept(g, x) = Kept(h, x) \ mine(x)
        BY <1>8, <1>10, <1>12
  <2>2. Cardinality(Kept(g, x)) = Cardinality(Kept(h, x)) - Uses(slots, x)
    <3>1. IsFiniteSet(Kept(h, x))
          BY KeptFinite
    <3>2. Cardinality(Kept(h, x) \ mine(x))
            = Cardinality(Kept(h, x)) - Cardinality(Kept(h, x) \cap mine(x))
          BY <3>1, FS_Difference
    <3>3. QED
          BY <2>1, <3>2, <1>8
  <2>3. g[x].refs = less[x].refs - Uses(slots, x)
        BY <1>2, <1>4, <1>9, ReleasingLemma DEF g
  <2>4. less[x].refs = h[x].refs - One(x, c)
        BY <1>3 DEF One, NoCell, Heaps, CellStates
  <2>5. Cardinality(Kept(h, x)) \in Nat /\ Cardinality(Kept(g, x)) \in Nat
        BY <1>2, <1>4, KeptFinite, ReleasingLemma DEF g
  <2>6. h[x].refs \in Nat /\ One(x, c) \in Nat
        BY DEF One, Heaps, CellStates
  <2>7. Uses(slots, x) \in Nat
        BY <1>8
  <2>8. QED
        BY <2>2, <2>3, <2>4, <2>5, <2>6, <2>7
<1>14. SameCells(h, g) /\ g \in Heaps
  <2>1. SameCells(less, g) /\ g \in Heaps
        BY <1>2, <1>4, ReleasingLemma
  <2>2. SameCells(h, less)
        BY <1>3 DEF SameCells, NoCell
  <2>3. QED
        BY <2>1, <2>2 DEF SameCells
<1>15. \A x \in Cells : Kept(g, x) \subseteq Kept(h, x)
       BY <1>10, <1>12
<1>16. QED
       BY <1>1, <1>10, <1>11, <1>13, <1>14, <1>15

-----------------------------------------------------------------------------
(* What the invariant says of the counts *)

LEMMA SeqExcept ==
  ASSUME NEW S, NEW s \in Seq(S), NEW i \in DOMAIN s, NEW v \in S
  PROVE  /\ [s EXCEPT ![i] = v] \in Seq(S)
         /\ DOMAIN [s EXCEPT ![i] = v] = DOMAIN s
OBVIOUS

LEMMA HoldersCounted ==
  ASSUME TypeOK, NEW c
  PROVE  /\ IsFiniteSet(Places(run.slots, c)) /\ Uses(run.slots, c) \in Nat
         /\ IsFiniteSet(Local(c)) /\ Cardinality(Local(c)) \in Nat
         /\ IsFiniteSet(Waiting(c)) /\ Cardinality(Waiting(c)) \in Nat
         /\ IsFiniteSet(Kept(heap, c)) /\ Cardinality(Kept(heap, c)) \in Nat
         /\ Own(c) \in Nat
<1>1. run.slots \in Seq(Variants) /\ run.made \in Seq(Cells \cup {0}) /\ posted \in Seq(Cells)
      BY DEF TypeOK, RunStates
<1>2. Local(c) \in SUBSET (1 .. Len(run.made)) /\ Waiting(c) \in SUBSET (1 .. Len(posted))
      BY <1>1 DEF Local, Waiting
<1>3. IsFiniteSet(1 .. Len(run.made)) /\ IsFiniteSet(1 .. Len(posted))
      BY <1>1, FS_Interval
<1>4. IsFiniteSet(Local(c)) /\ IsFiniteSet(Waiting(c))
      BY <1>2, <1>3, FS_Subset
<1>5. IsFiniteSet(Places(run.slots, c)) /\ Uses(run.slots, c) \in Nat
      BY <1>1, PlacesFinite
<1>6. IsFiniteSet(Kept(heap, c)) /\ Cardinality(Kept(heap, c)) \in Nat
      BY KeptFinite DEF TypeOK
<1>7. QED
      BY <1>4, <1>5, <1>6, FS_CardinalityType DEF Own

\* Nobody holds a cell without references.
LEMMA UnusedUnheld ==
  ASSUME TypeOK, RefsOK, NEW c \in Cells, heap[c].refs = 0
  PROVE  /\ Places(run.slots, c) = {} /\ Local(c) = {} /\ Own(c) = 0 /\ Waiting(c) = {}
         /\ Kept(heap, c) = {}
<1>1. Holders(c) = 0
      BY DEF RefsOK
<1>2. /\ Uses(run.slots, c) = 0 /\ Cardinality(Local(c)) = 0 /\ Own(c) = 0
      /\ Cardinality(Waiting(c)) = 0 /\ Cardinality(Kept(heap, c)) = 0
      BY <1>1, HoldersCounted DEF Holders
<1>3. QED
      BY <1>2, HoldersCounted, FS_EmptySet DEF Uses

HeldAreUsed ==
  /\ \A c \in Cells, i \in DOMAIN run.slots : run.slots[i] = Held(c) => heap[c].refs > 0
  /\ \A i \in DOMAIN run.made :
       run.made[i] # 0 /\ run.slots[i] # Held(run.made[i]) => heap[run.made[i]].refs > 0
  /\ \A i \in DOMAIN posted : heap[posted[i]].refs > 0
  /\ run.own # 0 => heap[run.own].refs > 0
  /\ \A x \in LiveCallbacks(heap), c \in Cells :
       Places(heap[x].args[1].slots, c) # {} => heap[c].refs > 0

LEMMA HeldInUse == TypeOK /\ RefsOK => HeldAreUsed
<1> SUFFICES ASSUME TypeOK, RefsOK PROVE HeldAreUsed
    OBVIOUS
<1>1. \A c \in Cells : heap[c].refs \in Nat
      BY DEF TypeOK, Heaps, CellStates
<1>2. \A c \in Cells, i \in DOMAIN run.slots : run.slots[i] = Held(c) => heap[c].refs > 0
      BY <1>1, UnusedUnheld DEF Places
<1>3. \A i \in DOMAIN run.made :
        run.made[i] # 0 /\ run.slots[i] # Held(run.made[i]) => heap[run.made[i]].refs > 0
  <2>1. run.made \in Seq(Cells \cup {0})
        BY DEF TypeOK, RunStates
  <2>2. \A i \in DOMAIN run.made : run.made[i] # 0 => run.made[i] \in Cells
        BY <2>1
  <2>3. QED
        BY <1>1, <2>2, UnusedUnheld DEF Local
<1>4. \A i \in DOMAIN posted : heap[posted[i]].refs > 0
  <2>1. \A i \in DOMAIN posted : posted[i] \in Cells
        BY DEF TypeOK
  <2>2. QED
        BY <1>1, <2>1, UnusedUnheld DEF Waiting
<1>5. run.own # 0 => heap[run.own].refs > 0
  <2>1. run.own \in Cells \cup {0}
        BY DEF TypeOK, RunStates
  <2>2. QED
        BY <1>1, <2>1, UnusedUnheld DEF Own
<1>6. \A x \in LiveCallbacks(heap), c \in Cells :
        Places(heap[x].args[1].slots, c) # {} => heap[c].refs > 0
  <2> SUFFICES ASSUME NEW x \in LiveCallbacks(heap), NEW c \in Cells,
                      NEW i \in Places(heap[x].args[1].slots, c)
               PROVE  heap[c].refs > 0
      OBVIOUS
  <2>1. <<x, i>> \in Kept(heap, c)
        BY KeptPairs
  <2>2. QED
        BY <1>1, <2>1, UnusedUnheld
<1>7. QED
      BY <1>2, <1>3, <1>4, <1>5, <1>6 DEF HeldAreUsed

LEMMA FlatAndCovered ==
  ASSUME TypeOK, RefsOK, CallbacksHold
  PROVE  Flat(heap) /\ Covered(heap)
<1>1. Flat(heap)
      BY DEF Flat, CallbacksHold, Holding, Places
<1>2. ASSUME NEW c \in Cells PROVE Cardinality(Kept(heap, c)) <= heap[c].refs
      BY HoldersCounted DEF RefsOK, Holders
<1>3. QED
      BY <1>1, <1>2 DEF Covered

\* If neither the heap nor the queue changes, RunCallback's own holdings must add up.
LEMMA SameHolders ==
  ASSUME RefsOK, UNCHANGED <<heap, posted>>, run'.own = run.own,
         \A c \in Cells : Uses(run.slots, c)' + Cardinality(Local(c))'
                            = Uses(run.slots, c) + Cardinality(Local(c)),
         TypeOK, TypeOK'
  PROVE  RefsOK'
<1> SUFFICES ASSUME NEW c \in Cells PROVE heap'[c].refs = Holders(c)'
    BY DEF RefsOK
<1>1. Cardinality(Waiting(c))' = Cardinality(Waiting(c)) /\ Own(c)' = Own(c)
      BY DEF Waiting, Own
<1>2. Cardinality(Kept(heap, c))' = Cardinality(Kept(heap, c))
      OBVIOUS
<1>3. /\ Uses(run.slots, c)' \in Nat /\ Cardinality(Local(c))' \in Nat
      /\ Uses(run.slots, c) \in Nat /\ Cardinality(Local(c)) \in Nat
      /\ Cardinality(Waiting(c)) \in Nat /\ Cardinality(Kept(heap, c)) \in Nat
      /\ Own(c) \in Nat
  <2>1. /\ Uses(run.slots, c) \in Nat /\ Cardinality(Local(c)) \in Nat
        /\ Cardinality(Waiting(c)) \in Nat /\ Cardinality(Kept(heap, c)) \in Nat
        /\ Own(c) \in Nat
        BY HoldersCounted
  <2>2. Uses(run.slots, c)' \in Nat /\ Cardinality(Local(c))' \in Nat
    <3>1. run'.slots \in Seq(Variants) /\ run'.made \in Seq(Cells \cup {0})
          BY DEF TypeOK, RunStates
    <3>2. DOMAIN run'.made = 1 .. Len(run'.made) /\ Len(run'.made) \in Nat
          BY <3>1
    <3>3. Local(c)' \in SUBSET DOMAIN run'.made
          BY DEF Local
    <3>4. IsFiniteSet(Local(c)')
      <4>1. IsFiniteSet(DOMAIN run'.made)
            BY <3>2, FS_Interval
      <4>2. QED
            BY <3>3, <4>1, FS_Subset
    <3>5. QED
          BY <3>1, <3>4, PlacesFinite, FS_CardinalityType
  <2>3. QED
        BY <2>1, <2>2
<1>4. heap[c].refs = Holders(c)
      BY DEF RefsOK
<1>5. QED
      BY <1>1, <1>2, <1>3, <1>4 DEF Holders

-----------------------------------------------------------------------------
(* Steps that leave the heap alone *)

LEMMA InitRefs == Init => RefsInv
<1> SUFFICES ASSUME Init PROVE Sound
    BY DEF RefsInv
<1>1. TypeOK
      BY DEF Init, TypeOK, RunStates, Quiet, Heaps, CellStates, NoCell, Data, Null
<1>2. PhaseOK /\ PreOK /\ RunHolds /\ Room
      BY DEF Init, PhaseOK, PreOK, RunHolds, Room, Quiet, Holding
<1>3. LiveCallbacks(heap) = {}
      BY DEF Init, LiveCallbacks, NoCell
<1>4. CallbacksHold /\ FunctionOK
  <2>1. run.own = 0 /\ posted = <<>> /\ function = 0 /\ glues = 0
        BY DEF Init, Quiet
  <2>2. CallbacksHold
        BY <2>1, <1>3 DEF CallbacksHold
  <2>3. QED
        BY <2>1, <2>2, <1>3, FS_EmptySet DEF FunctionOK
<1>5. RefsOK
  <2> SUFFICES ASSUME NEW c \in Cells PROVE heap[c].refs = Holders(c)
      BY DEF RefsOK
  <2>1. /\ Places(run.slots, c) = {} /\ Local(c) = {} /\ Waiting(c) = {}
        /\ Kept(heap, c) = {}
        BY <1>3 DEF Init, Quiet, Places, Local, Waiting, Kept
  <2>2. Own(c) = 0 /\ heap[c].refs = 0
        BY CellsAssumption DEF Init, Quiet, Own, NoCell
  <2>3. QED
        BY <2>1, <2>2, FS_EmptySet DEF Holders, Uses
<1>6. QED
      BY <1>1, <1>2, <1>4, <1>5 DEF Sound

\* The script's call only makes callback objects, each with a reference on the function.
ScriptStep ==
  /\ UNCHANGED <<run, heap, posted, spoilt>>
  /\ function' \in Nat /\ glues' \in Nat /\ function' - glues' = function - glues

LEMMA ScriptSteps ==
  ASSUME TypeOK, Invoke \/ Look \/ InvokeBase \/ Convert \/ Run \/ NotFound \/ Answered
  PROVE  ScriptStep
<1> USE DEF TypeOK, ScriptStep
<1>1. CASE Convert
      BY <1>1 DEF Convert
<1>2. CASE Invoke \/ Look \/ InvokeBase \/ Run \/ NotFound \/ Answered
      BY <1>2 DEF Invoke, Look, InvokeBase, Run, NotFound, Answered
<1>3. QED
      BY <1>1, <1>2

LEMMA ScriptKeeps == Sound /\ ScriptStep => Sound'
<1> SUFFICES ASSUME Sound, ScriptStep PROVE Sound'
    OBVIOUS
<1> USE DEF Sound, ScriptStep
<1>1. TypeOK'
      BY DEF TypeOK
<1>2. PhaseOK' /\ PreOK' /\ RunHolds' /\ CallbacksHold'
      BY DEF PhaseOK, PreOK, ParamOK, RunHolds, CallbacksHold
<1>3. Room'
      BY DEF Room, Unused
<1>4. RefsOK'
      BY DEF RefsOK, Holders, Local, Own, Waiting
<1>5. FunctionOK'
      BY LiveFinite DEF FunctionOK, TypeOK
<1>6. QED
      BY <1>1, <1>2, <1>3, <1>4, <1>5

LEMMA RunCallbackKeeps == Sound /\ RunCallback => Sound'
<1> SUFFICES ASSUME Sound, RunCallback PROVE Sound'
    OBVIOUS
<1> USE DEF Sound
<1>1. PICK cb \in Callbacks :
        /\ Cardinality(Unused) > Len(cb.params)
        /\ \E args \in [DOMAIN cb.params -> Contents \cup {NULL}] :
             run' = [Quiet EXCEPT !.phase = "pre", !.callback = cb, !.args = args,
                       !.slots = [i \in DOMAIN args |-> Garbage],
                       !.made = [i \in DOMAIN args |-> 0]]
      BY DEF RunCallback
<1>2. PICK args \in [DOMAIN cb.params -> Data] :
        run' = [Quiet EXCEPT !.phase = "pre", !.callback = cb, !.args = args,
                  !.slots = [i \in DOMAIN args |-> Garbage],
                  !.made = [i \in DOMAIN args |-> 0]]
      BY <1>1 DEF Data
<1>3. UNCHANGED <<heap, function, glues, posted>> /\ run.phase = "idle"
      BY DEF RunCallback
<1>4. cb.params \in Seq(Types) /\ DOMAIN cb.params = 1 .. Len(cb.params) /\ Len(cb.params) \in Nat
      BY CallbacksAssumption
<1>5. DOMAIN args = 1 .. Len(cb.params) /\ args \in Seq(Data) /\ Len(args) = Len(cb.params)
      BY <1>4
<1>6. /\ run'.phase = "pre" /\ run'.callback = cb /\ run'.args = args /\ run'.param = 1
      /\ run'.slots = [i \in DOMAIN args |-> Garbage] /\ run'.made = [i \in DOMAIN args |-> 0]
      /\ run'.own = 0
      BY <1>2 DEF Quiet
<1>7. TypeOK'
  <2>1. [i \in DOMAIN args |-> Garbage] \in Seq(Variants)
        BY <1>4, <1>5, VariantsTyped
  <2>2. [i \in DOMAIN args |-> 0] \in Seq(Cells \cup {0})
        BY <1>4, <1>5
  <2>3. run' \in RunStates
    <3>1. run' = [phase |-> "pre", callback |-> cb, args |-> args,
                  slots |-> [i \in DOMAIN args |-> Garbage], made |-> [i \in DOMAIN args |-> 0],
                  param |-> 1, success |-> TRUE, own |-> 0, answer |-> NULL, result |-> Null]
          BY <1>2 DEF Quiet
    <3>2. QED
          BY <3>1, <1>5, <2>1, <2>2 DEF RunStates
  <2>4. QED
        BY <1>3, <2>3 DEF TypeOK
<1>8. PhaseOK'
      BY <1>6 DEF PhaseOK
<1>9. PreOK'
      BY <1>5, <1>6 DEF PreOK, ParamOK
<1>10. RunHolds'
      BY <1>5, <1>6, DistinctVariants DEF RunHolds, Holding
<1>11. run.own = 0 /\ run.slots = <<>> /\ run.made = <<>>
      BY <1>3, CellsAssumption DEF PhaseOK
<1>12. CallbacksHold'
      BY <1>3, <1>6 DEF CallbacksHold
<1>13. Room'
  <2>1. Unused' = Unused /\ Len(run'.args) = Len(cb.params)
        BY <1>3, <1>5, <1>6 DEF Unused
  <2>2. Cardinality(Unused) + 1 > Len(cb.params) + 1
        BY <1>1, <1>4, UnusedFinite
  <2>3. QED
        BY <1>6, <2>1, <2>2 DEF Room
<1>14. RefsOK'
  <2>1. ASSUME NEW c \in Cells
        PROVE  Uses(run.slots, c)' + Cardinality(Local(c))'
                 = Uses(run.slots, c) + Cardinality(Local(c))
    <3>1. Places(run.slots, c) = {} /\ Local(c) = {}
          BY <1>11 DEF Places, Local
    <3>2. Places(run'.slots, c) = {} /\ Local(c)' = {}
          BY <1>6, DistinctVariants, CellsAssumption DEF Places, Local
    <3>3. QED
          BY <3>1, <3>2 DEF Uses
  <2>2. QED
        BY <1>3, <1>6, <1>7, <1>11, <2>1, SameHolders
<1>15. FunctionOK'
      BY <1>3 DEF FunctionOK
<1>16. QED
      BY <1>7, <1>8, <1>9, <1>10, <1>12, <1>13, <1>14, <1>15

-----------------------------------------------------------------------------
(* ParamsToVariantsPre *)

LEMMA PreFacts ==
  ASSUME Sound, run.phase = "pre", run.param \in DOMAIN run.args
  PROVE  /\ run.args \in Seq(Data) /\ run.slots \in Seq(Variants)
         /\ run.made \in Seq(Cells \cup {0})
         /\ run.param \in Nat \ {0} /\ run.own = 0
         /\ DOMAIN run.slots = DOMAIN run.args /\ DOMAIN run.made = DOMAIN run.args
         /\ run.slots[run.param] = Garbage /\ run.made[run.param] = 0
         /\ Cardinality(Unused) > 1 /\ NewCell \in Unused
<1> USE DEF Sound
<1>1. /\ run.args \in Seq(Data) /\ run.slots \in Seq(Variants)
      /\ run.made \in Seq(Cells \cup {0}) /\ run.param \in Nat \ {0}
      BY DEF TypeOK, RunStates
<1>2. DOMAIN run.slots = DOMAIN run.args /\ DOMAIN run.made = DOMAIN run.args /\ run.own = 0
      BY DEF PhaseOK
<1>3. run.slots[run.param] = Garbage /\ run.made[run.param] = 0
      BY <1>1 DEF PreOK, ParamOK
<1>4. Cardinality(Unused) > 1
  <2>1. run.param <= Len(run.args) /\ Len(run.args) \in Nat
        BY <1>1
  <2>2. QED
        BY <1>1, <2>1, UnusedFinite DEF Room
<1>5. NewCell \in Unused
      BY <1>4, NewCellUnused, FS_EmptySet
<1>6. QED
      BY <1>1, <1>2, <1>3, <1>4, <1>5

\* Nothing is allocated: the parameter's local variable stays unset, and its slot is
\* as it was, or void.
LEMMA NothingMade ==
  ASSUME Sound, run.phase = "pre", run.param \in DOMAIN run.args,
         UNCHANGED <<heap, function, glues, posted>>,
         NEW b \in BOOLEAN, NEW i, i = run.param,
         \/ /\ run' = [run EXCEPT !.param = i + 1, !.success = b]
            /\ ~Models(run.callback.params[i], {"string", "value"})
            /\ Models(run.callback.params[i], {"pointer", "nullable"}) => run.args[i] = NULL
         \/ /\ run' = [run EXCEPT !.param = i + 1, !.success = b, !.slots[i] = Void]
            /\ Models(run.callback.params[i], {"string"})
  PROVE  Sound'
<1> USE DEF Sound
<1>1. /\ run.args \in Seq(Data) /\ run.slots \in Seq(Variants)
      /\ run.made \in Seq(Cells \cup {0}) /\ i \in Nat \ {0} /\ run.own = 0
      /\ DOMAIN run.slots = DOMAIN run.args /\ DOMAIN run.made = DOMAIN run.args
      /\ run.slots[i] = Garbage /\ run.made[i] = 0 /\ i \in DOMAIN run.args
      BY PreFacts
<1>2. run \in RunStates
      BY DEF TypeOK
<1>3. /\ run'.phase = run.phase /\ run'.callback = run.callback /\ run'.args = run.args
      /\ run'.made = run.made /\ run'.own = run.own /\ run'.param = i + 1
      /\ run'.slots = run.slots
         \/ /\ run'.slots = [run.slots EXCEPT ![i] = Void]
            /\ Models(run.callback.params[i], {"string"})
      BY <1>2 DEF RunStates
<1>4. run'.slots \in Seq(Variants) /\ DOMAIN run'.slots = DOMAIN run.slots
      BY <1>1, <1>3, SeqExcept, VariantsTyped
<1>5. \A j \in DOMAIN run.slots : j # i => run'.slots[j] = run.slots[j]
      BY <1>1, <1>3
<1>6. TypeOK'
  <2>1. run' \in RunStates
    <3>1. run' = [run EXCEPT !.param = i + 1, !.success = b, !.slots = run'.slots]
          BY <1>2, <1>3 DEF RunStates
    <3>2. i + 1 \in Nat \ {0}
          BY <1>1
    <3>3. QED
          BY <3>1, <3>2, <1>2, <1>4 DEF RunStates
  <2>2. QED
        BY <2>1 DEF TypeOK
<1>7. \A c \in Cells, j \in DOMAIN run.slots : run'.slots[j] = Held(c) <=> run.slots[j] = Held(c)
      BY <1>1, <1>3, <1>5, DistinctVariants
<1>8. PhaseOK'
      BY <1>1, <1>3, <1>4 DEF PhaseOK
<1>9. PreOK'
  <2> SUFFICES ASSUME NEW j \in DOMAIN run.args PROVE ParamOK(j)'
      BY <1>3 DEF PreOK
  <2>1. ParamOK(j) /\ j \in Nat
        BY <1>1 DEF PreOK
  <2>2. CASE j # i
    <3>1. (j < i + 1) <=> (j < i)
          BY <1>1, <2>1, <2>2
    <3>2. QED
          BY <1>1, <1>3, <1>5, <2>1, <2>2, <3>1 DEF ParamOK
  <2>3. CASE j = i
    <3>1. i < i + 1
          BY <1>1
    <3>2. CASE run' = [run EXCEPT !.param = i + 1, !.success = b]
                 /\ ~Models(run.callback.params[i], {"string", "value"})
                 /\ (Models(run.callback.params[i], {"pointer", "nullable"}) => run.args[i] = NULL)
          BY <1>1, <1>2, <1>3, <2>3, <3>1, <3>2 DEF ParamOK, RunStates
    <3>3. CASE run' = [run EXCEPT !.param = i + 1, !.success = b, !.slots[i] = Void]
                 /\ Models(run.callback.params[i], {"string"})
      <4>1. run'.slots[i] = Void
            BY <1>1, <1>2, <3>3 DEF RunStates
      <4>2. Models(run.callback.params[i], {"string", "value"})
            BY <3>3 DEF Models
      <4>3. QED
            BY <1>1, <1>3, <2>3, <3>1, <3>3, <4>1, <4>2 DEF ParamOK
    <3>4. QED
          BY <3>2, <3>3
  <2>4. QED
        BY <2>2, <2>3
<1>10. RunHolds'
  <2>1. Holding(heap, run.args, run.slots)'
        BY <1>3, <1>4, <1>7 DEF RunHolds, Holding
  <2>2. \A j \in DOMAIN run.made : run.made[j] # 0 => j # i
        BY <1>1
  <2>3. QED
        BY <1>1, <1>3, <1>5, <2>1, <2>2 DEF RunHolds
<1>11. CallbacksHold' /\ FunctionOK'
       BY <1>3 DEF CallbacksHold, FunctionOK
<1>12. Room'
  <2>1. Unused' = Unused
        BY DEF Unused
  <2>2. Len(run.args) \in Nat
        BY <1>1
  <2>3. QED
        BY <1>1, <1>3, <2>1, <2>2, UnusedFinite DEF Room
<1>13. RefsOK'
  <2>1. ASSUME NEW c \in Cells
        PROVE  Uses(run.slots, c)' + Cardinality(Local(c))'
                 = Uses(run.slots, c) + Cardinality(Local(c))
    <3>1. Places(run'.slots, c) = Places(run.slots, c)
          BY <1>4, <1>7 DEF Places
    <3>2. Local(c)' = Local(c)
          BY <1>1, <1>3, <1>7 DEF Local
    <3>3. QED
          BY <3>1, <3>2 DEF Uses
  <2>2. QED
        BY <1>3, <1>6, <2>1, SameHolders
<1>14. QED
       BY <1>6, <1>8, <1>9, <1>10, <1>11, <1>12, <1>13

\* A cell is allocated, and goes to the parameter's slot or local variable.
LEMMA OneMade ==
  ASSUME Sound, run.phase = "pre", run.param \in DOMAIN run.args,
         UNCHANGED <<function, glues, posted>>,
         NEW i, i = run.param, NEW n, n = NewCell,
         heap' = [heap EXCEPT ![n] = Cell(run.args[i], <<>>)],
         \/ /\ run' = [run EXCEPT !.param = i + 1, !.success = TRUE, !.slots[i] = Held(n)]
            /\ Models(run.callback.params[i], {"string", "value"})
         \/ /\ run' = [run EXCEPT !.param = i + 1, !.success = TRUE, !.made[i] = n]
            /\ ~Models(run.callback.params[i], {"string", "value"})
            /\ Models(run.callback.params[i], {"pointer", "nullable"})
  PROVE  Sound'
<1> USE DEF Sound
<1>1. /\ run.args \in Seq(Data) /\ run.slots \in Seq(Variants)
      /\ run.made \in Seq(Cells \cup {0}) /\ i \in Nat \ {0} /\ run.own = 0
      /\ DOMAIN run.slots = DOMAIN run.args /\ DOMAIN run.made = DOMAIN run.args
      /\ run.slots[i] = Garbage /\ run.made[i] = 0 /\ i \in DOMAIN run.args
      /\ Cardinality(Unused) > 1 /\ n \in Unused
      BY PreFacts
<1>2. run \in RunStates /\ heap \in Heaps
      BY DEF TypeOK
<1>3. n \in Cells /\ heap[n].refs = 0 /\ n # 0
      BY <1>1, CellsAssumption DEF Unused
<1>4. /\ Places(run.slots, n) = {} /\ Local(n) = {} /\ Waiting(n) = {} /\ Kept(heap, n) = {}
      BY <1>3, UnusedUnheld
\* the heap
<1>5. Cell(run.args[i], <<>>) \in CellStates /\ run.args[i] \in Data
      BY <1>1 DEF Cell, CellStates
<1>6. /\ heap' \in Heaps
      /\ heap'[n].refs = 1 /\ heap'[n].content = run.args[i] /\ heap'[n].args = <<>>
      /\ \A x \in Cells : x # n => heap'[x] = heap[x]
      BY <1>2, <1>3, <1>5 DEF Heaps, Cell
<1>7. LiveCallbacks(heap') = LiveCallbacks(heap)
      BY <1>3, <1>6 DEF LiveCallbacks
<1>8. \A x \in LiveCallbacks(heap) : x # n /\ heap'[x] = heap[x]
      BY <1>3, <1>6 DEF LiveCallbacks
<1>9. \A c : Kept(heap', c) = Kept(heap, c)
      BY <1>7, <1>8 DEF Kept
\* the run
<1>10. /\ run'.phase = run.phase /\ run'.callback = run.callback /\ run'.args = run.args
       /\ run'.own = run.own /\ run'.param = i + 1
       /\ run' = [run EXCEPT !.param = i + 1, !.success = TRUE, !.slots = run'.slots,
                             !.made = run'.made]
       BY <1>2 DEF RunStates
<1>11. \/ /\ run'.slots = [run.slots EXCEPT ![i] = Held(n)] /\ run'.made = run.made
          /\ Models(run.callback.params[i], {"string", "value"})
       \/ /\ run'.made = [run.made EXCEPT ![i] = n] /\ run'.slots = run.slots
          /\ ~Models(run.callback.params[i], {"string", "value"})
          /\ Models(run.callback.params[i], {"pointer", "nullable"})
       BY <1>2 DEF RunStates
<1>12. /\ run'.slots \in Seq(Variants) /\ DOMAIN run'.slots = DOMAIN run.slots
       /\ run'.made \in Seq(Cells \cup {0}) /\ DOMAIN run'.made = DOMAIN run.made
  <2>1. CASE run'.slots = [run.slots EXCEPT ![i] = Held(n)] /\ run'.made = run.made
        BY <2>1, <1>1, <1>3, SeqExcept, VariantsTyped
  <2>2. CASE run'.made = [run.made EXCEPT ![i] = n] /\ run'.slots = run.slots
        BY <2>2, <1>1, <1>3, SeqExcept
  <2>3. QED
        BY <1>11, <2>1, <2>2
<1>13. \A j \in DOMAIN run.args : j # i => run'.slots[j] = run.slots[j] /\ run'.made[j] = run.made[j]
       BY <1>1, <1>11
<1>14. \/ run'.slots[i] = Held(n) /\ run'.made[i] = 0
          /\ Models(run.callback.params[i], {"string", "value"})
       \/ run'.slots[i] = Garbage /\ run'.made[i] = n
          /\ ~Models(run.callback.params[i], {"string", "value"})
          /\ Models(run.callback.params[i], {"pointer", "nullable"})
       BY <1>1, <1>11
<1>15. TypeOK'
  <2>1. i + 1 \in Nat \ {0}
        BY <1>1
  <2>2. run' \in RunStates
        BY <2>1, <1>2, <1>10, <1>12 DEF RunStates
  <2>3. QED
        BY <2>2, <1>6 DEF TypeOK
<1>16. PhaseOK'
       BY <1>1, <1>10, <1>12 DEF PhaseOK
<1>17. PreOK'
  <2> SUFFICES ASSUME NEW j \in DOMAIN run.args PROVE ParamOK(j)'
      BY <1>10 DEF PreOK
  <2>1. ParamOK(j) /\ j \in Nat
        BY <1>1 DEF PreOK
  <2>2. CASE j # i
    <3>1. (j < i + 1) <=> (j < i)
          BY <1>1, <2>1, <2>2
    <3>2. QED
          BY <1>1, <1>10, <1>13, <2>1, <2>2, <3>1 DEF ParamOK
  <2>3. CASE j = i
    <3>1. i < i + 1
          BY <1>1
    <3>2. QED
          BY <1>3, <1>10, <1>14, <2>3, <3>1 DEF ParamOK
  <2>4. QED
        BY <2>2, <2>3
<1>18. \A j \in DOMAIN run.made : run.made[j] # 0 => j # i /\ run.made[j] \in Cells /\ run.made[j] # n
  <2>1. \A j \in DOMAIN run.made : run.made[j] # n
        BY <1>1, <1>4 DEF Local, Places
  <2>2. QED
        BY <1>1, <2>1
<1>19. RunHolds'
  <2>1. Holding(heap, run.args, run.slots)'
    <3> SUFFICES ASSUME NEW j \in DOMAIN run.slots, NEW c \in Cells, run'.slots[j] = Held(c)
                 PROVE  heap'[c].args = <<>> /\ heap'[c].content = run.args[j]
        BY <1>10, <1>12 DEF Holding
    <3>1. CASE j = i
          BY <3>1, <1>6, <1>14, DistinctVariants
    <3>2. CASE j # i
      <4>1. run.slots[j] = Held(c) /\ c # n
            BY <3>2, <1>1, <1>4, <1>13 DEF Places
      <4>2. QED
            BY <4>1, <1>6 DEF RunHolds, Holding
    <3>3. QED
          BY <3>1, <3>2
  <2>2. ASSUME NEW j \in DOMAIN run.made, run'.made[j] # 0
        PROVE  /\ heap'[run'.made[j]].args = <<>> /\ heap'[run'.made[j]].content = run.args[j]
               /\ run'.slots[j] \in {Garbage, Held(run'.made[j])}
    <3>1. CASE j = i
          BY <2>2, <3>1, <1>6, <1>14
    <3>2. CASE j # i
          BY <2>2, <3>2, <1>1, <1>6, <1>13, <1>18 DEF RunHolds
    <3>3. QED
          BY <3>1, <3>2
  <2>3. QED
        BY <1>10, <1>12, <2>1, <2>2 DEF RunHolds
<1>20. CallbacksHold'
  <2>1. ASSUME NEW x \in LiveCallbacks(heap), NEW c \in Cells,
               NEW j \in DOMAIN heap[x].args[1].slots, heap[x].args[1].slots[j] = Held(c)
        PROVE  heap'[c] = heap[c]
    <3>1. <<x, j>> \in Kept(heap, c)
          BY <2>1, KeptPairs DEF Places
    <3>2. QED
          BY <3>1, <1>4, <1>6
  <2>2. \A x \in LiveCallbacks(heap) :
          Holding(heap', heap[x].args[1].meant, heap[x].args[1].slots)
        BY <2>1 DEF CallbacksHold, Holding
  <2>3. \A j \in DOMAIN posted : posted[j] \in Cells /\ posted[j] # n
        BY <1>4 DEF TypeOK, Waiting
  <2>4. \A j \in DOMAIN posted : heap'[posted[j]].args # <<>>
        BY <2>3, <1>6 DEF CallbacksHold
  <2>5. ASSUME NEW x \in LiveCallbacks(heap')
        PROVE  LET a == heap'[x].args[1]
               IN  Written(a.params, a.meant, a.slots) /\ Holding(heap', a.meant, a.slots)
    <3>1. x \in LiveCallbacks(heap) /\ heap'[x] = heap[x]
          BY <1>7, <1>8
    <3>2. Written(heap[x].args[1].params, heap[x].args[1].meant, heap[x].args[1].slots)
          BY <3>1 DEF CallbacksHold
    <3>3. QED
          BY <3>1, <3>2, <2>2
  <2>6. QED
        BY <1>1, <1>10, <2>4, <2>5 DEF CallbacksHold
<1>21. Room'
  <2>1. Unused' = Unused \ {n}
        BY <1>3, <1>6 DEF Unused
  <2>2. Cardinality(Unused') = Cardinality(Unused) - 1
        BY <1>1, <2>1, UnusedFinite, FS_RemoveElement
  <2>3. Len(run.args) \in Nat
        BY <1>1
  <2>4. QED
        BY <1>1, <1>10, <2>2, <2>3, UnusedFinite DEF Room
<1>22. RefsOK'
  <2> SUFFICES ASSUME NEW c \in Cells PROVE heap'[c].refs = Holders(c)'
      BY DEF RefsOK
  <2>1. /\ Own(c)' = Own(c) /\ Waiting(c)' = Waiting(c)
        /\ Kept(heap, c)' = Kept(heap, c)
        BY <1>9, <1>10 DEF Own, Waiting
  <2>2. CASE c # n
    <3>1. Places(run'.slots, c) = Places(run.slots, c)
          BY <2>2, <1>1, <1>12, <1>13, <1>14, DistinctVariants DEF Places
    <3>2. Local(c)' = Local(c)
      <4>1. c # 0
            BY CellsAssumption
      <4>2. QED
            BY <4>1, <2>2, <1>1, <1>12, <1>13, <1>14 DEF Local
    <3>3. Holders(c)' = Holders(c)
          BY <2>1, <3>1, <3>2 DEF Holders, Uses
    <3>4. QED
          BY <2>2, <3>3, <1>6 DEF RefsOK
  <2>3. CASE c = n
    <3>1. Own(n) = 0
          BY <1>1, <1>3 DEF Own
    <3>2. \/ Places(run'.slots, n) = {i} /\ Local(n)' = {}
          \/ Places(run'.slots, n) = {} /\ Local(n)' = {i}
      <4>1. \A j \in DOMAIN run.slots : j # i => run'.slots[j] # Held(n) /\ run'.made[j] # n
            BY <1>1, <1>3, <1>4, <1>13, <1>18 DEF Places
      <4>2. QED
            BY <4>1, <1>1, <1>3, <1>12, <1>14, DistinctVariants DEF Places, Local
    <3>3. Uses(run'.slots, n) + Cardinality(Local(n)') = 1
      <4>1. Cardinality({i}) = 1 /\ Cardinality({}) = 0
            BY FS_EmptySet, FS_Singleton
      <4>2. Uses(run'.slots, n) = Cardinality(Places(run'.slots, n))
            BY DEF Uses
      <4>3. \/ Uses(run'.slots, n) = 1 /\ Cardinality(Local(n)') = 0
            \/ Uses(run'.slots, n) = 0 /\ Cardinality(Local(n)') = 1
            BY <3>2, <4>1, <4>2
      <4>4. QED
            BY <4>3
    <3>4. Cardinality(Waiting(n)) = 0 /\ Cardinality(Kept(heap, n)) = 0
          BY <1>4, FS_EmptySet
    <3>5. Holders(n)' = Uses(run'.slots, n) + Cardinality(Local(n)') + 0 + 0 + 0
          BY <2>1, <2>3, <3>1, <3>4 DEF Holders
    <3>6. QED
          BY <2>3, <3>3, <3>5, <1>6
  <2>4. QED
        BY <2>2, <2>3
<1>23. FunctionOK'
       BY <1>7 DEF FunctionOK
<1>24. QED
       BY <1>15, <1>16, <1>17, <1>19, <1>20, <1>21, <1>22, <1>23

LEMMA PreKeeps == Sound /\ Pre => Sound'
<1> SUFFICES ASSUME Sound, Pre PROVE Sound'
    OBVIOUS
<1> DEFINE i == run.param
<1>1. /\ run.phase = "pre" /\ i \in DOMAIN run.args /\ UNCHANGED <<function, glues, posted>>
      /\ ToSlot(i) \/ NoString(i) \/ ToLocal(i) \/ NoObject(i) \/ PlainValue(i)
      BY DEF Pre
<1>2. run \in RunStates
      BY DEF Sound, TypeOK
<1>3. CASE ToSlot(i)
      BY <1>1, <1>3, OneMade DEF ToSlot
<1>4. CASE ToLocal(i)
  <2>1. ~Models(run.callback.params[i], {"string", "value"})
        BY <1>4 DEF ToLocal, Models
  <2>2. QED
        BY <1>1, <1>4, <2>1, OneMade DEF ToLocal
<1>5. CASE NoString(i)
      BY <1>1, <1>5, NothingMade DEF NoString
<1>6. CASE NoObject(i)
  <2> DEFINE b == Models(run.callback.params[i], {"nullable"})
  <2>1. b \in BOOLEAN
        BY DEF Models
  <2>2. /\ run' = [run EXCEPT !.param = i + 1, !.success = b]
        /\ ~Models(run.callback.params[i], {"string", "value"}) /\ run.args[i] = NULL
        /\ UNCHANGED heap
        BY <1>6 DEF NoObject, Models
  <2>3. QED
    <3> HIDE DEF b
    <3> QED
        BY <1>1, <2>1, <2>2, NothingMade
<1>7. CASE PlainValue(i)
  <2>1. /\ ~Models(run.callback.params[i], {"string", "value"})
        /\ ~Models(run.callback.params[i], {"pointer", "nullable"})
        BY <1>7 DEF PlainValue, Models
  <2>2. run' = [run EXCEPT !.param = i + 1, !.success = run.success] /\ run.success \in BOOLEAN
        BY <1>2, <1>7 DEF PlainValue, RunStates
  <2>3. QED
        BY <1>1, <1>7, <2>1, <2>2, NothingMade DEF PlainValue
<1>8. QED
      BY <1>1, <1>3, <1>4, <1>5, <1>6, <1>7

-----------------------------------------------------------------------------
(* ParamsToVariantsPost and the call *)

\* What RunCallback holds stays where it is.
LEMMA OnwardKeeps ==
  ASSUME Sound, UNCHANGED <<heap, function, glues, posted>>, run' \in RunStates,
         UNCHANGED <<run.callback, run.args, run.slots, run.made, run.own>>,
         \/ run.phase = "pre" /\ run'.phase = "release"
         \/ run.phase = "ready" /\ run'.phase = "release"
  PROVE  Sound'
<1> USE DEF Sound
<1>1. TypeOK'
      BY DEF TypeOK
<1>2. PhaseOK' /\ PreOK' /\ RunHolds'
      BY DEF PhaseOK, PreOK, RunHolds, Holding
<1>3. CallbacksHold' /\ FunctionOK'
      BY DEF CallbacksHold, FunctionOK
<1>4. Room'
      BY DEF Room
<1>5. RefsOK'
      BY <1>1, SameHolders DEF Local
<1>6. QED
      BY <1>1, <1>2, <1>3, <1>4, <1>5

LEMMA FilledFacts ==
  ASSUME Sound, run.phase = "pre", run.param \notin DOMAIN run.args
  PROVE  /\ Filled \in Seq(Variants) /\ DOMAIN Filled = DOMAIN run.args
         /\ \A i \in DOMAIN run.args :
              \/ run.made[i] = 0 /\ Filled[i] \notin {Held(c) : c \in Cells}
                 /\ run.slots[i] \notin {Held(c) : c \in Cells}
              \/ run.made[i] = 0 /\ Filled[i] = run.slots[i] /\ \E c \in Cells : Filled[i] = Held(c)
              \/ run.made[i] \in Cells /\ Filled[i] = Held(run.made[i]) /\ run.slots[i] = Garbage
         /\ Written(run.callback.params, run.args, Filled)
<1> USE DEF Sound
<1>1. /\ run.args \in Seq(Data) /\ run.slots \in Seq(Variants)
      /\ run.made \in Seq(Cells \cup {0}) /\ run.param \in Nat \ {0}
      /\ DOMAIN run.slots = DOMAIN run.args /\ DOMAIN run.made = DOMAIN run.args
      BY DEF TypeOK, RunStates, PhaseOK
<1>2. \A i \in DOMAIN run.args : i < run.param /\ ParamOK(i)
      BY <1>1 DEF PreOK
<1>3. DOMAIN Filled = DOMAIN run.args
      BY DEF Filled
<1>4. ASSUME NEW i \in DOMAIN run.args
      PROVE  /\ Filled[i] \in Variants
             /\ \/ run.made[i] = 0 /\ Filled[i] \notin {Held(c) : c \in Cells}
                   /\ run.slots[i] \notin {Held(c) : c \in Cells}
                \/ run.made[i] = 0 /\ Filled[i] = run.slots[i]
                   /\ \E c \in Cells : Filled[i] = Held(c)
                \/ run.made[i] \in Cells /\ Filled[i] = Held(run.made[i])
                   /\ run.slots[i] = Garbage
             /\ \/ Filled[i] = Plain(run.args[i])
                \/ Filled[i] = Void /\ Models(run.callback.params[i], {"string"})
                \/ Filled[i] = Null /\ run.args[i] = NULL
                \/ \E c \in Cells : Filled[i] = Held(c)
  <2>1. run.slots[i] \in Variants /\ run.made[i] \in Cells \cup {0} /\ run.args[i] \in Data
        BY <1>1
  <2>2. CASE Models(run.callback.params[i], {"string", "value"})
    <3>1. Filled[i] = run.slots[i]
          BY <2>2 DEF Filled, Models
    <3>2. QED
          BY <1>2, <2>1, <2>2, <3>1, DistinctVariants DEF ParamOK
  <2>3. CASE /\ ~Models(run.callback.params[i], {"string", "value"})
             /\ Models(run.callback.params[i], {"pointer", "nullable"})
    <3>1. Filled[i] = IF run.made[i] = 0 THEN Null ELSE Held(run.made[i])
          BY <2>3 DEF Filled, Models
    <3>2. run.slots[i] = Garbage /\ (run.made[i] = 0 => run.args[i] = NULL)
          BY <1>2, <2>3 DEF ParamOK
    <3>3. CASE run.made[i] = 0
          BY <3>1, <3>2, <3>3, DistinctVariants, VariantsTyped
    <3>4. CASE run.made[i] # 0
          BY <2>1, <3>1, <3>2, <3>4, VariantsTyped
    <3>5. QED
          BY <3>3, <3>4
  <2>4. CASE /\ ~Models(run.callback.params[i], {"string", "value"})
             /\ ~Models(run.callback.params[i], {"pointer", "nullable"})
    <3>1. Filled[i] = Plain(run.args[i])
          BY <2>4 DEF Filled
    <3>2. QED
          BY <1>2, <2>1, <2>4, <3>1, DistinctVariants, VariantsTyped DEF ParamOK
  <2>5. QED
        BY <2>2, <2>3, <2>4
<1>5. Filled \in Seq(Variants)
  <2>1. DOMAIN Filled = 1 .. Len(run.args) /\ Len(run.args) \in Nat
        BY <1>1, <1>3
  <2>2. Filled = [i \in 1 .. Len(run.args) |-> Filled[i]]
        BY <2>1 DEF Filled
  <2>3. \A i \in 1 .. Len(run.args) : Filled[i] \in Variants
        BY <1>3, <1>4, <2>1
  <2>4. QED
        BY <2>1, <2>2, <2>3
<1>6. Written(run.callback.params, run.args, Filled)
      BY <1>3, <1>4 DEF Written
<1>7. QED
      BY <1>3, <1>4, <1>5, <1>6

LEMMA FillKeeps ==
  ASSUME Sound, run.phase = "pre", run.param \notin DOMAIN run.args,
         UNCHANGED <<heap, function, glues, posted>>,
         run' = [run EXCEPT !.phase = "ready", !.slots = Filled]
  PROVE  Sound'
<1> USE DEF Sound
<1>1. run \in RunStates
      BY DEF TypeOK
<1>2. /\ run'.phase = "ready" /\ run'.callback = run.callback /\ run'.args = run.args
      /\ run'.made = run.made /\ run'.own = run.own /\ run'.slots = Filled
      BY <1>1 DEF RunStates
<1>3. /\ run.made \in Seq(Cells \cup {0}) /\ run.own = 0 /\ run.param \in Nat \ {0}
      /\ run.args \in Seq(Data)
      /\ DOMAIN run.slots = DOMAIN run.args /\ DOMAIN run.made = DOMAIN run.args
      BY <1>1 DEF RunStates, PhaseOK
<1>4. /\ Filled \in Seq(Variants) /\ DOMAIN Filled = DOMAIN run.args
      /\ \A i \in DOMAIN run.args :
           \/ run.made[i] = 0 /\ Filled[i] \notin {Held(c) : c \in Cells}
              /\ run.slots[i] \notin {Held(c) : c \in Cells}
           \/ run.made[i] = 0 /\ Filled[i] = run.slots[i] /\ \E c \in Cells : Filled[i] = Held(c)
           \/ run.made[i] \in Cells /\ Filled[i] = Held(run.made[i]) /\ run.slots[i] = Garbage
      /\ Written(run.callback.params, run.args, Filled)
      BY FilledFacts
<1>5. TypeOK'
      BY <1>1, <1>4 DEF TypeOK, RunStates
<1>6. PhaseOK' /\ PreOK'
      BY <1>2, <1>3, <1>4 DEF PhaseOK, PreOK
<1>7. RunHolds'
  <2>1. ASSUME NEW i \in DOMAIN run.args, NEW c \in Cells, Filled[i] = Held(c)
        PROVE  heap[c].args = <<>> /\ heap[c].content = run.args[i]
    <3>1. run.slots[i] = Held(c) \/ (run.made[i] = c /\ c # 0)
          BY <1>4, <2>1, DistinctVariants, CellsAssumption
    <3>2. QED
          BY <1>3, <3>1 DEF RunHolds, Holding
  <2>2. \A i \in DOMAIN run.made : run.made[i] # 0 => Filled[i] = Held(run.made[i])
        BY <1>3, <1>4
  <2>3. QED
        BY <1>2, <1>3, <1>4, <2>1, <2>2 DEF RunHolds, Holding
<1>8. CallbacksHold' /\ FunctionOK'
      BY <1>2 DEF CallbacksHold, FunctionOK
<1>9. Room'
  <2>1. Len(run.args) \in Nat /\ run.param > Len(run.args)
        BY <1>3
  <2>2. Unused # {}
    <3>1. Cardinality(Unused) > 0
          BY <1>3, <2>1, UnusedFinite DEF Room
    <3>2. QED
          BY <3>1, FS_EmptySet
  <2>3. QED
        BY <1>2, <2>2 DEF Room, Unused
<1>10. RefsOK'
  <2>1. ASSUME NEW c \in Cells
        PROVE  Uses(run.slots, c)' + Cardinality(Local(c))'
                 = Uses(run.slots, c) + Cardinality(Local(c))
    <3>1. c # 0
          BY CellsAssumption
    <3>2. /\ Places(Filled, c) = Places(run.slots, c) \cup Local(c)
          /\ Places(run.slots, c) \cap Local(c) = {}
          /\ Local(c)' = {}
          BY <1>2, <1>3, <1>4, <3>1, DistinctVariants DEF Places, Local
    <3>3. /\ IsFiniteSet(Places(run.slots, c)) /\ Cardinality(Places(run.slots, c)) \in Nat
          /\ IsFiniteSet(Local(c)) /\ Cardinality(Local(c)) \in Nat
          BY HoldersCounted DEF Uses
    <3>4. Cardinality(Places(run.slots, c) \cup Local(c))
            = Cardinality(Places(run.slots, c)) + Cardinality(Local(c))
              - Cardinality(Places(run.slots, c) \cap Local(c))
          BY <3>3, FS_Union
    <3>5. Cardinality(Places(run.slots, c) \cap Local(c)) = 0 /\ Cardinality(Local(c)') = 0
          BY <3>2, FS_EmptySet
    <3>6. /\ Uses(run.slots, c)' = Cardinality(Places(run.slots, c) \cup Local(c))
          /\ Uses(run.slots, c) = Cardinality(Places(run.slots, c))
          BY <1>2, <3>2 DEF Uses
    <3>7. QED
          BY <3>3, <3>4, <3>5, <3>6
  <2>2. QED
        BY <1>2, <1>5, <2>1, SameHolders
<1>11. QED
       BY <1>5, <1>6, <1>7, <1>8, <1>9, <1>10

LEMMA PostKeeps == Sound /\ Post => Sound'
<1> SUFFICES ASSUME Sound, Post PROVE Sound'
    OBVIOUS
<1>1. run \in RunStates
      BY DEF Sound, TypeOK
<1>2. CASE run.success
      BY <1>2, FillKeeps DEF Post
<1>3. CASE ~run.success
  <2>1. run' = [run EXCEPT !.phase = "release"] /\ run.phase = "pre"
        /\ UNCHANGED <<heap, function, glues, posted>>
        BY <1>3 DEF Post
  <2>2. /\ run' \in RunStates /\ run'.phase = "release"
        /\ UNCHANGED <<run.callback, run.args, run.slots, run.made, run.own>>
        BY <1>1, <2>1 DEF RunStates
  <2>3. QED
        BY <2>1, <2>2, OnwardKeeps
<1>4. QED
      BY <1>2, <1>3

\* The function is called at once, or not at all.
LEMMA CallNowKeeps == Sound /\ (CallNow \/ CreateFails) => Sound'
<1> SUFFICES ASSUME Sound, CallNow \/ CreateFails PROVE Sound'
    OBVIOUS
<1>1. run \in RunStates
      BY DEF Sound, TypeOK
<1>2. run.phase = "ready" /\ UNCHANGED <<heap, function, glues, posted>>
      BY DEF CallNow, CreateFails
<1>3. \/ \E answer \in Answers : run' = [run EXCEPT !.phase = "release", !.answer = answer,
                                                    !.result = Void]
      \/ run' = [run EXCEPT !.phase = "release", !.success = FALSE]
      BY DEF CallNow, CreateFails, ReleasedResult
<1>4. /\ run' \in RunStates /\ run'.phase = "release"
      /\ UNCHANGED <<run.callback, run.args, run.slots, run.made, run.own>>
  <2>1. ASSUME NEW answer \in Answers,
               run' = [run EXCEPT !.phase = "release", !.answer = answer, !.result = Void]
        PROVE  /\ run' \in RunStates /\ run'.phase = "release"
               /\ UNCHANGED <<run.callback, run.args, run.slots, run.made, run.own>>
        BY <1>1, <2>1 DEF RunStates
  <2>2. CASE run' = [run EXCEPT !.phase = "release", !.success = FALSE]
        BY <1>1, <2>2 DEF RunStates
  <2>3. QED
        BY <1>3, <2>1, <2>2
<1>5. QED
      BY <1>2, <1>4, OnwardKeeps

LEMMA ReturnKeeps == Sound /\ Return => Sound'
<1> SUFFICES ASSUME Sound, Return PROVE Sound'
    OBVIOUS
<1> USE DEF Sound
<1>1. /\ run.phase = "return" /\ run' = Quiet /\ UNCHANGED <<heap, function, glues, posted>>
      BY DEF Return
<1>2. run.slots = <<>> /\ run.made = <<>> /\ run.own = 0
      BY <1>1 DEF PhaseOK
<1>3. TypeOK'
      BY <1>1 DEF TypeOK, RunStates, Quiet, Null
<1>4. PhaseOK' /\ PreOK' /\ Room' /\ RunHolds'
      BY <1>1 DEF PhaseOK, PreOK, Room, RunHolds, Quiet, Holding
<1>5. CallbacksHold' /\ FunctionOK'
      BY <1>1, <1>2 DEF CallbacksHold, FunctionOK, Quiet
<1>6. RefsOK'
      BY <1>1, <1>2, <1>3, SameHolders DEF Local, Quiet
<1>7. QED
      BY <1>3, <1>4, <1>5, <1>6

-----------------------------------------------------------------------------
(* Steps that give references back *)

\* What is still held is as it was.
LEMMA HoldingAfterRelease ==
  ASSUME TypeOK, CallbacksHold, RunHolds, TypeOK', RefsOK', SameCells(heap, heap'),
         \A i \in DOMAIN posted' : \E j \in DOMAIN posted : posted'[i] = posted[j],
         run'.own \in {0, run.own},
         DOMAIN run.slots = DOMAIN run.made,
         \/ UNCHANGED <<run.args, run.slots, run.made>>
         \/ run'.slots = <<>> /\ run'.made = <<>>
  PROVE  CallbacksHold' /\ RunHolds'
<1>1. /\ \A c \in Cells, i \in DOMAIN run'.slots : run'.slots[i] = Held(c) => heap'[c].refs > 0
      /\ \A i \in DOMAIN run'.made :
           run'.made[i] # 0 /\ run'.slots[i] # Held(run'.made[i]) => heap'[run'.made[i]].refs > 0
      /\ \A i \in DOMAIN posted' : heap'[posted'[i]].refs > 0
      /\ run'.own # 0 => heap'[run'.own].refs > 0
      /\ \A x \in LiveCallbacks(heap'), c \in Cells :
           Places(heap'[x].args[1].slots, c) # {} => heap'[c].refs > 0
  <2>1. HeldAreUsed'
        BY HeldInUse, PTL
  <2>2. QED
        BY <2>1 DEF HeldAreUsed
<1>2. \A x \in Cells : heap'[x].refs > 0 =>
        heap[x].refs > 0 /\ heap'[x].content = heap[x].content /\ heap'[x].args = heap[x].args
      BY DEF SameCells
<1>3. CallbacksHold'
  <2>1. ASSUME NEW x \in LiveCallbacks(heap')
        PROVE  LET a == heap'[x].args[1]
               IN  Written(a.params, a.meant, a.slots) /\ Holding(heap', a.meant, a.slots)
    <3>1. x \in LiveCallbacks(heap) /\ heap'[x].args = heap[x].args
          BY <1>2 DEF LiveCallbacks
    <3> DEFINE a == heap[x].args[1]
    <3>2. Written(a.params, a.meant, a.slots) /\ Holding(heap, a.meant, a.slots)
          BY <3>1 DEF CallbacksHold
    <3>3. \A c \in Cells, i \in DOMAIN a.slots : a.slots[i] = Held(c) => heap'[c].refs > 0
          BY <1>1, <3>1 DEF Places
    <3>4. Holding(heap', a.meant, a.slots)
      <4> HIDE DEF a
      <4> QED
          BY <1>2, <3>2, <3>3 DEF Holding
    <3>5. QED
          BY <3>1, <3>2, <3>4
  <2>2. \A i \in DOMAIN posted' : heap'[posted'[i]].args # <<>>
    <3>1. \A i \in DOMAIN posted' : posted'[i] \in Cells
          BY DEF TypeOK
    <3>2. \A j \in DOMAIN posted : heap[posted[j]].args # <<>>
          BY DEF CallbacksHold
    <3>3. QED
          BY <1>1, <1>2, <3>1, <3>2
  <2>3. run'.own # 0 => heap'[run'.own].args # <<>>
    <3>1. run'.own \in Cells \cup {0}
          BY DEF TypeOK, RunStates
    <3>2. QED
          BY <1>1, <1>2, <3>1 DEF CallbacksHold
  <2>4. QED
        BY <2>1, <2>2, <2>3 DEF CallbacksHold
<1>4. RunHolds'
  <2>1. CASE run'.slots = <<>> /\ run'.made = <<>>
        BY <2>1 DEF RunHolds, Holding
  <2>2. CASE UNCHANGED <<run.args, run.slots, run.made>>
    <3>1. Holding(heap, run.args, run.slots)'
          BY <1>1, <1>2, <2>2 DEF RunHolds, Holding
    <3>2. ASSUME NEW i \in DOMAIN run.made, run.made[i] # 0
          PROVE  heap'[run.made[i]].args = <<>> /\ heap'[run.made[i]].content = run.args[i]
      <4>1. run.made[i] \in Cells /\ run.slots \in Seq(Variants)
            BY <3>2 DEF TypeOK, RunStates
      <4>2. run.slots[i] \in {Garbage, Held(run.made[i])}
            BY <3>2 DEF RunHolds
      <4>3. heap'[run.made[i]].refs > 0
        <5>1. CASE run.slots[i] = Held(run.made[i])
          <6>1. i \in DOMAIN run.slots
                BY <3>2
          <6>2. QED
                BY <1>1, <2>2, <4>1, <5>1, <6>1
        <5>2. CASE run.slots[i] # Held(run.made[i])
              BY <1>1, <2>2, <3>2, <5>2
        <5>3. QED
              BY <5>1, <5>2
      <4>4. QED
            BY <1>2, <3>2, <4>1, <4>3 DEF RunHolds
    <3>3. QED
          BY <2>2, <3>1, <3>2 DEF RunHolds
  <2>3. QED
        BY <2>1, <2>2
<1>5. QED
      BY <1>3, <1>4

\* NPN_ReleaseVariantValue of every slot, if each of them has been written.
LEMMA ReleaseArgsKeeps == Sound /\ ReleaseArgs => RefsInv'
<1> SUFFICES ASSUME Sound, ReleaseArgs, ~spoilt' PROVE Sound'
    BY DEF RefsInv
<1> USE DEF Sound
<1>1. /\ run.phase = "release" /\ UNCHANGED <<function, glues, posted>>
      /\ run' = [run EXCEPT !.phase = "return", !.slots = <<>>, !.made = <<>>]
      /\ \A i \in DOMAIN run.slots : run.slots[i] # Garbage
      BY DEF ReleaseArgs
<1>2. PICK read \in Readings(run.slots) : heap' = Releasing(heap, read)
      BY DEF ReleaseArgs
<1>3. run \in RunStates /\ run.slots \in Seq(Variants) /\ heap \in Heaps
      BY DEF TypeOK, RunStates
<1>4. /\ run'.phase = "return" /\ run'.slots = <<>> /\ run'.made = <<>> /\ run'.own = run.own
      /\ run'.args = run.args
      BY <1>1, <1>3 DEF RunStates
<1>5. /\ DOMAIN run.slots = DOMAIN run.args /\ DOMAIN run.made = DOMAIN run.args /\ run.own = 0
      BY <1>1 DEF PhaseOK
\* what is released is what is there
<1>6. /\ DOMAIN read = DOMAIN run.slots
      /\ \A i \in DOMAIN run.slots :
           read[i] = IF run.slots[i].is = "held" THEN run.slots[i] ELSE Void
      BY <1>1 DEF Readings
<1>7. \A c : Places(read, c) = Places(run.slots, c)
  <2>1. \A c : Held(c).is = "held"
        BY DEF Held, Variant
  <2>2. QED
        BY <1>6, <2>1, DistinctVariants DEF Places
<1>8. Releasing(heap, read) = Releasing(heap, run.slots)
      BY <1>7 DEF Releasing, Uses
<1>9. \A d \in Cells : Uses(run.slots, d) <= heap[d].refs
      BY HoldersCounted DEF RefsOK, Holders
<1>10. \A d \in Cells : Places(run.slots, d) # {} => heap[d].args = <<>>
       BY DEF RunHolds, Holding, Places
<1>11. /\ heap' \in Heaps /\ SameCells(heap, heap')
       /\ \A x \in Cells : heap'[x].refs = heap[x].refs - Uses(run.slots, x)
       BY <1>2, <1>3, <1>8, <1>9, ReleasingLemma
<1>12. /\ LiveCallbacks(heap') = LiveCallbacks(heap)
       /\ \A x : Kept(heap', x) = Kept(heap, x)
       BY <1>2, <1>3, <1>8, <1>9, <1>10, ReleasingKeeps
<1>13. TypeOK'
  <2>1. <<>> \in Seq(Variants) /\ <<>> \in Seq(Cells \cup {0})
        OBVIOUS
  <2>2. run' \in RunStates
        BY <1>1, <1>3, <2>1 DEF RunStates
  <2>3. QED
        BY <1>1, <1>11, <2>2 DEF TypeOK
<1>14. PhaseOK' /\ PreOK' /\ Room'
       BY <1>4, <1>5 DEF PhaseOK, PreOK, Room
<1>15. RefsOK'
  <2> SUFFICES ASSUME NEW c \in Cells PROVE heap'[c].refs = Holders(c)'
      BY DEF RefsOK
  <2>1. Local(c) = {} /\ c # 0
        BY <1>1, <1>5, CellsAssumption DEF RunHolds, Local
  <2>2. /\ Places(run'.slots, c) = {} /\ Local(c)' = {} /\ Waiting(c)' = Waiting(c)
        /\ Own(c)' = Own(c) /\ Kept(heap, c)' = Kept(heap, c)
        BY <1>1, <1>4, <1>12 DEF Places, Local, Waiting, Own
  <2>3. Cardinality(Local(c)) = 0 /\ Cardinality(Local(c)') = 0 /\ Uses(run'.slots, c) = 0
        BY <2>1, <2>2, FS_EmptySet DEF Uses
  <2>4. heap[c].refs = Uses(run.slots, c) + 0 + Own(c) + Cardinality(Waiting(c))
                       + Cardinality(Kept(heap, c))
        BY <2>3 DEF RefsOK, Holders
  <2>5. Holders(c)' = 0 + 0 + Own(c) + Cardinality(Waiting(c)) + Cardinality(Kept(heap, c))
        BY <2>2, <2>3 DEF Holders
  <2>6. /\ Uses(run.slots, c) \in Nat /\ Own(c) \in Nat /\ Cardinality(Waiting(c)) \in Nat
        /\ Cardinality(Kept(heap, c)) \in Nat
        BY HoldersCounted
  <2>7. QED
        BY <1>11, <2>4, <2>5, <2>6
<1>16. CallbacksHold' /\ RunHolds'
       BY <1>1, <1>4, <1>5, <1>11, <1>13, <1>15, HoldingAfterRelease
<1>17. FunctionOK'
       BY <1>1, <1>12 DEF FunctionOK
<1>18. QED
       BY <1>13, <1>14, <1>15, <1>16, <1>17

\* The queue's first reference, counted.
LEMMA TailCount ==
  ASSUME posted \in Seq(Cells), posted # <<>>, posted' = Tail(posted), NEW x,
         IsFiniteSet(Waiting(x))
  PROVE  /\ Cardinality(Waiting(x)') \in Nat
         /\ Cardinality(Waiting(x)) = Cardinality(Waiting(x)') + One(x, Head(posted))
<1> DEFINE W == Waiting(x) \ {1}
           V == {i \in DOMAIN Tail(posted) : Tail(posted)[i] = x}
           f == [i \in W |-> i - 1]
<1>1. /\ DOMAIN posted = 1 .. Len(posted) /\ Len(posted) \in Nat \ {0}
      /\ DOMAIN Tail(posted) = 1 .. (Len(posted) - 1)
      /\ \A i \in DOMAIN Tail(posted) : Tail(posted)[i] = posted[i + 1]
      BY SMT
<1>2. Waiting(x)' = V
      BY DEF Waiting
<1>3. \A i \in W : i - 1 \in V
      BY <1>1 DEF Waiting
<1>4. \A j \in V : j + 1 \in W /\ (j + 1) - 1 = j
      BY <1>1 DEF Waiting
<1>5. f \in Bijection(W, V)
  <2>1. W \subseteq Nat
        BY <1>1 DEF Waiting
  <2>2. f \in [W -> V] /\ \A i, j \in W : f[i] = f[j] => i = j
        BY <1>3, <2>1
  <2>3. \A j \in V : \E i \in W : f[i] = j
        BY <1>4
  <2>4. QED
        BY <2>2, <2>3 DEF Bijection, Injection, Surjection, IsInjective
<1>6. /\ IsFiniteSet(W) /\ Cardinality(W) \in Nat
      /\ Cardinality(W) = IF 1 \in Waiting(x) THEN Cardinality(Waiting(x)) - 1
                          ELSE Cardinality(Waiting(x))
      BY FS_RemoveElement, FS_CardinalityType
<1>7. Cardinality(V) = Cardinality(W)
  <2> HIDE DEF f, W, V
  <2> QED
      BY <1>5, <1>6, FS_Bijection DEF ExistsBijection
<1>8. 1 \in Waiting(x) <=> Head(posted) = x
      BY <1>1 DEF Waiting
<1>9. Cardinality(Waiting(x)) \in Nat
      BY FS_CardinalityType
<1>10. Cardinality(V) = IF Head(posted) = x THEN Cardinality(Waiting(x)) - 1
                        ELSE Cardinality(Waiting(x))
       BY <1>6, <1>7, <1>8
<1>11. Cardinality(V) \in Nat
       BY <1>6, <1>7
<1>12. QED
  <2> HIDE DEF V, W
  <2> QED
      BY <1>2, <1>9, <1>10, <1>11 DEF One

\* What a holder gives up is what the count loses.
LEMMA Shifted ==
  ASSUME NEW x, NEW c, NEW before, NEW after, NEW counted,
         before = Uses(run.slots, x) + Cardinality(Local(x)) + Own(x)
                  + Cardinality(Waiting(x)) + Cardinality(Kept(heap, x)),
         counted = Uses(run.slots, x) + Cardinality(Local(x)) + Own(x)'
                   + Cardinality(Waiting(x)') + Cardinality(Kept(heap', x)),
         Uses(run.slots, x) \in Nat, Cardinality(Local(x)) \in Nat, Own(x) \in Nat,
         Cardinality(Waiting(x)) \in Nat, Cardinality(Kept(heap, x)) \in Nat,
         Own(x)' \in Nat, Cardinality(Waiting(x)') \in Nat,
         Cardinality(Kept(heap', x)) \in Nat, One(x, c) \in Nat,
         Own(x) + Cardinality(Waiting(x)) = Own(x)' + Cardinality(Waiting(x)') + One(x, c),
         after = before - One(x, c) - (Cardinality(Kept(heap, x)) - Cardinality(Kept(heap', x)))
  PROVE  after = counted
OBVIOUS

\* An NPCallback loses the reference of RunCallback, or of the queue that it leaves.
LEMMA DropKeeps ==
  ASSUME Sound, NEW c \in Cells, heap[c].args # <<>>, DropsCallback(c), UNCHANGED glues,
         TypeOK => run' \in RunStates,
         \/ /\ run.phase = "posted" /\ c = run.own /\ UNCHANGED posted
            /\ run' = [run EXCEPT !.phase = "release", !.own = 0]
         \/ /\ posted # <<>> /\ c = Head(posted) /\ posted' = Tail(posted) /\ UNCHANGED run
  PROVE  Sound'
<1> USE DEF Sound
<1>1. run \in RunStates /\ run' \in RunStates /\ heap \in Heaps /\ posted \in Seq(Cells)
      BY DEF TypeOK
<1>2. c # 0 /\ heap[c].refs \in Nat /\ function \in Nat /\ glues \in Nat
      BY <1>1, CellsAssumption DEF Heaps, CellStates, TypeOK
\* who holds it no longer
<1>3. /\ \A x : Local(x)' = Local(x)
      /\ UNCHANGED <<run.args, run.slots, run.made>> /\ run'.own \in {0, run.own}
      /\ posted' \in Seq(Cells)
      /\ \A i \in DOMAIN posted' : \E j \in DOMAIN posted : posted'[i] = posted[j]
  <2>1. CASE posted # <<>> /\ posted' = Tail(posted) /\ UNCHANGED run
        BY <1>1, <2>1 DEF Local
  <2>2. CASE run' = [run EXCEPT !.phase = "release", !.own = 0] /\ UNCHANGED posted
        BY <1>1, <2>2 DEF Local, RunStates
  <2>3. QED
        BY <2>1, <2>2
<1>4. ASSUME NEW x \in Cells
      PROVE  /\ Own(x)' \in Nat /\ Cardinality(Waiting(x)') \in Nat
             /\ Own(x) + Cardinality(Waiting(x))
                  = Own(x)' + Cardinality(Waiting(x)') + One(x, c)
  <2>1. Own(x) \in Nat /\ IsFiniteSet(Waiting(x)) /\ Cardinality(Waiting(x)) \in Nat
        BY HoldersCounted
  <2>2. CASE posted # <<>> /\ c = Head(posted) /\ posted' = Tail(posted) /\ UNCHANGED run
    <3>1. Own(x)' = Own(x)
          BY <2>2 DEF Own
    <3>2. /\ Cardinality(Waiting(x)') \in Nat
          /\ Cardinality(Waiting(x)) = Cardinality(Waiting(x)') + One(x, c)
          BY <1>1, <2>1, <2>2, TailCount
    <3>3. QED
          BY <2>1, <3>1, <3>2 DEF One
  <2>3. CASE c = run.own /\ UNCHANGED posted /\ run' = [run EXCEPT !.phase = "release", !.own = 0]
    <3>1. Waiting(x)' = Waiting(x)
          BY <2>3 DEF Waiting
    <3>2. Own(x) = One(x, c) /\ Own(x)' = 0
          BY <1>1, <2>3, CellsAssumption DEF Own, One, RunStates
    <3>3. QED
          BY <2>1, <3>1, <3>2
  <2>4. QED
        BY <2>2, <2>3
<1>5. heap[c].refs > 0 /\ c \in LiveCallbacks(heap)
  <2>1. heap[c].refs > 0
    <3>1. Own(c) + Cardinality(Waiting(c)) > 0
          BY <1>4 DEF One
    <3>2. QED
          BY <3>1, HoldersCounted DEF RefsOK, Holders
  <2>2. QED
        BY <2>1 DEF LiveCallbacks
<1>6. Flat(heap) /\ Covered(heap)
      BY FlatAndCovered
<1>7. heap' = WithoutCallback(heap, c)
      /\ function' = IF heap[c].refs = 1 THEN function - 1 ELSE function
      BY DEF DropsCallback
<1>8. /\ heap' \in Heaps /\ SameCells(heap, heap')
      /\ LiveCallbacks(heap') = IF heap[c].refs = 1 THEN LiveCallbacks(heap) \ {c}
                                ELSE LiveCallbacks(heap)
      /\ \A x \in Cells :
           heap'[x].refs = heap[x].refs - One(x, c)
                           - (Cardinality(Kept(heap, x)) - Cardinality(Kept(heap', x)))
  <2>1. CASE heap[c].refs = 1
        BY <2>1, <1>1, <1>5, <1>6, <1>7, DropLast
  <2>2. CASE heap[c].refs # 1
    <3>1. /\ heap' \in Heaps /\ SameCells(heap, heap')
          /\ LiveCallbacks(heap') = LiveCallbacks(heap)
          /\ \A x \in Cells : /\ Kept(heap', x) = Kept(heap, x)
                              /\ heap'[x].refs = heap[x].refs - One(x, c)
          BY <2>2, <1>1, <1>5, <1>7, DropOne
    <3>2. \A x \in Cells : /\ Cardinality(Kept(heap, x)) \in Nat /\ heap[x].refs \in Nat
                           /\ One(x, c) \in Nat
          BY HoldersCounted, <1>1 DEF One, Heaps, CellStates
    <3>3. QED
          BY <2>2, <3>1, <3>2
  <2>3. QED
        BY <2>1, <2>2
<1>9. function' \in Nat /\ FunctionOK'
  <2>1. function = glues + Cardinality(LiveCallbacks(heap))
        BY DEF FunctionOK
  <2>2. /\ IsFiniteSet(LiveCallbacks(heap)) /\ Cardinality(LiveCallbacks(heap)) \in Nat
        /\ Cardinality(LiveCallbacks(heap')) \in Nat
        BY LiveFinite
  <2>3. Cardinality(LiveCallbacks(heap) \ {c}) = Cardinality(LiveCallbacks(heap)) - 1
        BY <1>5, <2>2, FS_RemoveElement
  <2>4. QED
        BY <1>2, <1>7, <1>8, <2>1, <2>2, <2>3 DEF FunctionOK
<1>10. TypeOK'
       BY <1>1, <1>2, <1>3, <1>8, <1>9 DEF TypeOK
<1>11. PhaseOK' /\ PreOK'
  <2>1. CASE UNCHANGED run
        BY <2>1 DEF PhaseOK, PreOK, ParamOK
  <2>2. CASE run' = [run EXCEPT !.phase = "release", !.own = 0] /\ run.phase = "posted"
    <3>1. run'.phase = "release" /\ run'.own = 0
          BY <1>1, <2>2 DEF RunStates
    <3>2. QED
          BY <1>3, <2>2, <3>1 DEF PhaseOK, PreOK
  <2>3. QED
        BY <2>1, <2>2
<1>12. Room'
  <2>1. CASE UNCHANGED run
    <3>1. Unused \subseteq Unused'
      <4>1. \A x \in Cells : heap[x].refs = 0 => heap'[x].refs = 0
        <5>1. \A x \in Cells : heap'[x].refs \in Nat
              BY <1>8 DEF Heaps, CellStates
        <5>2. QED
              BY <1>8, <5>1 DEF SameCells
      <4>2. QED
            BY <4>1 DEF Unused
    <3>2. IsFiniteSet(Unused') /\ Cardinality(Unused') \in Nat
      <4>1. Unused' \in SUBSET Cells
            BY DEF Unused
      <4>2. QED
            BY <4>1, CellsAssumption, FS_Subset, FS_CardinalityType
    <3>3. Cardinality(Unused) <= Cardinality(Unused') /\ Cardinality(Unused) \in Nat
          BY <3>1, <3>2, UnusedFinite, FS_Subset
    <3>4. run.phase = "pre" => run.param \in Nat /\ Len(run.args) \in Nat
          BY <1>1 DEF RunStates
    <3>5. QED
          BY <2>1, <3>1, <3>2, <3>3, <3>4 DEF Room
  <2>2. CASE run' = [run EXCEPT !.phase = "release", !.own = 0]
        BY <1>1, <2>2 DEF Room, RunStates
  <2>3. QED
        BY <2>1, <2>2
<1>13. RefsOK'
  <2> SUFFICES ASSUME NEW x \in Cells PROVE heap'[x].refs = Holders(x)'
      BY DEF RefsOK
  <2>1. heap[x].refs = Uses(run.slots, x) + Cardinality(Local(x)) + Own(x)
                       + Cardinality(Waiting(x)) + Cardinality(Kept(heap, x))
        BY DEF RefsOK, Holders
  <2>2. Holders(x)' = Uses(run.slots, x) + Cardinality(Local(x)) + Own(x)'
                      + Cardinality(Waiting(x)') + Cardinality(Kept(heap', x))
        BY <1>3 DEF Holders
  <2>3. /\ Uses(run.slots, x) \in Nat /\ Cardinality(Local(x)) \in Nat /\ Own(x) \in Nat
        /\ Cardinality(Waiting(x)) \in Nat /\ Cardinality(Kept(heap, x)) \in Nat
        /\ Own(x)' \in Nat /\ Cardinality(Waiting(x)') \in Nat
        /\ Cardinality(Kept(heap', x)) \in Nat /\ One(x, c) \in Nat
        BY <1>4, <1>8, HoldersCounted, KeptFinite DEF One
  <2>4. Own(x) + Cardinality(Waiting(x)) = Own(x)' + Cardinality(Waiting(x)') + One(x, c)
        BY <1>4
  <2>5. heap'[x].refs = heap[x].refs - One(x, c)
                        - (Cardinality(Kept(heap, x)) - Cardinality(Kept(heap', x)))
        BY <1>8
  <2>6. QED
        BY <2>1, <2>2, <2>3, <2>4, <2>5, Shifted
<1>14. CallbacksHold' /\ RunHolds'
  <2>1. DOMAIN run.slots = DOMAIN run.made
        BY <1>1 DEF PhaseOK, RunStates
  <2>2. QED
        BY <1>3, <1>8, <1>10, <1>13, <2>1, HoldingAfterRelease
<1>15. QED
       BY <1>9, <1>10, <1>11, <1>12, <1>13, <1>14

-----------------------------------------------------------------------------
(* The posted call *)

\* A new NPCallback: it holds what the slots hold, once more.
LEMMA Retained ==
  ASSUME TypeOK, RefsOK, RunHolds, NEW n \in Unused, NEW content \in CallArgs,
         content.slots = run.slots,
         heap' = Retaining([heap EXCEPT ![n] = [Cell(NULL, <<content>>) EXCEPT !.refs = 2]],
                           run.slots)
  PROVE  /\ heap' \in Heaps
         /\ heap'[n].refs = 2 /\ heap'[n].args = <<content>>
         /\ \A x \in Cells \ {n} : /\ heap'[x].refs = heap[x].refs + Uses(run.slots, x)
                                   /\ heap'[x].content = heap[x].content
                                   /\ heap'[x].args = heap[x].args
                                   /\ heap'[x].refs = 0 <=> heap[x].refs = 0
<1> DEFINE new == [Cell(NULL, <<content>>) EXCEPT !.refs = 2]
           g == [heap EXCEPT ![n] = new]
<1>1. heap \in Heaps /\ run.slots \in Seq(Variants) /\ n \in Cells /\ heap[n].refs = 0
      BY DEF TypeOK, RunStates, Unused
<1>2. /\ new = [refs |-> 2, content |-> NULL, args |-> <<content>>]
      /\ new \in CellStates
  <2>1. <<content>> \in Seq(CallArgs)
        OBVIOUS
  <2>2. NULL \in Data
        BY DEF Data
  <2>3. new = [refs |-> 2, content |-> NULL, args |-> <<content>>]
        BY DEF Cell
  <2>4. QED
    <3> HIDE DEF new
    <3> QED
        BY <2>1, <2>2, <2>3 DEF CellStates
<1>3. \A x \in Cells : g[x] = IF x = n THEN new ELSE heap[x]
      BY <1>1 DEF Heaps
<1>4. \A x \in Cells : g[x] \in CellStates
      BY <1>1, <1>2, <1>3 DEF Heaps
<1>5. \A x \in Cells : Uses(run.slots, x) \in Nat
      BY <1>1, PlacesFinite
<1>6. heap' = [x \in Cells |-> [g[x] EXCEPT !.refs = @ + Uses(run.slots, x)]]
      BY DEF Retaining
<1> HIDE DEF g, new
<1>7. \A x \in Cells : /\ heap'[x] \in CellStates
                       /\ heap'[x].refs = g[x].refs + Uses(run.slots, x)
                       /\ heap'[x].content = g[x].content /\ heap'[x].args = g[x].args
  <2> SUFFICES ASSUME NEW x \in Cells
               PROVE  /\ heap'[x] \in CellStates
                      /\ heap'[x].refs = g[x].refs + Uses(run.slots, x)
                      /\ heap'[x].content = g[x].content /\ heap'[x].args = g[x].args
      OBVIOUS
  <2>1. g[x] \in CellStates /\ Uses(run.slots, x) \in Nat
        BY <1>4, <1>5
  <2>2. heap'[x] = [g[x] EXCEPT !.refs = g[x].refs + Uses(run.slots, x)]
        BY <1>6
  <2>3. g[x].refs + Uses(run.slots, x) \in Nat
        BY <2>1 DEF CellStates
  <2>4. QED
        BY <2>1, <2>2, <2>3 DEF CellStates
<1>8. heap' \in Heaps
      BY <1>6, <1>7 DEF Heaps
<1>9. Uses(run.slots, n) = 0
      BY <1>1, UnusedUnheld, FS_EmptySet DEF Uses
<1>10. heap'[n].refs = 2 /\ heap'[n].args = <<content>>
  <2>1. g[n] = new /\ new.refs = 2 /\ new.args = <<content>>
        BY <1>1, <1>2, <1>3
  <2>2. heap'[n].refs = g[n].refs + Uses(run.slots, n) /\ heap'[n].args = g[n].args
        BY <1>1, <1>7
  <2>3. g[n].refs = 2 /\ g[n].args = <<content>>
        BY <2>1
  <2>4. g[n].refs + Uses(run.slots, n) = 2
        BY <2>3, <1>9
  <2>5. QED
        BY <2>2, <2>3, <2>4
<1>11. ASSUME NEW x \in Cells \ {n}
       PROVE  /\ heap'[x].refs = heap[x].refs + Uses(run.slots, x)
              /\ heap'[x].content = heap[x].content /\ heap'[x].args = heap[x].args
              /\ heap'[x].refs = 0 <=> heap[x].refs = 0
  <2>1. /\ heap'[x].refs = heap[x].refs + Uses(run.slots, x)
        /\ heap'[x].content = heap[x].content /\ heap'[x].args = heap[x].args
        BY <1>3, <1>7
  <2>2. heap[x].refs \in Nat /\ Uses(run.slots, x) \in Nat
        BY <1>1, <1>5 DEF Heaps, CellStates
  <2>3. heap[x].refs = 0 => Uses(run.slots, x) = 0
        BY UnusedUnheld, FS_EmptySet DEF Uses
  <2>4. QED
        BY <2>1, <2>2, <2>3
<1>12. QED
       BY <1>8, <1>10, <1>11

\* The cells of a call's slots are in use, and so they are not the new one's.
LEMMA KeptWithNew ==
  ASSUME TypeOK, RefsOK, NEW n \in Unused, NEW content \in CallArgs,
         content.slots = run.slots, heap' \in Heaps,
         heap'[n].refs = 2, heap'[n].args = <<content>>,
         \A x \in Cells \ {n} : /\ heap'[x].args = heap[x].args
                                /\ heap'[x].refs = 0 <=> heap[x].refs = 0
  PROVE  /\ n \notin LiveCallbacks(heap) /\ LiveCallbacks(heap') = LiveCallbacks(heap) \cup {n}
         /\ \A c \in Cells :
              Cardinality(Kept(heap', c)) = Cardinality(Kept(heap, c)) + Uses(run.slots, c)
<1>1. heap \in Heaps /\ run.slots \in Seq(Variants) /\ n \in Cells /\ heap[n].refs = 0
      BY DEF TypeOK, RunStates, Unused
<1>2. \A x \in Cells : heap[x].refs \in Nat /\ heap'[x].refs \in Nat
      BY <1>1 DEF Heaps, CellStates
<1>3. n \notin LiveCallbacks(heap)
      BY <1>1 DEF LiveCallbacks
<1>4. LiveCallbacks(heap') = LiveCallbacks(heap) \cup {n}
      BY <1>1, <1>2 DEF LiveCallbacks
<1>5. heap'[n].args[1].slots = run.slots
      OBVIOUS
<1>6. \A x \in LiveCallbacks(heap) : heap'[x].args = heap[x].args
      BY <1>3 DEF LiveCallbacks
<1>7. ASSUME NEW c \in Cells
      PROVE  Cardinality(Kept(heap', c)) = Cardinality(Kept(heap, c)) + Uses(run.slots, c)
  <2> DEFINE mine == {n} \X Places(run.slots, c)
  <2>1. Kept(heap', c) = Kept(heap, c) \cup mine
        BY <1>4, <1>5, <1>6 DEF Kept
  <2>2. Kept(heap, c) \cap mine = {}
        BY <1>3 DEF Kept
  <2>3. IsFiniteSet(mine) /\ Cardinality(mine) = Uses(run.slots, c) /\ Uses(run.slots, c) \in Nat
        BY <1>1, PlacesFinite, PairedFinite DEF Uses
  <2>4. IsFiniteSet(Kept(heap, c)) /\ Cardinality(Kept(heap, c)) \in Nat
        BY HoldersCounted
  <2> HIDE DEF mine
  <2>5. Cardinality(Kept(heap, c) \cup mine)
          = Cardinality(Kept(heap, c)) + Cardinality(mine) - Cardinality(Kept(heap, c) \cap mine)
        BY <2>3, <2>4, FS_Union
  <2>6. Cardinality(Kept(heap, c) \cap mine) = 0
        BY <2>2, FS_EmptySet
  <2>7. QED
        BY <2>1, <2>3, <2>4, <2>5, <2>6
<1>8. QED
      BY <1>3, <1>4, <1>7

LEMMA CallLaterKeeps == Sound /\ CallLater => Sound'
<1> SUFFICES ASSUME Sound, CallLater PROVE Sound'
    OBVIOUS
<1> USE DEF Sound
<1> DEFINE n == NewCell
           content == [params |-> run.callback.params, meant |-> run.args, slots |-> run.slots]
<1>1. /\ run.phase = "ready"
      /\ heap' = Retaining([heap EXCEPT ![n] = [Cell(NULL, <<content>>) EXCEPT !.refs = 2]],
                           run.slots)
      /\ posted' = Append(posted, n) /\ run' = [run EXCEPT !.phase = "posted", !.own = n]
      /\ function' = function + 1 /\ glues' = glues
      BY DEF CallLater
<1>2. n \in Unused
      BY <1>1, NewCellUnused DEF Room
<1>3. n \in Cells /\ heap[n].refs = 0 /\ n # 0
      BY <1>2, CellsAssumption DEF Unused
<1>4. /\ Places(run.slots, n) = {} /\ Local(n) = {} /\ Waiting(n) = {} /\ Own(n) = 0
      /\ Kept(heap, n) = {}
      BY <1>3, UnusedUnheld
<1>5. /\ run \in RunStates /\ heap \in Heaps /\ posted \in Seq(Cells)
      /\ run.slots \in Seq(Variants) /\ run.args \in Seq(Data) /\ run.own = 0
      /\ DOMAIN run.slots = DOMAIN run.args /\ DOMAIN run.made = DOMAIN run.args
      /\ Written(run.callback.params, run.args, run.slots)
      BY <1>1 DEF TypeOK, RunStates, PhaseOK
<1>6. content \in CallArgs
  <2>1. run.callback \in Callbacks \cup {Quiet.callback}
        BY <1>5 DEF RunStates
  <2>2. run.callback.params \in Seq(Types)
    <3>1. Quiet.callback.params = <<>> /\ <<>> \in Seq(Types)
          BY DEF Quiet
    <3>2. QED
          BY <2>1, <3>1, CallbacksAssumption
  <2>3. QED
        BY <1>5, <2>2 DEF CallArgs
<1>7. content.slots = run.slots /\ content.params = run.callback.params /\ content.meant = run.args
      OBVIOUS
<1> HIDE DEF n, content
<1>8. /\ heap' \in Heaps
      /\ heap'[n].refs = 2 /\ heap'[n].args = <<content>>
      /\ \A x \in Cells \ {n} : /\ heap'[x].refs = heap[x].refs + Uses(run.slots, x)
                                /\ heap'[x].content = heap[x].content
                                /\ heap'[x].args = heap[x].args
                                /\ heap'[x].refs = 0 <=> heap[x].refs = 0
      BY <1>1, <1>2, <1>6, <1>7, Retained
<1>9. /\ n \notin LiveCallbacks(heap) /\ LiveCallbacks(heap') = LiveCallbacks(heap) \cup {n}
      /\ \A c \in Cells :
           Cardinality(Kept(heap', c)) = Cardinality(Kept(heap, c)) + Uses(run.slots, c)
      BY <1>2, <1>6, <1>7, <1>8, KeptWithNew
<1>10. /\ run'.phase = "posted" /\ run'.own = n
       /\ UNCHANGED <<run.callback, run.args, run.slots, run.made>>
       BY <1>1, <1>5 DEF RunStates
<1>11. TypeOK'
  <2>1. run' \in RunStates
        BY <1>1, <1>3, <1>5 DEF RunStates
  <2>2. posted' \in Seq(Cells)
        BY <1>1, <1>3, <1>5
  <2>3. QED
        BY <2>1, <2>2, <1>1, <1>8 DEF TypeOK
<1>12. PhaseOK' /\ PreOK' /\ Room'
  <2>1. PhaseOK'
        BY <1>3, <1>5, <1>10 DEF PhaseOK
  <2>2. QED
        BY <2>1, <1>10 DEF PreOK, Room
<1>13. \A i \in DOMAIN run.slots, c \in Cells : run.slots[i] = Held(c) => c # n
       BY <1>4 DEF Places
<1>14. \A i \in DOMAIN run.made : run.made[i] # 0 => run.made[i] \in Cells \ {n}
  <2>1. \A i \in DOMAIN run.made : run.made[i] # n
        BY <1>4, <1>5 DEF Local, Places
  <2>2. run.made \in Seq(Cells \cup {0})
        BY <1>5 DEF RunStates
  <2>3. QED
        BY <2>1, <2>2
<1>15. RunHolds'
  <2>1. Holding(heap', run.args, run.slots)
        BY <1>8, <1>13 DEF RunHolds, Holding
  <2>2. \A i \in DOMAIN run.made : run.made[i] # 0 =>
          /\ heap'[run.made[i]].args = <<>> /\ heap'[run.made[i]].content = run.args[i]
          /\ run.slots[i] \in {Garbage, Held(run.made[i])}
        BY <1>8, <1>14 DEF RunHolds
  <2>3. QED
        BY <1>10, <2>1, <2>2 DEF RunHolds
<1>16. CallbacksHold'
  <2>1. ASSUME NEW x \in LiveCallbacks(heap')
        PROVE  LET a == heap'[x].args[1]
               IN  Written(a.params, a.meant, a.slots) /\ Holding(heap', a.meant, a.slots)
    <3>1. CASE x = n
      <4>1. heap'[x].args[1] = content
            BY <3>1, <1>8
      <4>2. Holding(heap', run.args, run.slots)
            BY <1>10, <1>15 DEF RunHolds
      <4>3. QED
            BY <4>1, <4>2, <1>5, <1>7
    <3>2. CASE x # n
      <4>1. x \in LiveCallbacks(heap) /\ x \in Cells \ {n} /\ heap'[x].args = heap[x].args
            BY <3>2, <1>8, <1>9 DEF LiveCallbacks
      <4> DEFINE a == heap[x].args[1]
      <4>2. Written(a.params, a.meant, a.slots) /\ Holding(heap, a.meant, a.slots)
            BY <4>1 DEF CallbacksHold
      <4>3. \A i \in DOMAIN a.slots, c \in Cells : a.slots[i] = Held(c) => c # n
        <5>1. \A i \in DOMAIN a.slots : a.slots[i] = Held(n) => <<x, i>> \in Kept(heap, n)
              BY <4>1, KeptPairs DEF Places
        <5>2. QED
              BY <5>1, <1>4
      <4>4. Holding(heap', a.meant, a.slots)
        <5> HIDE DEF a
        <5> QED
            BY <4>2, <4>3, <1>8 DEF Holding
      <4>5. QED
            BY <4>1, <4>2, <4>4
    <3>3. QED
          BY <3>1, <3>2
  <2>2. \A i \in DOMAIN posted' : posted'[i] = n \/ \E j \in DOMAIN posted : posted'[i] = posted[j]
        BY <1>1, <1>3, <1>5
  <2>3. \A j \in DOMAIN posted : posted[j] \in Cells \ {n}
        BY <1>4, <1>5 DEF Waiting
  <2>4. \A i \in DOMAIN posted' : heap'[posted'[i]].args # <<>>
    <3>1. \A j \in DOMAIN posted : heap'[posted[j]].args = heap[posted[j]].args
          BY <2>3, <1>8
    <3>2. \A j \in DOMAIN posted : heap[posted[j]].args # <<>>
          BY DEF CallbacksHold
    <3>3. heap'[n].args # <<>>
          BY <1>8
    <3>4. QED
          BY <2>2, <3>1, <3>2, <3>3
  <2>5. QED
        BY <2>1, <2>4, <1>8, <1>10 DEF CallbacksHold
<1>17. RefsOK'
  <2> SUFFICES ASSUME NEW c \in Cells PROVE heap'[c].refs = Holders(c)'
      BY DEF RefsOK
  <2>1. Local(c)' = Local(c)
        BY <1>10 DEF Local
  <2>2. Holders(c)' = Uses(run.slots, c) + Cardinality(Local(c)) + Own(c)'
                      + Cardinality(Waiting(c)') + Cardinality(Kept(heap', c))
        BY <1>10, <2>1 DEF Holders
  <2>3. /\ Uses(run.slots, c) \in Nat /\ Cardinality(Local(c)) \in Nat
        /\ Cardinality(Waiting(c)) \in Nat /\ Cardinality(Kept(heap, c)) \in Nat
        BY HoldersCounted
  <2>4. CASE c = n
    <3>1. Waiting(c)' = {Len(posted) + 1}
      <4>1. \A i \in DOMAIN posted : posted[i] # n
            BY <1>4 DEF Waiting
      <4>2. /\ DOMAIN posted = 1 .. Len(posted) /\ Len(posted) \in Nat
            /\ DOMAIN posted' = 1 .. (Len(posted) + 1) /\ posted'[Len(posted) + 1] = n
            /\ \A i \in DOMAIN posted : posted'[i] = posted[i]
            BY <1>1, <1>3, <1>5
      <4>3. QED
            BY <2>4, <4>1, <4>2 DEF Waiting
    <3>2. Cardinality(Waiting(c)') = 1 /\ Own(c)' = 1
          BY <2>4, <3>1, <1>10, FS_Singleton DEF Own
    <3>3. Uses(run.slots, c) = 0 /\ Cardinality(Local(c)) = 0 /\ Cardinality(Kept(heap, c)) = 0
          BY <2>4, <1>4, FS_EmptySet DEF Uses
    <3>4. Cardinality(Kept(heap', c)) = 0
          BY <1>9, <3>3
    <3>5. QED
          BY <2>2, <2>4, <3>2, <3>3, <3>4, <1>8
  <2>5. CASE c # n
    <3>1. Waiting(c)' = Waiting(c) /\ Own(c)' = 0 /\ Own(c) = 0
      <4>1. Waiting(c)' = Waiting(c)
            BY <2>5, <1>1, <1>3, <1>5 DEF Waiting
      <4>2. c # 0
            BY CellsAssumption
      <4>3. QED
            BY <2>5, <4>1, <4>2, <1>5, <1>10 DEF Own
    <3>2. /\ heap[c].refs = Uses(run.slots, c) + Cardinality(Local(c)) + 0
                            + Cardinality(Waiting(c)) + Cardinality(Kept(heap, c))
          /\ Holders(c)' = Uses(run.slots, c) + Cardinality(Local(c)) + 0
                           + Cardinality(Waiting(c)) + Cardinality(Kept(heap', c))
          BY <2>2, <3>1 DEF RefsOK, Holders
    <3>3. heap'[c].refs = heap[c].refs + Uses(run.slots, c)
          BY <2>5, <1>8
    <3>4. Cardinality(Kept(heap', c)) = Cardinality(Kept(heap, c)) + Uses(run.slots, c)
          BY <1>9
    <3>5. QED
          BY <2>3, <3>2, <3>3, <3>4
  <2>6. QED
        BY <2>4, <2>5
<1>18. FunctionOK'
  <2>1. Cardinality(LiveCallbacks(heap')) = Cardinality(LiveCallbacks(heap)) + 1
        BY <1>9, LiveFinite, FS_AddElement
  <2>2. QED
        BY <1>1, <2>1, LiveFinite DEF FunctionOK, TypeOK
<1>19. QED
       BY <1>11, <1>12, <1>15, <1>16, <1>17, <1>18

LEMMA ReleaseOwnKeeps == Sound /\ ReleaseOwn => Sound'
<1> SUFFICES ASSUME Sound, ReleaseOwn PROVE Sound'
    OBVIOUS
<1>1. /\ run.phase = "posted" /\ DropsCallback(run.own) /\ UNCHANGED <<glues, posted>>
      /\ run' = [run EXCEPT !.phase = "release", !.own = 0]
      BY DEF ReleaseOwn
<1>2. run \in RunStates
      BY DEF Sound, TypeOK
<1>3. run.own \in Cells /\ heap[run.own].args # <<>>
      BY <1>1, <1>2 DEF Sound, PhaseOK, CallbacksHold, RunStates
<1>4. run' \in RunStates
      BY <1>1, <1>2 DEF RunStates
<1>5. QED
      BY <1>1, <1>3, <1>4, DropKeeps

LEMMA DoAsyncCallKeeps == Sound /\ DoAsyncCall => Sound'
<1> SUFFICES ASSUME Sound, DoAsyncCall PROVE Sound'
    OBVIOUS
<1>1. /\ posted # <<>> /\ posted' = Tail(posted) /\ UNCHANGED <<run, glues>>
      /\ DropsCallback(Head(posted))
      BY DEF DoAsyncCall
<1>2. posted \in Seq(Cells) /\ run \in RunStates
      BY DEF Sound, TypeOK
<1>3. Head(posted) \in Cells /\ heap[Head(posted)].args # <<>>
  <2>1. 1 \in DOMAIN posted /\ Head(posted) = posted[1] /\ Head(posted) \in Cells
        BY <1>1, <1>2
  <2>2. QED
        BY <2>1 DEF Sound, CallbacksHold
<1>4. QED
      BY <1>1, <1>2, <1>3, DropKeeps

-----------------------------------------------------------------------------
(* The invariant, and what the browser is promised *)

LEMMA RefsStep == RefsInv /\ [Next]_vars => RefsInv'
<1> SUFFICES ASSUME RefsInv, [Next]_vars PROVE RefsInv'
    OBVIOUS
<1>1. CASE spoilt
  <2>1. spoilt'
        BY <1>1 DEF Next, vars, Invoke, Look, InvokeBase, Convert, Run, NotFound, Answered,
           RunCallback, Pre, Post, CallNow, CallLater, CreateFails, ReleaseOwn, DoAsyncCall,
           ReleaseArgs, Return
  <2>2. QED
        BY <2>1 DEF RefsInv
<1>2. CASE Sound
  <2>1. CASE Invoke \/ Look \/ InvokeBase \/ Convert \/ Run \/ NotFound \/ Answered
        BY <1>2, <2>1, ScriptSteps, ScriptKeeps DEF RefsInv, Sound
  <2>2. CASE RunCallback
        BY <1>2, <2>2, RunCallbackKeeps DEF RefsInv
  <2>3. CASE Pre
        BY <1>2, <2>3, PreKeeps DEF RefsInv
  <2>4. CASE Post
        BY <1>2, <2>4, PostKeeps DEF RefsInv
  <2>5. CASE CallNow \/ CreateFails
        BY <1>2, <2>5, CallNowKeeps DEF RefsInv
  <2>6. CASE CallLater
        BY <1>2, <2>6, CallLaterKeeps DEF RefsInv
  <2>7. CASE ReleaseOwn
        BY <1>2, <2>7, ReleaseOwnKeeps DEF RefsInv
  <2>8. CASE DoAsyncCall
        BY <1>2, <2>8, DoAsyncCallKeeps DEF RefsInv
  <2>9. CASE ReleaseArgs
        BY <1>2, <2>9, ReleaseArgsKeeps
  <2>10. CASE Return
        BY <1>2, <2>10, ReturnKeeps DEF RefsInv
  <2>11. CASE UNCHANGED vars
    <3>1. ScriptStep
          BY <1>2, <2>11 DEF ScriptStep, vars, Sound, TypeOK
    <3>2. QED
          BY <1>2, <3>1, ScriptKeeps DEF RefsInv
  <2>12. QED
        BY <2>1, <2>2, <2>3, <2>4, <2>5, <2>6, <2>7, <2>8, <2>9, <2>10, <2>11 DEF Next
<1>3. QED
      BY <1>1, <1>2 DEF RefsInv

LEMMA RefsInductive == Spec => []RefsInv
BY InitRefs, RefsStep, PTL DEF Spec

\* Every reference that RunCallback, NPCallback and the callback objects take
\* is held by something that gives it back, whatever callbacks the page
\* defines and however many calls are posted: NPN_ReleaseVariantValue and
\* NPN_ReleaseObject never give back what was not taken.
THEOREM BalancedReferences == Spec => []ReferencesBalanced
<1>1. RefsInv => ReferencesBalanced
      BY DEF RefsInv, Sound, RefsOK, FunctionOK, ReferencesBalanced
<1>2. QED
      BY <1>1, RefsInductive, PTL

\* What is written in a slot is what the function sees.
LEMMA SeenAsMeant ==
  ASSUME NEW params, NEW meant, NEW slots, Written(params, meant, slots),
         Holding(heap, meant, slots),
         \A i \in DOMAIN slots, c \in Cells : slots[i] = Held(c) => heap[c].refs > 0,
         TypeOK, NEW i \in DOMAIN meant
  PROVE  \/ Seen(heap, slots[i]) = Plain(meant[i])
         \/ Models(params[i], {"string"}) /\ Seen(heap, slots[i]) = Void
         \/ meant[i] = NULL /\ Seen(heap, slots[i]) = Null
<1>1. i \in DOMAIN slots
      BY DEF Written
<1>2. CASE slots[i] = Plain(meant[i])
      BY <1>2 DEF Seen, Plain, Variant
<1>3. CASE slots[i] = Void /\ Models(params[i], {"string"})
      BY <1>3 DEF Seen, Void, Variant
<1>4. CASE slots[i] = Null /\ meant[i] = NULL
      BY <1>4 DEF Seen, Null, Variant
<1>5. CASE \E c \in Cells : slots[i] = Held(c)
  <2>1. PICK c \in Cells : slots[i] = Held(c)
        BY <1>5
  <2>2. heap[c].refs > 0 /\ heap[c].content = meant[i]
        BY <1>1, <2>1 DEF Holding
  <2>3. heap[c].refs # 0
        BY <2>2
  <2>4. QED
        BY <2>1, <2>2, <2>3 DEF Seen, Held, Variant
<1>6. QED
      BY <1>1, <1>2, <1>3, <1>4, <1>5 DEF Written

LEMMA HeardStep == RefsInv /\ CalledWithItsArguments /\ [Next]_vars => CalledWithItsArguments'
<1> SUFFICES ASSUME RefsInv, CalledWithItsArguments, [Next]_vars, ~spoilt'
             PROVE  \A i \in DOMAIN heard'.meant :
                      \/ heard'.got[i] = Plain(heard'.meant[i])
                      \/ Models(heard'.params[i], {"string"}) /\ heard'.got[i] = Void
                      \/ heard'.meant[i] = NULL /\ heard'.got[i] = Null
    BY DEF CalledWithItsArguments
<1>1. ~spoilt
      BY DEF Next, vars, Invoke, Look, InvokeBase, Convert, Run, NotFound, Answered,
           RunCallback, Pre, Post, CallNow, CallLater, CreateFails, ReleaseOwn, DoAsyncCall,
           ReleaseArgs, Return
<1>2. TypeOK /\ PhaseOK /\ RunHolds /\ CallbacksHold /\ HeldAreUsed
      BY <1>1, HeldInUse DEF RefsInv, Sound
<1>3. CASE heard' = Silence
      BY <1>3 DEF Silence
<1>4. CASE CallNow
  <2>1. /\ Written(run.callback.params, run.args, run.slots)
        /\ Holding(heap, run.args, run.slots)
        /\ \A i \in DOMAIN run.slots, c \in Cells : run.slots[i] = Held(c) => heap[c].refs > 0
        BY <1>2, <1>4 DEF CallNow, PhaseOK, RunHolds, HeldAreUsed
  <2>2. /\ heard'.params = run.callback.params /\ heard'.meant = run.args
        /\ heard'.got = [i \in DOMAIN run.slots |-> Seen(heap, run.slots[i])]
        BY <1>4 DEF CallNow, Hears
  <2>3. DOMAIN run.slots = DOMAIN run.args
        BY <2>1 DEF Written
  <2>4. QED
        BY <1>2, <2>1, <2>2, <2>3, SeenAsMeant
<1>5. CASE DoAsyncCall
  <2> DEFINE c == Head(posted)
             a == heap[c].args[1]
  <2>1. /\ posted # <<>> /\ heap[c].refs > 0 /\ posted \in Seq(Cells)
        /\ c \in Cells /\ 1 \in DOMAIN posted /\ c = posted[1]
        BY <1>2, <1>5 DEF DoAsyncCall, TypeOK
  <2>2. c \in LiveCallbacks(heap)
        BY <1>2, <2>1 DEF CallbacksHold, LiveCallbacks
  <2>3. Written(a.params, a.meant, a.slots) /\ Holding(heap, a.meant, a.slots)
        BY <1>2, <2>2 DEF CallbacksHold
  <2>4. \A i \in DOMAIN a.slots, d \in Cells : a.slots[i] = Held(d) => heap[d].refs > 0
        BY <1>2, <2>2 DEF HeldAreUsed, Places
  <2>5. /\ heard'.params = a.params /\ heard'.meant = a.meant
        /\ heard'.got = [i \in DOMAIN a.slots |-> Seen(heap, a.slots[i])]
        BY <1>5 DEF DoAsyncCall, Hears
  <2>6. DOMAIN a.slots = DOMAIN a.meant
        BY <2>3 DEF Written
  <2>7. QED
    <3> HIDE DEF a
    <3> QED
        BY <1>2, <2>3, <2>4, <2>5, <2>6, SeenAsMeant
<1>6. CASE UNCHANGED vars
      BY <1>1, <1>6 DEF vars, CalledWithItsArguments
<1>7. QED
      BY <1>3, <1>4, <1>5, <1>6 DEF Next, Invoke, Look, InvokeBase, Convert, Run, NotFound,
         Answered, RunCallback, Pre, Post, CallLater, CreateFails, ReleaseOwn, ReleaseArgs, Return

\* A function is called with the arguments the C++ side meant, each in its own
\* place, at once or long after RunCallback has released its own copies: what
\* ParamsToVariantsPre and Post put in the slots, and NPCallback::Set kept,
\* is still there when NPN_InvokeDefault reads it.
THEOREM HearsWhatWasMeant == Spec => []CalledWithItsArguments
<1>1. Init => CalledWithItsArguments
      BY DEF Init, CalledWithItsArguments, Silence
<1>2. QED
      BY <1>1, HeardStep, RefsInductive, PTL DEF Spec

-----------------------------------------------------------------------------
(* What a type's layers decide, from the innermost one *)

LEMMA TypesNumbered ==
  ASSUME NEW t \in Types
  PROVE  /\ t \in Seq(Layers) /\ t # <<>> /\ Len(t) \in Nat /\ Len(t) > 0
         /\ DOMAIN t = 1 .. Len(t) /\ 1 \in DOMAIN t
<1>1. t \in Seq(Layers) /\ t # <<>>
      BY DEF Types
<1>2. Len(t) \in Nat /\ DOMAIN t = 1 .. Len(t) /\ Len(t) # 0
      BY <1>1
<1>3. QED
      BY <1>1, <1>2

LEMMA TailTyped ==
  ASSUME NEW t \in Types, Len(t) # 1
  PROVE  Tail(t) \in Types /\ Len(Tail(t)) = Len(t) - 1 /\ Len(t) \in Nat /\ Len(t) > 1
<1>1. /\ t \in Seq(Layers) /\ t # <<>> /\ Len(t) \in Nat /\ Len(t) > 1 /\ DOMAIN t = 1 .. Len(t)
  <2>1. t \in Seq(Layers) /\ t # <<>> /\ Len(t) \in Nat /\ Len(t) > 0 /\ DOMAIN t = 1 .. Len(t)
        BY TypesNumbered
  <2>2. Len(t) > 1
        BY <2>1
  <2>3. QED
        BY <2>1, <2>2
<1>2. /\ Tail(t) \in Seq(Layers) /\ Len(Tail(t)) = Len(t) - 1
      /\ \A k \in 1 .. Len(t) - 1 : Tail(t)[k] = t[k + 1]
      BY <1>1
<1>3. DOMAIN Tail(t) = 1 .. Len(t) - 1 /\ Tail(t) # <<>>
      BY <1>1, <1>2
<1>4. ASSUME NEW k \in DOMAIN Tail(t)
      PROVE  Tail(t)[k].model \in IF k < Len(Tail(t)) THEN {"array", "nullable"}
                     ELSE {"number", "boolean", "string", "value", "pointer",
                           "callback", "variant", "void"}
  <2>1. k \in Nat /\ k + 1 \in DOMAIN t /\ Tail(t)[k] = t[k + 1]
        BY <1>1, <1>2, <1>3
  <2>2. k < Len(Tail(t)) <=> k + 1 < Len(t)
        BY <1>1, <1>2, <2>1
  <2>3. t[k + 1].model \in IF k + 1 < Len(t) THEN {"array", "nullable"}
                     ELSE {"number", "boolean", "string", "value", "pointer",
                           "callback", "variant", "void"}
        BY <2>1 DEF Types
  <2>4. QED
        BY <2>1, <2>2, <2>3
<1>5. QED
      BY <1>1, <1>2, <1>3, <1>4 DEF Types

\* A function on types may be given by what it makes of a type's outermost
\* layer and of its own value for the rest: H[type][value of the rest].
Layered(H, r0, F, t) == H[t][IF Len(t) = 1 THEN r0 ELSE F[Tail(t)]]

UpTo(n) == {t \in Types : Len(t) <= n}

Approximations(R, H, r0, n) ==
  {F \in [UpTo(n) -> R] : \A t \in UpTo(n) : F[t] = Layered(H, r0, F, t)}

LEMMA TailUpTo ==
  ASSUME NEW n \in Nat, NEW t \in UpTo(n), Len(t) # 1
  PROVE  /\ Tail(t) \in UpTo(n) /\ Tail(t) \in UpTo(n - 1) /\ Len(Tail(t)) = Len(t) - 1
         /\ Tail(t) \in Types /\ Len(t) \in Nat
<1>1. t \in Types /\ Len(t) <= n
      BY DEF UpTo
<1>2. Tail(t) \in Types /\ Len(Tail(t)) = Len(t) - 1 /\ Len(t) \in Nat
      BY <1>1, TailTyped
<1>3. QED
      BY <1>1, <1>2 DEF UpTo

LEMMA LayeredValue ==
  ASSUME NEW R, NEW r0 \in R, NEW H \in [Types -> [R -> R]], NEW F, NEW t \in Types,
         Len(t) # 1 => F[Tail(t)] \in R
  PROVE  Layered(H, r0, F, t) \in R
<1>1. (IF Len(t) = 1 THEN r0 ELSE F[Tail(t)]) \in R
      OBVIOUS
<1>2. QED
      BY <1>1 DEF Layered

LEMMA OneApproximation ==
  ASSUME NEW R, NEW r0, NEW H, NEW n \in Nat,
         NEW F \in Approximations(R, H, r0, n), NEW G \in Approximations(R, H, r0, n)
  PROVE  F = G
<1> DEFINE D == {t \in UpTo(n) : F[t] # G[t]}
           S == {Len(t) : t \in D}
<1>1. S = {}
  <2> SUFFICES ASSUME S # {} PROVE FALSE
      OBVIOUS
  <2>1. \A t \in D : t \in Types
        BY DEF UpTo
  <2>2. S \in SUBSET Nat
        BY <2>1, TypesNumbered
  <2> HIDE DEF S
  <2>3. PICK m \in S : \A k \in S : m <= k
        BY <2>2, LeastNumber
  <2> USE DEF S
  <2>4. PICK t \in D : m = Len(t)
        OBVIOUS
  <2>5. t \in UpTo(n) /\ F[t] # G[t]
        OBVIOUS
  <2>6. F[t] = Layered(H, r0, F, t) /\ G[t] = Layered(H, r0, G, t)
        BY <2>5 DEF Approximations
  <2>7. Len(t) # 1 /\ F[Tail(t)] # G[Tail(t)]
        BY <2>5, <2>6 DEF Layered
  <2>8. Tail(t) \in UpTo(n) /\ Len(Tail(t)) = Len(t) - 1 /\ Len(t) \in Nat
        BY <2>5, <2>7, TailUpTo
  <2>9. Len(Tail(t)) \in S
        BY <2>7, <2>8
  <2>10. m <= Len(Tail(t))
        BY <2>3, <2>9
  <2>11. QED
        BY <2>4, <2>8, <2>10
<1>2. \A t \in UpTo(n) : F[t] = G[t]
      BY <1>1
<1>3. F \in [UpTo(n) -> R] /\ G \in [UpTo(n) -> R]
      BY DEF Approximations
<1>4. QED
      BY <1>2, <1>3

LEMMA NextApproximation ==
  ASSUME NEW R, NEW r0 \in R, NEW H \in [Types -> [R -> R]], NEW n \in Nat,
         NEW F \in Approximations(R, H, r0, n)
  PROVE  Approximations(R, H, r0, n + 1) # {}
<1> DEFINE G == [t \in UpTo(n + 1) |-> Layered(H, r0, F, t)]
<1>1. F \in [UpTo(n) -> R] /\ \A t \in UpTo(n) : F[t] = Layered(H, r0, F, t)
      BY DEF Approximations
<1>2. ASSUME NEW t \in UpTo(n + 1)
      PROVE  Layered(H, r0, F, t) \in R /\ Layered(H, r0, G, t) = Layered(H, r0, F, t)
  <2>1. t \in Types
        BY DEF UpTo
  <2>2. Len(t) # 1 => Tail(t) \in UpTo(n + 1) /\ Tail(t) \in UpTo(n)
    <3>1. n + 1 \in Nat /\ (n + 1) - 1 = n
          OBVIOUS
    <3>2. QED
          BY <3>1, TailUpTo
  <2>3. Len(t) # 1 => F[Tail(t)] \in R /\ G[Tail(t)] = F[Tail(t)]
        BY <1>1, <2>2
  <2>4. QED
        BY <2>1, <2>3, LayeredValue DEF Layered
<1>3. G \in [UpTo(n + 1) -> R] /\ \A t \in UpTo(n + 1) : G[t] = Layered(H, r0, G, t)
      BY <1>2
<1>4. QED
  <2> HIDE DEF G
  <2> QED
      BY <1>3 DEF Approximations

LEMMA SomeApproximation ==
  ASSUME NEW R, NEW r0 \in R, NEW H \in [Types -> [R -> R]], NEW n \in Nat
  PROVE  Approximations(R, H, r0, n) # {}
<1> DEFINE S == {k \in Nat : Approximations(R, H, r0, k) = {}}
<1> SUFFICES ASSUME S # {} PROVE FALSE
    OBVIOUS
<1>1. S \in SUBSET Nat
      OBVIOUS
<1>2. PICK m \in S : \A k \in S : m <= k
  <2> HIDE DEF S
  <2> QED
      BY <1>1, LeastNumber
<1>3. CASE m = 0
  <2>1. UpTo(0) = {}
    <3>1. \A t \in Types : Len(t) \in Nat /\ Len(t) > 0
          BY TypesNumbered
    <3>2. QED
          BY <3>1 DEF UpTo
  <2>2. [t \in UpTo(0) |-> r0] \in Approximations(R, H, r0, 0)
        BY <2>1 DEF Approximations
  <2>3. QED
        BY <1>3, <2>2
<1>4. CASE m # 0
  <2>1. m - 1 \in Nat /\ (m - 1) + 1 = m /\ ~(m <= m - 1)
        BY <1>1, <1>4
  <2>2. Approximations(R, H, r0, m - 1) # {}
        BY <1>2, <2>1
  <2>3. Approximations(R, H, r0, (m - 1) + 1) # {}
        BY <2>1, <2>2, NextApproximation
  <2>4. QED
        BY <2>1, <2>3
<1>5. QED
      BY <1>3, <1>4

LayeredOn(R, H, r0, F) == F \in [Types -> R] /\ \A t \in Types : F[t] = Layered(H, r0, F, t)

LEMMA TypeRecursion ==
  ASSUME NEW R, NEW r0 \in R, NEW H \in [Types -> [R -> R]]
  PROVE  \E F : LayeredOn(R, H, r0, F)
<1> DEFINE A(n) == Approximations(R, H, r0, n)
           Best(n) == CHOOSE F : F \in A(n)
           F == [t \in Types |-> Best(Len(t))[t]]
<1>1. \A n \in Nat : Best(n) \in A(n)
      BY SomeApproximation
<1>2. \A n \in Nat : Best(n) \in [UpTo(n) -> R]
                     /\ \A t \in UpTo(n) : Best(n)[t] = Layered(H, r0, Best(n), t)
      BY <1>1 DEF Approximations
<1> HIDE DEF Best
<1>3. ASSUME NEW t \in Types
      PROVE  F[t] \in R /\ F[t] = Layered(H, r0, F, t)
  <2> DEFINE n == Len(t)
  <2>1. n \in Nat /\ n > 0 /\ t \in UpTo(n)
        BY TypesNumbered DEF UpTo
  <2>2. F[t] = Best(n)[t] /\ F[t] \in R /\ F[t] = Layered(H, r0, Best(n), t)
        BY <1>2, <2>1
  <2>3. n # 1 => F[Tail(t)] = Best(n)[Tail(t)]
    <3> SUFFICES ASSUME n # 1 PROVE F[Tail(t)] = Best(n)[Tail(t)]
        OBVIOUS
    <3> DEFINE G == [x \in UpTo(n - 1) |-> Best(n)[x]]
    <3>1. /\ n - 1 \in Nat /\ Tail(t) \in UpTo(n - 1) /\ Len(Tail(t)) = n - 1
          /\ Tail(t) \in Types
          BY <2>1, TailUpTo
    <3>2. UpTo(n - 1) \subseteq UpTo(n)
      <4>1. \A x \in Types : Len(x) \in Nat
            BY TypesNumbered
      <4>2. QED
            BY <2>1, <4>1 DEF UpTo
    <3>3. \A x \in UpTo(n - 1) : Len(x) # 1 => Tail(x) \in UpTo(n - 1)
          BY <3>1, TailUpTo
    <3>4. \A x \in UpTo(n - 1) : Layered(H, r0, G, x) = Layered(H, r0, Best(n), x)
          BY <3>3 DEF Layered
    <3>5. \A x \in UpTo(n - 1) : Best(n)[x] \in R /\ Best(n)[x] = Layered(H, r0, Best(n), x)
          BY <1>2, <2>1, <3>2
    <3>6. G \in [UpTo(n - 1) -> R] /\ \A x \in UpTo(n - 1) : G[x] = Layered(H, r0, G, x)
          BY <3>4, <3>5
    <3>7. G \in A(n - 1)
      <4> HIDE DEF G
      <4> QED
          BY <3>6 DEF Approximations
    <3>8. G = Best(n - 1)
      <4> HIDE DEF G
      <4> QED
          BY <1>1, <3>1, <3>7, OneApproximation
    <3>9. F[Tail(t)] = Best(n - 1)[Tail(t)]
          BY <3>1
    <3>10. G[Tail(t)] = Best(n)[Tail(t)]
          BY <3>1
    <3>11. QED
          BY <3>8, <3>9, <3>10
  <2>4. QED
        BY <2>2, <2>3 DEF Layered
<1>4. F \in [Types -> R] /\ \A t \in Types : F[t] = Layered(H, r0, F, t)
      BY <1>3
<1> HIDE DEF F
<1>5. QED
      BY <1>4 DEF LayeredOn

LEMMA LayerModels ==
  ASSUME NEW t \in Types
  PROVE  /\ Len(t) = 1 => t[1].model \notin {"nullable", "array"}
         /\ t[1].model \in {"number", "boolean", "string", "value", "pointer", "callback",
                            "variant", "void", "nullable", "array"}
<1>1. 1 \in DOMAIN t /\ Len(t) \in Nat
      BY TypesNumbered
<1>2. t[1].model \in IF 1 < Len(t) THEN {"array", "nullable"}
                     ELSE {"number", "boolean", "string", "value", "pointer",
                           "callback", "variant", "void"}
      BY <1>1 DEF Types
<1>3. Len(t) = 1 => ~(1 < Len(t))
      OBVIOUS
<1>4. QED
      BY <1>2, <1>3

Outcomes == [Values -> [BOOLEAN -> SUBSET BOOLEAN]]
Verdicts == [Values -> BOOLEAN]

LEMMA ElementsTyped ==
  ASSUME NEW outcomes, NEW items, NEW ok \in BOOLEAN
  PROVE  Elements(outcomes, items, ok) \subseteq BOOLEAN
BY DEF Elements

LEMMA ArrayTyped ==
  ASSUME NEW outcomes, NEW v \in Values, NEW ok \in BOOLEAN
  PROVE  FromArray(outcomes, v, ok) \subseteq BOOLEAN
<1>1. CASE v.is # "object"
      BY <1>1 DEF FromArray
<1>2. CASE v.is = "object" /\ v.length = "other"
      BY <1>2 DEF FromArray
<1>3. CASE v.is = "object" /\ v.length = "number"
      BY <1>3, ElementsTyped DEF FromArray
<1>4. CASE v.is = "object" /\ v.length = "none"
  <2> DEFINE E == {Elements(outcomes, SubSeq(v.items, 1, n), FALSE) : n \in 0 .. Len(v.items)}
  <2>1. FromArray(outcomes, v, ok) = {FALSE} \cup UNION E
        BY <1>4 DEF FromArray
  <2>2. \A S \in E : S \subseteq BOOLEAN
        BY ElementsTyped
  <2> HIDE DEF E
  <2>3. QED
        BY <2>1, <2>2
<1>5. QED
      BY <1>1, <1>2, <1>3, <1>4, ScriptAssumption

\* What a layer makes of the outcomes, and of the verdicts, inside it.
Converting(layer, inside) ==
  [v \in Values |-> [ok \in BOOLEAN |-> LayerOutcomes(layer, inside, v, ok)]]
Accepting(layer, inside) == [v \in Values |-> LayerFits(layer, inside, v)]

LEMMA Innermost ==
  ASSUME NEW t \in Types, Len(t) = 1, NEW inside, NEW other
  PROVE  /\ Converting(t[1], inside) = Converting(t[1], other)
         /\ Accepting(t[1], inside) = Accepting(t[1], other)
<1>1. t[1].model \notin {"nullable", "array"}
      BY LayerModels
<1>2. \A v, ok : LayerOutcomes(t[1], inside, v, ok) = LayerOutcomes(t[1], other, v, ok)
      BY <1>1 DEF LayerOutcomes
<1>3. \A v : LayerFits(t[1], inside, v) = LayerFits(t[1], other, v)
      BY <1>1 DEF LayerFits
<1>4. QED
      BY <1>2, <1>3 DEF Converting, Accepting

LEMMA LayersTyped ==
  ASSUME NEW t \in Types
  PROVE  /\ \A inside \in Outcomes : Converting(t[1], inside) \in Outcomes
         /\ \A inside \in Verdicts : Accepting(t[1], inside) \in Verdicts
<1>1. ASSUME NEW inside \in Outcomes, NEW v \in Values, NEW ok \in BOOLEAN
      PROVE  LayerOutcomes(t[1], inside, v, ok) \subseteq BOOLEAN
  <2>1. inside[v][ok] \subseteq BOOLEAN /\ FromArray(inside, v, ok) \subseteq BOOLEAN
        BY ArrayTyped DEF Outcomes
  <2>2. {ok /\ v.is = t[1].model} \subseteq BOOLEAN /\ {ok} \subseteq BOOLEAN
        /\ {v.is = "glue" /\ v.class = t[1].class} \subseteq BOOLEAN
        /\ {v.is \in {"object", "glue"}} \subseteq BOOLEAN
        OBVIOUS
  <2>3. CASE t[1].model \in {"number", "boolean", "string"}
        BY <2>2, <2>3 DEF LayerOutcomes
  <2>4. CASE t[1].model \in {"value", "pointer"}
        BY <2>2, <2>4 DEF LayerOutcomes
  <2>5. CASE t[1].model = "callback"
        BY <2>2, <2>5 DEF LayerOutcomes
  <2>6. CASE t[1].model = "nullable"
        BY <2>1, <2>2, <2>6 DEF LayerOutcomes
  <2>7. CASE t[1].model = "array"
        BY <2>1, <2>7 DEF LayerOutcomes
  <2>8. CASE t[1].model \in {"variant", "void"}
        BY <2>2, <2>8 DEF LayerOutcomes
  <2>9. QED
        BY <2>3, <2>4, <2>5, <2>6, <2>7, <2>8, LayerModels
<1>2. ASSUME NEW inside \in Verdicts, NEW v \in Values
      PROVE  LayerFits(t[1], inside, v) \in BOOLEAN
  <2>1. CASE t[1].model \in {"number", "boolean", "string"}
        BY <2>1 DEF LayerFits
  <2>2. CASE t[1].model \in {"value", "pointer"}
        BY <2>2 DEF LayerFits
  <2>3. CASE t[1].model = "callback"
        BY <2>3 DEF LayerFits
  <2>4. CASE t[1].model = "nullable"
        BY <2>4 DEF LayerFits
  <2>5. CASE t[1].model = "array"
        BY <2>5 DEF LayerFits
  <2>6. CASE t[1].model \in {"variant", "void"}
        BY <2>6 DEF LayerFits
  <2>7. QED
        BY <2>1, <2>2, <2>3, <2>4, <2>5, <2>6, LayerModels
<1>3. QED
      BY <1>1, <1>2 DEF Outcomes, Verdicts, Converting, Accepting

LEMMA ConversionsLayered ==
  \A t \in Types : Conversions[t] = Converting(t[1], Conversions[Tail(t)])
<1> DEFINE H == [t \in Types |-> [inside \in Outcomes |-> Converting(t[1], inside)]]
           r0 == [v \in Values |-> [ok \in BOOLEAN |-> {}]]
<1>1. r0 \in Outcomes
      BY DEF Outcomes
<1>2. H \in [Types -> [Outcomes -> Outcomes]]
      BY LayersTyped
<1>3. PICK F : LayeredOn(Outcomes, H, r0, F)
  <2> HIDE DEF H, r0
  <2> QED
      BY <1>1, <1>2, TypeRecursion
<1>4. ASSUME NEW t \in Types
      PROVE  F[t] = Converting(t[1], F[Tail(t)])
  <2>1. F \in [Types -> Outcomes] /\ F[t] = Layered(H, r0, F, t)
        BY <1>3 DEF LayeredOn
  <2>2. CASE Len(t) = 1
    <3>1. F[t] = Converting(t[1], r0)
          BY <1>1, <2>1, <2>2 DEF Layered
    <3>2. QED
          BY <2>2, <3>1, Innermost, LayerModels
  <2>3. CASE Len(t) # 1
    <3>1. Tail(t) \in Types
          BY <2>3, TailTyped
    <3>2. QED
          BY <2>1, <2>3, <3>1 DEF Layered
  <2>4. QED
        BY <2>2, <2>3
<1>5. F = [t \in Types |-> Converting(t[1], F[Tail(t)])]
  <2>1. F \in [Types -> Outcomes]
        BY <1>3 DEF LayeredOn
  <2>2. QED
        BY <1>4, <2>1
<1>6. Conversions = CHOOSE C : C = [t \in Types |-> Converting(t[1], C[Tail(t)])]
      BY DEF Conversions, Converting
<1>7. Conversions = [t \in Types |-> Converting(t[1], Conversions[Tail(t)])]
      BY <1>5, <1>6
<1>8. QED
      BY <1>7

LEMMA FittingLayered ==
  /\ \A t \in Types : Fitting[t] = Accepting(t[1], Fitting[Tail(t)])
<1> DEFINE H == [t \in Types |-> [inside \in Verdicts |-> Accepting(t[1], inside)]]
           r0 == [v \in Values |-> FALSE]
<1>1. r0 \in Verdicts
      BY DEF Verdicts
<1>2. H \in [Types -> [Verdicts -> Verdicts]]
      BY LayersTyped
<1>3. PICK F : LayeredOn(Verdicts, H, r0, F)
  <2> HIDE DEF H, r0
  <2> QED
      BY <1>1, <1>2, TypeRecursion
<1>4. ASSUME NEW t \in Types
      PROVE  F[t] = Accepting(t[1], F[Tail(t)])
  <2>1. F \in [Types -> Verdicts] /\ F[t] = Layered(H, r0, F, t)
        BY <1>3 DEF LayeredOn
  <2>2. CASE Len(t) = 1
    <3>1. F[t] = Accepting(t[1], r0)
          BY <1>1, <2>1, <2>2 DEF Layered
    <3>2. QED
          BY <2>2, <3>1, Innermost
  <2>3. CASE Len(t) # 1
    <3>1. Tail(t) \in Types
          BY <2>3, TailTyped
    <3>2. QED
          BY <2>1, <2>3, <3>1 DEF Layered
  <2>4. QED
        BY <2>2, <2>3
<1>5. F = [t \in Types |-> Accepting(t[1], F[Tail(t)])]
  <2>1. F \in [Types -> Verdicts]
        BY <1>3 DEF LayeredOn
  <2>2. QED
        BY <1>4, <2>1
<1>6. Fitting = CHOOSE C : C = [t \in Types |-> Accepting(t[1], C[Tail(t)])]
      BY DEF Fitting, Accepting
<1>7. Fitting = [t \in Types |-> Accepting(t[1], Fitting[Tail(t)])]
      BY <1>5, <1>6
<1>8. QED
      BY <1>7

-----------------------------------------------------------------------------
(* NpapiFromNPVariant accepts what the idl accepts *)

LEMMA CountedItems ==
  ASSUME NEW v \in Counted
  PROVE  /\ v \in Values
         /\ v.is = "object" => /\ v.length \in {"number", "other"}
                               /\ v.items \in Seq(Values)
                               /\ \A i \in DOMAIN v.items : v.items[i] \in Counted
<1>1. PICK S \in SUBSET Values :
        /\ v \in S
        /\ \A w \in S : w.is = "object" =>
             w.length # "none" /\ \A i \in DOMAIN w.items : w.items[i] \in S
      BY DEF Counted
<1>2. S \subseteq Counted
      BY <1>1 DEF Counted
<1>3. QED
      BY <1>1, <1>2, ScriptAssumption

Agreeing(outcomes, verdicts) ==
  \A v \in Counted : outcomes[v][TRUE] = {verdicts[v]} /\ verdicts[v] \in BOOLEAN

LEMMA ElementsAgree ==
  ASSUME NEW outcomes, NEW verdicts, Agreeing(outcomes, verdicts),
         NEW items \in Seq(Values), \A i \in DOMAIN items : items[i] \in Counted
  PROVE  Elements(outcomes, items, TRUE) = {\A i \in DOMAIN items : verdicts[items[i]]}
<1> DEFINE all == \A i \in DOMAIN items : verdicts[items[i]]
<1>1. CASE items = <<>>
  <2>1. Elements(outcomes, items, TRUE) = {TRUE}
        BY <1>1 DEF Elements
  <2>2. all = TRUE
        BY <1>1
  <2>3. QED
        BY <2>1, <2>2
<1>2. CASE items # <<>>
  <2>1. \A i \in DOMAIN items :
          outcomes[items[i]][TRUE \/ i > 1] = {verdicts[items[i]]} /\ verdicts[items[i]] \in BOOLEAN
    <3>1. \A i : (TRUE \/ i > 1) = TRUE
          OBVIOUS
    <3>2. QED
          BY <3>1 DEF Agreeing
  <2>2. /\ (\A i \in DOMAIN items : TRUE \in outcomes[items[i]][TRUE \/ i > 1]) <=> all
        /\ (\E i \in DOMAIN items : FALSE \in outcomes[items[i]][TRUE \/ i > 1]) <=> ~all
        BY <2>1
  <2>3. Elements(outcomes, items, TRUE) = {s \in BOOLEAN : IF s THEN all ELSE ~all}
        BY <1>2, <2>2 DEF Elements
  <2>4. all = TRUE \/ all = FALSE
        OBVIOUS
  <2>5. {s \in BOOLEAN : IF s THEN all ELSE ~all} = {all}
    <3> HIDE DEF all
    <3>1. CASE all = TRUE
          BY <3>1
    <3>2. CASE all = FALSE
          BY <3>2
    <3>3. QED
          BY <2>4, <3>1, <3>2
  <2>6. QED
        BY <2>3, <2>5
<1>3. QED
      BY <1>1, <1>2

LEMMA ArraysAgree ==
  ASSUME NEW outcomes, NEW verdicts, Agreeing(outcomes, verdicts), NEW v \in Counted
  PROVE  FromArray(outcomes, v, TRUE)
           = { /\ v.is = "object" /\ v.length = "number"
               /\ \A i \in DOMAIN v.items : verdicts[v.items[i]] }
<1>1. CASE v.is # "object"
      BY <1>1 DEF FromArray
<1>2. CASE v.is = "object" /\ v.length = "other"
      BY <1>2 DEF FromArray
<1>3. CASE v.is = "object" /\ v.length = "number"
  <2>1. FromArray(outcomes, v, TRUE) = Elements(outcomes, v.items, TRUE)
        BY <1>3 DEF FromArray
  <2>2. Elements(outcomes, v.items, TRUE) = {\A i \in DOMAIN v.items : verdicts[v.items[i]]}
        BY <1>3, CountedItems, ElementsAgree
  <2>3. QED
        BY <1>3, <2>1, <2>2
<1>4. QED
      BY <1>1, <1>2, <1>3, CountedItems

LEMMA LayersAgree ==
  ASSUME NEW t \in Types, NEW outcomes, NEW verdicts, Len(t) # 1 => Agreeing(outcomes, verdicts)
  PROVE  Agreeing(Converting(t[1], outcomes), Accepting(t[1], verdicts))
<1> SUFFICES ASSUME NEW v \in Counted
             PROVE  /\ LayerOutcomes(t[1], outcomes, v, TRUE) = {LayerFits(t[1], verdicts, v)}
                    /\ LayerFits(t[1], verdicts, v) \in BOOLEAN
    BY CountedItems DEF Agreeing, Converting, Accepting
<1>1. CASE t[1].model \in {"number", "boolean", "string"}
      BY <1>1 DEF LayerOutcomes, LayerFits
<1>2. CASE t[1].model \in {"value", "pointer"}
      BY <1>2 DEF LayerOutcomes, LayerFits
<1>3. CASE t[1].model = "callback"
      BY <1>3 DEF LayerOutcomes, LayerFits
<1>4. CASE t[1].model = "nullable"
  <2>1. outcomes[v][TRUE] = {verdicts[v]} /\ verdicts[v] \in BOOLEAN
        BY <1>4, LayerModels DEF Agreeing
  <2>2. QED
        BY <1>4, <2>1 DEF LayerOutcomes, LayerFits
<1>5. CASE t[1].model = "array"
  <2>1. LayerOutcomes(t[1], outcomes, v, TRUE) = FromArray(outcomes, v, TRUE)
        BY <1>5 DEF LayerOutcomes
  <2>2. FromArray(outcomes, v, TRUE)
          = { /\ v.is = "object" /\ v.length = "number"
              /\ \A i \in DOMAIN v.items : verdicts[v.items[i]] }
        BY <1>5, LayerModels, ArraysAgree
  <2>3. LayerFits(t[1], verdicts, v)
          = (/\ v.is = "object" /\ v.length = "number"
             /\ \A i \in DOMAIN v.items : verdicts[v.items[i]])
        BY <1>5 DEF LayerFits
  <2>4. QED
        BY <2>1, <2>2, <2>3
<1>6. CASE t[1].model \in {"variant", "void"}
      BY <1>6 DEF LayerOutcomes, LayerFits
<1>7. QED
      BY <1>1, <1>2, <1>3, <1>4, <1>5, <1>6, LayerModels

\* Of a value all of whose arrays have a length, the glue accepts what the idl
\* asks for and refuses the rest, whatever the type.
THEOREM AcceptsWhatFits ==
  \A t \in Types, v \in Counted : FromNPVariant(t, v, TRUE) = {Fits(t, v)} /\ Fits(t, v) \in BOOLEAN
<1> DEFINE D == {t \in Types : ~Agreeing(Conversions[t], Fitting[t])}
           S == {Len(t) : t \in D}
<1>1. S = {}
  <2> SUFFICES ASSUME S # {} PROVE FALSE
      OBVIOUS
  <2>1. S \in SUBSET Nat
        BY TypesNumbered
  <2>2. PICK m \in S : \A k \in S : m <= k
    <3> HIDE DEF S
    <3> QED
        BY <2>1, LeastNumber
  <2>3. PICK t \in D : m = Len(t)
        OBVIOUS
  <2>4. ASSUME Len(t) # 1 PROVE Agreeing(Conversions[Tail(t)], Fitting[Tail(t)])
    <3>1. Tail(t) \in Types /\ Len(Tail(t)) = Len(t) - 1 /\ Len(t) \in Nat
          BY <2>4, TailTyped
    <3>2. ~(Len(t) <= Len(t) - 1)
          BY <3>1
    <3>3. Len(Tail(t)) \notin S
          BY <2>2, <2>3, <3>1, <3>2
    <3>4. QED
          BY <3>1, <3>3
  <2>5. Agreeing(Converting(t[1], Conversions[Tail(t)]), Accepting(t[1], Fitting[Tail(t)]))
        BY <2>4, LayersAgree
  <2>6. Agreeing(Conversions[t], Fitting[t])
        BY <2>5, ConversionsLayered, FittingLayered
  <2>7. QED
        BY <2>6
<1>2. QED
      BY <1>1 DEF Agreeing, FromNPVariant, Fits

-----------------------------------------------------------------------------
(* The script's call: the inductive invariant *)

Positions == (Nat \ {0}) \X (Nat \ {0})

CallNames == Names \cup {Idle.name}

CallStates ==
  [phase : {"idle", "looking", "converting", "done"}, name : CallNames,
   args : Seq(Values), at : Positions, param : Nat \ {0}, ran : Seq(Blocks), ok : BOOLEAN]

CallTypeOK ==
  /\ call \in CallStates
  /\ call.phase # "done" => call.ok = FALSE
  /\ call.phase = "looking" => call.param = 1
  /\ call.phase = "converting" => call.at \in Blocks

\* The block whose arguments are being converted.
Trying ==
  call.phase = "converting" =>
    /\ call.at \in Blocks /\ Matches(Block)
    /\ call.param <= Len(Block.params) + 1
    /\ \A p \in 1 .. call.param - 1 : Fits(Block.params[p], call.args[p])

\* What has run fits, in its order, none left out, and gave no result but the last.
RanWell ==
  /\ \A i \in DOMAIN call.ran : call.ran[i] \in FittingBlocks
  /\ \A i, j \in DOMAIN call.ran : j < i => Before(call.ran[j], call.ran[i])
  /\ \A i \in DOMAIN call.ran, b \in FittingBlocks : Before(b, call.ran[i]) => b \in Ran
  /\ \A i \in DOMAIN call.ran :
       i < Len(call.ran) \/ ~call.ok => FALSE \in Convertible(Method(call.ran[i]).result)

\* What fits and lies behind has run, and nothing else.
Frontier ==
  /\ \A i \in DOMAIN call.ran : Before(call.ran[i], call.at)
  /\ \A b \in FittingBlocks : Before(b, call.at) => b \in Ran

Outcome == call.phase = "done" => IF call.ok THEN Ran # {} ELSE FittingBlocks \subseteq Ran

CountedCall == \A i \in DOMAIN call.args : call.args[i] \in Counted

CallInv ==
  /\ CallTypeOK
  /\ CountedCall => Trying /\ RanWell /\ Outcome /\ (call.phase # "done" => Frontier)

LEMMA CallTyped ==
  ASSUME CallTypeOK
  PROVE  /\ call.args \in Seq(Values) /\ call.at \in Positions /\ call.param \in Nat \ {0}
         /\ call.ran \in Seq(Blocks) /\ DOMAIN call.ran = 1 .. Len(call.ran)
         /\ Len(call.ran) \in Nat /\ \A i \in DOMAIN call.ran : call.ran[i] \in Blocks
<1>1. /\ call.args \in Seq(Values) /\ call.at \in Positions /\ call.param \in Nat \ {0}
      /\ call.ran \in Seq(Blocks)
      BY DEF CallTypeOK, CallStates
<1>2. QED
      BY <1>1

LEMMA BlocksTyped ==
  /\ \A c \in DOMAIN Chain : Chain[c] \in Seq([name : STRING, params : Seq(Types), result : Types])
  /\ DOMAIN Chain = 1 .. Len(Chain) /\ Len(Chain) \in Nat
  /\ \A b : b \in Blocks <=> \E c \in DOMAIN Chain : b \in {c} \X DOMAIN Chain[c]
  /\ \A b \in Blocks : /\ b[1] \in DOMAIN Chain /\ b[2] \in DOMAIN Chain[b[1]]
                       /\ b = <<b[1], b[2]>> /\ b \in Positions
                       /\ Method(b).params \in Seq(Types)
<1>1. /\ \A c \in DOMAIN Chain : Chain[c] \in Seq([name : STRING, params : Seq(Types), result : Types])
      /\ DOMAIN Chain = 1 .. Len(Chain) /\ Len(Chain) \in Nat
      BY ChainAssumption
<1>2. \A b : b \in Blocks <=> \E c \in DOMAIN Chain : b \in {c} \X DOMAIN Chain[c]
      BY DEF Blocks
<1>3. ASSUME NEW b \in Blocks
      PROVE  /\ b[1] \in DOMAIN Chain /\ b[2] \in DOMAIN Chain[b[1]]
             /\ b = <<b[1], b[2]>> /\ b \in Positions
             /\ Method(b).params \in Seq(Types)
  <2>1. PICK c \in DOMAIN Chain : b \in {c} \X DOMAIN Chain[c]
        BY <1>2
  <2>2. b[1] = c /\ b[2] \in DOMAIN Chain[c] /\ b = <<b[1], b[2]>>
        BY <2>1
  <2> DEFINE methods == [name : STRING, params : Seq(Types), result : Types]
  <2>3. c \in 1 .. Len(Chain) /\ Len(Chain) \in Nat /\ Chain[c] \in Seq(methods)
        BY <1>1
  <2> HIDE DEF methods
  <2>4. c \in Nat \ {0}
        BY <2>3
  <2>5. b[2] \in Nat \ {0} /\ Chain[c][b[2]] \in methods
        BY <2>2, <2>3
  <2>6. b \in Positions
        BY <2>2, <2>4, <2>5 DEF Positions
  <2>7. Method(b).params \in Seq(Types)
        BY <2>2, <2>5 DEF Method, methods
  <2>8. QED
        BY <2>2, <2>6, <2>7
<1>4. QED
      BY <1>1, <1>2, <1>3

LEMMA BeforeOrder ==
  ASSUME NEW a \in Positions, NEW b \in Positions, NEW c \in Positions
  PROVE  /\ Before(a, b) /\ Before(b, c) => Before(a, c)
         /\ ~Before(a, a)
         /\ Before(a, b) \/ a = b \/ Before(b, a)
<1>1. /\ a[1] \in Nat /\ a[2] \in Nat /\ a = <<a[1], a[2]>>
      /\ b[1] \in Nat /\ b[2] \in Nat /\ b = <<b[1], b[2]>>
      /\ c[1] \in Nat /\ c[2] \in Nat
      BY DEF Positions
<1>2. (a[1] = b[1] /\ a[2] = b[2]) => a = b
      BY <1>1
<1>3. QED
      BY <1>1, <1>2 DEF Before

LEMMA BeforeNext ==
  ASSUME NEW at \in Positions, NEW b \in Positions
  PROVE  /\ <<at[1], at[2] + 1>> \in Positions /\ <<at[1] + 1, 1>> \in Positions
         /\ Before(b, <<at[1], at[2] + 1>>) <=> Before(b, at) \/ b = at
         /\ Before(at, <<at[1], at[2] + 1>>) /\ Before(at, <<at[1] + 1, 1>>)
         /\ Before(b, <<at[1] + 1, 1>>) <=> b[1] <= at[1]
<1>1. /\ at[1] \in Nat \ {0} /\ at[2] \in Nat \ {0} /\ at = <<at[1], at[2]>>
      /\ b[1] \in Nat \ {0} /\ b[2] \in Nat \ {0} /\ b = <<b[1], b[2]>>
      BY DEF Positions
<1>2. (at[1] = b[1] /\ at[2] = b[2]) <=> b = at
      BY <1>1
<1>3. /\ <<at[1], at[2] + 1>>[1] = at[1] /\ <<at[1], at[2] + 1>>[2] = at[2] + 1
      /\ <<at[1] + 1, 1>>[1] = at[1] + 1 /\ <<at[1] + 1, 1>>[2] = 1
      OBVIOUS
<1>4. <<at[1], at[2] + 1>> \in Positions /\ <<at[1] + 1, 1>> \in Positions
      BY <1>1 DEF Positions
<1>5. Before(b, <<at[1], at[2] + 1>>) <=> Before(b, at) \/ b = at
      BY <1>1, <1>2, <1>3 DEF Before
<1>6. Before(at, <<at[1], at[2] + 1>>) /\ Before(at, <<at[1] + 1, 1>>)
      BY <1>1, <1>3 DEF Before
<1>7. Before(b, <<at[1] + 1, 1>>) <=> b[1] <= at[1]
      BY <1>1, <1>3 DEF Before
<1>8. QED
      BY <1>4, <1>5, <1>6, <1>7

\* The next block's turn: what is left behind does not fit.
LEMMA OnwardCall ==
  ASSUME CallTypeOK, RanWell, Frontier, call.phase # "done",
         call'.phase = "looking", call'.at \in Positions,
         UNCHANGED <<call.name, call.args, call.ran, call.ok>>,
         \A b \in Blocks : Before(b, call.at) => Before(b, call'.at),
         \A b \in FittingBlocks : Before(b, call'.at) => Before(b, call.at)
  PROVE  RanWell' /\ Frontier' /\ Trying' /\ Outcome'
<1>1. FittingBlocks' = FittingBlocks /\ Ran' = Ran
      BY DEF FittingBlocks, Matches, Ran
<1>2. RanWell'
      BY <1>1 DEF RanWell
<1>3. \A i \in DOMAIN call.ran : call.ran[i] \in Blocks
      BY CallTyped
<1>4. Frontier'
      BY <1>1, <1>3 DEF Frontier
<1>5. QED
      BY <1>2, <1>4 DEF Trying, Outcome

\* The turn of the block at some position.
LEMMA TurnTyped ==
  ASSUME NEW c \in CallStates, NEW at \in Positions
  PROVE  [c EXCEPT !.phase = "looking", !.at = at, !.param = 1] \in CallStates
<1> DEFINE looking == [c EXCEPT !.phase = "looking"]
           there == [looking EXCEPT !.at = at]
<1>1. looking \in CallStates
      BY DEF CallStates
<1> HIDE DEF looking
<1>2. there \in CallStates
      BY <1>1 DEF CallStates
<1> HIDE DEF there
<1> DEFINE one == 1
<1>3. one \in Nat \ {0}
      OBVIOUS
<1> HIDE DEF one
<1>4. [there EXCEPT !.param = one] \in CallStates
      BY <1>2, <1>3 DEF CallStates
<1>5. QED
      BY <1>4 DEF there, looking, one

LEMMA InvokeCall == Invoke => CallInv'
<1> SUFFICES ASSUME Invoke PROVE CallInv'
    OBVIOUS
<1>1. PICK name \in Names, args \in Arguments :
        call' = [Idle EXCEPT !.phase = "looking", !.name = name, !.args = args]
      BY DEF Invoke
<1>2. call' = [phase |-> "looking", name |-> name, args |-> args, at |-> <<1, 1>>, param |-> 1,
               ran |-> <<>>, ok |-> FALSE]
      BY <1>1 DEF Idle
<1>3. args \in Seq(Values) /\ <<1, 1>> \in Positions /\ <<>> \in Seq(Blocks)
      BY ScriptAssumption DEF Positions
<1>4. CallTypeOK'
  <2>1. call' \in CallStates
    <3> DEFINE at == <<1, 1>>
    <3>1. at \in Positions /\ name \in CallNames
          BY <1>3 DEF CallNames
    <3> HIDE DEF at
    <3>2. call' = [phase |-> "looking", name |-> name, args |-> args, at |-> at, param |-> 1,
                   ran |-> <<>>, ok |-> FALSE]
          BY <1>2 DEF at
    <3>3. QED
          BY <1>3, <3>1, <3>2 DEF CallStates
  <2>2. QED
        BY <1>2, <2>1 DEF CallTypeOK
<1>5. Trying' /\ Outcome' /\ RanWell'
      BY <1>2 DEF Trying, Outcome, RanWell
<1>6. Frontier'
  <2>1. \A b \in Positions : ~Before(b, <<1, 1>>)
        BY DEF Before, Positions
  <2>2. \A b \in FittingBlocks' : b \in Positions
        BY BlocksTyped DEF FittingBlocks
  <2>3. QED
        BY <1>2, <2>1, <2>2 DEF Frontier
<1>7. QED
      BY <1>4, <1>5, <1>6 DEF CallInv

\* The turn of the block after this one, which does not fit.
LEMMA NextBlockKeeps ==
  ASSUME CallInv, call.phase \in {"looking", "converting"}, call' = NextBlock,
         CountedCall => call.at \notin FittingBlocks
  PROVE  CallInv'
<1>1. call \in CallStates /\ call.at \in Positions
      BY CallTyped DEF CallInv, CallTypeOK
<1>2. /\ call'.phase = "looking" /\ call'.at = <<call.at[1], call.at[2] + 1>>
      /\ UNCHANGED <<call.name, call.args, call.ran, call.ok>>
      /\ call' = [call EXCEPT !.phase = "looking", !.at = <<call.at[1], call.at[2] + 1>>,
                              !.param = 1]
      BY <1>1 DEF NextBlock, CallStates
<1>3. call'.at \in Positions
      BY <1>1, <1>2, BeforeNext
<1>4. CallTypeOK'
  <2> DEFINE at == <<call.at[1], call.at[2] + 1>>
  <2>1. at \in Positions
        BY <1>2, <1>3
  <2> HIDE DEF at
  <2>2. call' \in CallStates /\ call'.param = 1
    <3>1. call' = [call EXCEPT !.phase = "looking", !.at = at, !.param = 1]
          BY <1>2 DEF at
    <3>2. call'.param = 1
          BY <1>1, <3>1 DEF CallStates
    <3>3. call' \in CallStates
      <4>1. [call EXCEPT !.phase = "looking", !.at = at, !.param = 1] \in CallStates
            BY <1>1, <2>1, TurnTyped
      <4>2. QED
            BY <3>1, <4>1
    <3>4. QED
          BY <3>2, <3>3
  <2>3. QED
        BY <1>1, <1>2, <2>2 DEF CallInv, CallTypeOK
<1>5. ASSUME CountedCall PROVE RanWell' /\ Frontier' /\ Trying' /\ Outcome'
  <2>1. \A b \in Blocks : Before(b, call.at) => Before(b, call'.at)
    <3>1. \A b \in Blocks : b \in Positions
          BY BlocksTyped
    <3>2. QED
          BY <1>1, <1>2, <3>1, BeforeNext
  <2>2. \A b \in FittingBlocks : Before(b, call'.at) => Before(b, call.at)
    <3>1. \A b \in FittingBlocks : b \in Positions /\ b # call.at
          BY <1>5, BlocksTyped DEF FittingBlocks
    <3>2. QED
          BY <1>1, <1>2, <3>1, BeforeNext
  <2>3. QED
        BY <1>2, <1>3, <1>5, <2>1, <2>2, OnwardCall DEF CallInv
<1>6. CountedCall' = CountedCall
      BY <1>2 DEF CountedCall
<1>7. QED
      BY <1>4, <1>5, <1>6 DEF CallInv

LEMMA LookCall == CallInv /\ Look => CallInv'
<1> SUFFICES ASSUME CallInv, Look PROVE CallInv'
    OBVIOUS
<1>1. call \in CallStates /\ call.phase = "looking" /\ call.at \in Blocks
      BY DEF CallInv, CallTypeOK, Look
<1>2. CASE ~Matches(Block)
  <2>1. call' = NextBlock
        BY <1>2 DEF Look
  <2>2. call.at \notin FittingBlocks
        BY <1>2 DEF FittingBlocks, Block
  <2>3. QED
        BY <1>1, <2>1, <2>2, NextBlockKeeps
<1>3. CASE Matches(Block)
  <2>1. call' = [call EXCEPT !.phase = "converting"]
        BY <1>3 DEF Look
  <2>2. /\ call'.phase = "converting" /\ call' \in CallStates
        /\ UNCHANGED <<call.name, call.args, call.at, call.param, call.ran, call.ok>>
        BY <1>1, <2>1 DEF CallStates
  <2>3. /\ FittingBlocks' = FittingBlocks /\ Ran' = Ran /\ CountedCall' = CountedCall
        /\ Block' = Block /\ Matches(Block)' = Matches(Block)
        BY <2>2 DEF FittingBlocks, Matches, Ran, CountedCall, Block
  <2>4. QED
    <3>1. Trying'
      <4>1. call.param = 1 /\ Len(Block.params) \in Nat
            BY <1>1, BlocksTyped DEF CallInv, CallTypeOK, Block
      <4>2. call.param <= Len(Block.params) + 1 /\ 1 .. call.param - 1 = {}
            BY <4>1
      <4>3. QED
            BY <1>1, <1>3, <2>2, <2>3, <4>2 DEF Trying
    <3>2. CountedCall => RanWell' /\ Frontier' /\ Outcome'
          BY <1>1, <2>2, <2>3 DEF CallInv, RanWell, Frontier, Outcome
    <3>3. QED
          BY <1>1, <2>2, <2>3, <3>1, <3>2 DEF CallInv, CallTypeOK
<1>4. QED
      BY <1>2, <1>3

\* The base class's turn: no block of this class lies at or behind the place.
LEMMA InvokeBaseCall == CallInv /\ InvokeBase => CallInv'
<1> SUFFICES ASSUME CallInv, InvokeBase PROVE CallInv'
    OBVIOUS
<1>1. /\ call \in CallStates /\ call.phase = "looking" /\ call.at \in Positions
      /\ call.at[1] \in DOMAIN Chain /\ call.at \notin Blocks
      /\ call.param = 1 /\ call.ok = FALSE
      BY CallTyped DEF CallInv, CallTypeOK, InvokeBase
<1> DEFINE at == <<call.at[1] + 1, 1>>
<1>2. call' = [call EXCEPT !.at = at]
      BY <1>1 DEF InvokeBase, CallStates
<1>3. /\ at \in Positions
      /\ \A b \in Positions : Before(b, at) <=> b[1] <= call.at[1]
      BY <1>1, BeforeNext
<1> HIDE DEF at
<1>4. /\ call' \in CallStates /\ call'.phase = "looking" /\ call'.at = at
      /\ UNCHANGED <<call.name, call.args, call.param, call.ran, call.ok>>
      BY <1>1, <1>2, <1>3 DEF CallStates
<1>5. CallTypeOK'
      BY <1>1, <1>4 DEF CallTypeOK
<1>6. call.at[1] \in Nat /\ call.at[2] \in Nat \ {0} /\ call.at = <<call.at[1], call.at[2]>>
      BY <1>1 DEF Positions
<1>7. call.at[2] > Len(Chain[call.at[1]]) /\ Len(Chain[call.at[1]]) \in Nat
  <2>1. Chain[call.at[1]] \in Seq([name : STRING, params : Seq(Types), result : Types])
        BY <1>1, BlocksTyped
  <2>2. /\ DOMAIN Chain[call.at[1]] = 1 .. Len(Chain[call.at[1]])
        /\ Len(Chain[call.at[1]]) \in Nat
        BY <2>1
  <2>3. call.at[2] \notin DOMAIN Chain[call.at[1]]
        BY <1>1, <1>6, BlocksTyped
  <2>4. QED
        BY <1>6, <2>2, <2>3
<1>8. \A b \in Blocks : Before(b, call.at) <=> Before(b, at)
  <2> SUFFICES ASSUME NEW b \in Blocks PROVE Before(b, call.at) <=> Before(b, at)
      OBVIOUS
  <2>1. b \in Positions /\ b[1] \in DOMAIN Chain /\ b[2] \in DOMAIN Chain[b[1]]
        BY BlocksTyped
  <2>2. b[1] \in Nat /\ b[2] \in Nat
        BY <2>1 DEF Positions
  <2>3. Chain[b[1]] \in Seq([name : STRING, params : Seq(Types), result : Types])
        BY <2>1, BlocksTyped
  <2>4. b[2] <= Len(Chain[b[1]])
        BY <2>1, <2>3
  <2>5. Before(b, call.at) <=> b[1] <= call.at[1]
        BY <1>6, <1>7, <2>2, <2>4 DEF Before
  <2>6. QED
        BY <1>3, <2>1, <2>5
<1>9. ASSUME CountedCall PROVE RanWell' /\ Frontier' /\ Trying' /\ Outcome'
  <2>1. \A b \in FittingBlocks : b \in Blocks
        BY DEF FittingBlocks
  <2>2. QED
        BY <1>1, <1>3, <1>4, <1>8, <1>9, <2>1, OnwardCall DEF CallInv
<1>10. CountedCall' = CountedCall
       BY <1>4 DEF CountedCall
<1>11. QED
       BY <1>5, <1>9, <1>10 DEF CallInv

\* A block whose arguments have all been converted is one that fits.
LEMMA AllConverted ==
  ASSUME CallTypeOK, Trying, call.phase = "converting"
  PROVE  /\ call.at \in Blocks /\ Block.params \in Seq(Types)
         /\ DOMAIN Block.params = DOMAIN call.args
         /\ call.param \in Nat \ {0} /\ Len(Block.params) \in Nat
         /\ DOMAIN Block.params = 1 .. Len(Block.params)
         /\ call.param \notin DOMAIN Block.params => call.at \in FittingBlocks
<1>1. call.at \in Blocks /\ Matches(Block) /\ call.param <= Len(Block.params) + 1
      BY DEF Trying
<1>2. Block.params \in Seq(Types)
      BY <1>1, BlocksTyped DEF Block
<1>3. call.args \in Seq(Values) /\ call.param \in Nat \ {0}
      BY CallTyped
<1>4. Len(Block.params) \in Nat /\ DOMAIN Block.params = 1 .. Len(Block.params)
      BY <1>2
<1>5. DOMAIN call.args = 1 .. Len(call.args) /\ Len(Block.params) = Len(call.args)
      BY <1>1, <1>3 DEF Matches
<1>6. ASSUME call.param \notin DOMAIN Block.params
      PROVE  call.at \in FittingBlocks
  <2>1. call.param = Len(Block.params) + 1
        BY <1>1, <1>3, <1>4, <1>6
  <2>2. 1 .. call.param - 1 = DOMAIN call.args
        BY <1>4, <1>5, <2>1
  <2>3. \A p \in DOMAIN call.args : Fits(Block.params[p], call.args[p])
        BY <2>2 DEF Trying
  <2>4. QED
        BY <1>1, <2>3 DEF FittingBlocks, Block
<1>7. QED
      BY <1>1, <1>2, <1>3, <1>4, <1>5, <1>6

LEMMA ConvertCall == CallInv /\ Convert => CallInv'
<1> SUFFICES ASSUME CallInv, Convert PROVE CallInv'
    OBVIOUS
<1> DEFINE type == Block.params[call.param]
           v == call.args[call.param]
<1>1. call \in CallStates /\ CallTypeOK /\ call.phase = "converting"
      BY DEF CallInv, CallTypeOK, Convert
<1>2. PICK success \in FromNPVariant(type, v, TRUE) :
        call' = IF success THEN [call EXCEPT !.param = @ + 1] ELSE NextBlock
      BY DEF Convert
<1>3. call.param \in DOMAIN Block.params
      BY DEF Convert
<1>4. CountedCall => success = Fits(type, v) /\ Fits(type, v) \in BOOLEAN
  <2> SUFFICES ASSUME CountedCall PROVE success = Fits(type, v) /\ Fits(type, v) \in BOOLEAN
      OBVIOUS
  <2>1. /\ Block.params \in Seq(Types) /\ DOMAIN Block.params = DOMAIN call.args
        BY <1>1, AllConverted DEF CallInv
  <2>2. type \in Types /\ v \in Counted
        BY <1>3, <2>1 DEF CountedCall
  <2> HIDE DEF type, v
  <2>3. FromNPVariant(type, v, TRUE) = {Fits(type, v)} /\ Fits(type, v) \in BOOLEAN
        BY <2>2, AcceptsWhatFits
  <2>4. QED
        BY <1>2, <2>3
<1>5. CASE success
  <2> DEFINE next == call.param + 1
  <2>1. call' = [call EXCEPT !.param = next] /\ call.param \in Nat \ {0}
        BY <1>1, <1>2, <1>5, CallTyped DEF CallStates
  <2>2. next \in Nat \ {0} /\ next - 1 = call.param
        BY <2>1
  <2> HIDE DEF next
  <2>3. /\ call' \in CallStates /\ call'.param = next /\ call'.phase = "converting"
        /\ UNCHANGED <<call.name, call.args, call.at, call.ran, call.ok>>
        BY <1>1, <2>1, <2>2 DEF CallStates
  <2>4. CallTypeOK'
        BY <1>1, <2>3 DEF CallTypeOK
  <2>5. /\ FittingBlocks' = FittingBlocks /\ Ran' = Ran /\ CountedCall' = CountedCall
        /\ Block' = Block /\ Matches(Block)' = Matches(Block)
        BY <2>3 DEF FittingBlocks, Matches, Ran, CountedCall, Block
  <2>6. ASSUME CountedCall PROVE Trying'
    <3>1. /\ call.at \in Blocks /\ Matches(Block) /\ call.param \in 1 .. Len(Block.params)
          /\ Len(Block.params) \in Nat
          BY <1>1, <1>3, <2>6, AllConverted DEF CallInv, Trying
    <3>2. next <= Len(Block.params) + 1
          BY <3>1 DEF next
    <3>3. Fits(Block.params[call.param], call.args[call.param])
          BY <1>4, <1>5, <2>6
    <3>4. \A p \in 1 .. call.param - 1 : Fits(Block.params[p], call.args[p])
          BY <1>1, <2>6 DEF CallInv, Trying
    <3>5. \A p \in 1 .. call.param : p = call.param \/ p \in 1 .. call.param - 1
          BY <3>1
    <3>6. \A p \in 1 .. next - 1 : Fits(Block.params[p], call.args[p])
          BY <2>2, <3>3, <3>4, <3>5
    <3>7. QED
          BY <2>3, <2>5, <3>1, <3>2, <3>6 DEF Trying
  <2>7. CountedCall => RanWell' /\ Frontier' /\ Outcome'
        BY <1>1, <2>3, <2>5 DEF CallInv, RanWell, Frontier, Outcome
  <2>8. QED
        BY <2>4, <2>5, <2>6, <2>7 DEF CallInv
<1>6. CASE ~success
  <2>1. call' = NextBlock
        BY <1>2, <1>6
  <2>2. ASSUME CountedCall PROVE call.at \notin FittingBlocks
    <3>1. ~Fits(Block.params[call.param], call.args[call.param])
          BY <1>4, <1>6, <2>2
    <3>2. call.param \in DOMAIN call.args
          BY <1>1, <1>3, <2>2, AllConverted DEF CallInv
    <3>3. QED
          BY <3>1, <3>2 DEF FittingBlocks, Block
  <2>3. QED
        BY <1>1, <2>1, <2>2, NextBlockKeeps
<1>7. QED
      BY <1>5, <1>6

\* One more block has run: it fits, and lies behind none that has run.
LEMMA RanOneMore ==
  ASSUME CallTypeOK, RanWell, Frontier, call.ok = FALSE, call.at \in FittingBlocks,
         call'.ran = Append(call.ran, call.at), UNCHANGED <<call.name, call.args>>,
         ~call'.ok => FALSE \in Convertible(Method(call.at).result)
  PROVE  RanWell' /\ FittingBlocks' = FittingBlocks /\ Ran' = Ran \cup {call.at}
<1>1. FittingBlocks' = FittingBlocks
      BY DEF FittingBlocks, Matches
<1> DEFINE n == Len(call.ran)
<1>2. /\ call.ran \in Seq(Blocks) /\ DOMAIN call.ran = 1 .. n /\ n \in Nat
      /\ call.at \in Blocks
      BY CallTyped DEF FittingBlocks
<1>3. /\ Len(call'.ran) = n + 1 /\ DOMAIN call'.ran = 1 .. n + 1
      /\ \A i \in 1 .. n : call'.ran[i] = call.ran[i]
      /\ call'.ran[n + 1] = call.at
      BY <1>2
<1> HIDE DEF n
<1>4. \A i \in 1 .. n + 1 : i \in 1 .. n \/ i = n + 1
      BY <1>2
<1>5. 1 .. n \subseteq 1 .. n + 1 /\ n + 1 \in 1 .. n + 1
      BY <1>2
<1>6. Ran' = Ran \cup {call.at}
  <2>1. Ran = {call.ran[i] : i \in 1 .. n} /\ Ran' = {call'.ran[i] : i \in 1 .. n + 1}
        BY <1>2, <1>3 DEF Ran
  <2>2. QED
        BY <1>3, <1>4, <1>5, <2>1
<1>7. \A i \in 1 .. n + 1 : call'.ran[i] \in FittingBlocks
      BY <1>2, <1>3, <1>4 DEF RanWell
<1>8. \A i, j \in 1 .. n + 1 : j < i => Before(call'.ran[j], call'.ran[i])
  <2> SUFFICES ASSUME NEW i \in 1 .. n + 1, NEW j \in 1 .. n + 1, j < i
               PROVE  Before(call'.ran[j], call'.ran[i])
      OBVIOUS
  <2>1. j \in 1 .. n
        BY <1>2
  <2>2. CASE i \in 1 .. n
        BY <1>2, <1>3, <2>1, <2>2 DEF RanWell
  <2>3. CASE i = n + 1
        BY <1>2, <1>3, <2>1, <2>3 DEF Frontier
  <2>4. QED
        BY <1>4, <2>2, <2>3
<1>9. \A i \in 1 .. n + 1, b \in FittingBlocks : Before(b, call'.ran[i]) => b \in Ran'
  <2> SUFFICES ASSUME NEW i \in 1 .. n + 1, NEW b \in FittingBlocks, Before(b, call'.ran[i])
               PROVE  b \in Ran'
      OBVIOUS
  <2>1. CASE i \in 1 .. n
        BY <1>2, <1>3, <1>6, <2>1 DEF RanWell
  <2>2. CASE i = n + 1
        BY <1>3, <1>6, <2>2 DEF Frontier
  <2>3. QED
        BY <1>4, <2>1, <2>2
<1>10. \A i \in 1 .. n + 1 : i < n + 1 \/ ~call'.ok =>
         FALSE \in Convertible(Method(call'.ran[i]).result)
  <2>1. ASSUME NEW i \in 1 .. n PROVE FALSE \in Convertible(Method(call'.ran[i]).result)
        BY <1>2, <1>3, <2>1 DEF RanWell
  <2>2. ~(n + 1 < n + 1)
        BY <1>2
  <2>3. QED
        BY <1>3, <1>4, <2>1, <2>2
<1>11. RanWell'
       BY <1>1, <1>3, <1>7, <1>8, <1>9, <1>10 DEF RanWell
<1>12. QED
       BY <1>1, <1>6, <1>11

LEMMA RunTyped ==
  ASSUME NEW c \in CallStates, NEW ran \in Seq(Blocks), NEW phase \in {"looking", "done"},
         NEW ok \in BOOLEAN
  PROVE  /\ [c EXCEPT !.ran = ran] \in CallStates
         /\ [c EXCEPT !.phase = phase, !.ran = ran, !.ok = ok] \in CallStates
<1> DEFINE there == [c EXCEPT !.phase = phase]
           more == [there EXCEPT !.ran = ran]
<1>1. there \in CallStates /\ [c EXCEPT !.ran = ran] \in CallStates
      BY DEF CallStates
<1> HIDE DEF there
<1>2. more \in CallStates
      BY <1>1 DEF CallStates
<1> HIDE DEF more
<1>3. [more EXCEPT !.ok = ok] \in CallStates
      BY <1>2 DEF CallStates
<1>4. QED
      BY <1>1, <1>3 DEF there, more

LEMMA RunCall == CallInv /\ Run => CallInv'
<1> SUFFICES ASSUME CallInv, Run PROVE CallInv'
    OBVIOUS
<1> DEFINE ran == Append(call.ran, call.at)
<1>1. /\ call \in CallStates /\ CallTypeOK /\ call.phase = "converting" /\ call.ok = FALSE
      /\ call.at \in Blocks /\ call.at \in Positions /\ call.param \notin DOMAIN Block.params
      BY CallTyped DEF CallInv, CallTypeOK, Run
<1>2. ran \in Seq(Blocks)
      BY <1>1, CallTyped
<1>3. CountedCall => /\ call.at \in FittingBlocks /\ RanWell /\ Frontier
      BY <1>1, AllConverted DEF CallInv
<1>4. PICK success \in Convertible(Block.result) :
        call' = IF success THEN [call EXCEPT !.phase = "done", !.ran = ran, !.ok = TRUE]
                           ELSE [NextBlock EXCEPT !.ran = ran]
      BY DEF Run
<1>5. success \in BOOLEAN
      BY <1>4 DEF Convertible
<1> HIDE DEF ran
<1>6. CASE success
  <2>1. call' = [call EXCEPT !.phase = "done", !.ran = ran, !.ok = TRUE]
        BY <1>4, <1>6
  <2>2. [call EXCEPT !.phase = "done", !.ran = ran, !.ok = TRUE] \in CallStates
        BY <1>1, <1>2, RunTyped
  <2>3. /\ call' \in CallStates /\ call'.phase = "done" /\ call'.ran = ran /\ call'.ok = TRUE
        /\ UNCHANGED <<call.name, call.args, call.at, call.param>>
        BY <1>1, <2>1, <2>2 DEF CallStates
  <2>4. CallTypeOK'
        BY <2>3 DEF CallTypeOK
  <2>5. CountedCall' = CountedCall
        BY <2>3 DEF CountedCall
  <2>6. CountedCall => RanWell' /\ Outcome'
        BY <1>1, <1>3, <2>3, RanOneMore DEF ran, Outcome
  <2>7. Trying'
        BY <2>3 DEF Trying
  <2>8. QED
        BY <2>3, <2>4, <2>5, <2>6, <2>7 DEF CallInv
<1>7. CASE ~success
  <2> DEFINE at == <<call.at[1], call.at[2] + 1>>
             turn == [call EXCEPT !.phase = "looking", !.at = at, !.param = 1]
  <2>1. at \in Positions /\ Before(call.at, at)
        /\ \A b \in Positions : Before(b, at) <=> Before(b, call.at) \/ b = call.at
        BY <1>1, BeforeNext
  <2>2. call' = [turn EXCEPT !.ran = ran]
        BY <1>1, <1>4, <1>7 DEF NextBlock, CallStates
  <2> HIDE DEF at
  <2>3. turn \in CallStates
        BY <1>1, <2>1, TurnTyped
  <2>4. /\ turn.phase = "looking" /\ turn.at = at /\ turn.param = 1 /\ turn.name = call.name
        /\ turn.args = call.args /\ turn.ok = call.ok
        BY <1>1 DEF CallStates
  <2> HIDE DEF turn
  <2>5. call' \in CallStates
        BY <1>2, <2>2, <2>3, RunTyped
  <2>6. /\ call'.phase = "looking" /\ call'.at = at /\ call'.ran = ran /\ call'.param = 1
        /\ UNCHANGED <<call.name, call.args, call.ok>>
        BY <2>2, <2>3, <2>4 DEF CallStates
  <2>7. CallTypeOK'
        BY <1>1, <2>5, <2>6 DEF CallTypeOK
  <2>8. CountedCall' = CountedCall
        BY <2>6 DEF CountedCall
  <2>9. FALSE \in Convertible(Method(call.at).result)
        BY <1>4, <1>5, <1>7 DEF Block
  <2>10. ASSUME CountedCall PROVE RanWell' /\ Frontier'
    <3>1. RanWell' /\ FittingBlocks' = FittingBlocks /\ Ran' = Ran \cup {call.at}
          BY <1>1, <1>3, <2>6, <2>9, <2>10, RanOneMore DEF ran
    <3>2. \A b \in Blocks : b \in Positions
          BY BlocksTyped
    <3>3. \A i \in DOMAIN call'.ran : call'.ran[i] \in Ran'
          BY DEF Ran
    <3>4. \A b \in Ran : Before(b, call.at) /\ b \in Blocks
          BY <1>1, <1>3, <2>10, CallTyped DEF Ran, Frontier
    <3>5. \A i \in DOMAIN call'.ran : Before(call'.ran[i], at)
          BY <2>1, <3>1, <3>2, <3>3, <3>4
    <3>6. \A b \in FittingBlocks : b \in Positions
          BY <3>2 DEF FittingBlocks
    <3>7. \A b \in FittingBlocks : Before(b, at) => b \in Ran'
          BY <1>3, <2>1, <2>10, <3>1, <3>6 DEF Frontier
    <3>8. QED
          BY <2>6, <3>1, <3>5, <3>7 DEF Frontier
  <2>11. Trying' /\ Outcome'
         BY <2>6 DEF Trying, Outcome
  <2>12. QED
         BY <2>7, <2>8, <2>10, <2>11 DEF CallInv
<1>8. QED
      BY <1>6, <1>7

\* No class is left: every block that fits lies behind, and has run.
LEMMA NotFoundCall == CallInv /\ NotFound => CallInv'
<1> SUFFICES ASSUME CallInv, NotFound PROVE CallInv'
    OBVIOUS
<1>1. /\ call \in CallStates /\ CallTypeOK /\ call.phase = "looking" /\ call.ok = FALSE
      /\ call.at \in Positions /\ call.at[1] \notin DOMAIN Chain
      /\ call' = [call EXCEPT !.phase = "done"]
      BY CallTyped DEF CallInv, CallTypeOK, NotFound
<1>2. /\ call' \in CallStates /\ call'.phase = "done"
      /\ UNCHANGED <<call.name, call.args, call.at, call.param, call.ran, call.ok>>
      BY <1>1 DEF CallStates
<1>3. CallTypeOK'
      BY <1>1, <1>2 DEF CallTypeOK
<1>4. /\ FittingBlocks' = FittingBlocks /\ Ran' = Ran /\ CountedCall' = CountedCall
      BY <1>2 DEF FittingBlocks, Matches, Ran, CountedCall
<1>5. \A b \in FittingBlocks : Before(b, call.at)
  <2> SUFFICES ASSUME NEW b \in FittingBlocks PROVE Before(b, call.at)
      OBVIOUS
  <2>1. b[1] \in 1 .. Len(Chain) /\ Len(Chain) \in Nat
        BY BlocksTyped DEF FittingBlocks
  <2>2. call.at[1] \in Nat \ {0} /\ call.at[1] \notin 1 .. Len(Chain)
        BY <1>1, BlocksTyped DEF Positions
  <2>3. b[1] < call.at[1]
        BY <2>1, <2>2
  <2>4. QED
        BY <2>3 DEF Before
<1>6. ASSUME CountedCall PROVE RanWell' /\ Outcome'
  <2>1. FittingBlocks \subseteq Ran
        BY <1>1, <1>5, <1>6 DEF CallInv, Frontier
  <2>2. RanWell'
        BY <1>2, <1>4, <1>6 DEF CallInv, RanWell
  <2>3. QED
        BY <1>1, <1>2, <1>4, <2>1, <2>2 DEF Outcome
<1>7. Trying'
      BY <1>2 DEF Trying
<1>8. QED
      BY <1>2, <1>3, <1>4, <1>6, <1>7 DEF CallInv

LEMMA IdleCall == call = Idle => CallInv
<1> SUFFICES ASSUME call = Idle PROVE CallInv
    OBVIOUS
<1> DEFINE at == <<1, 1>>
<1>1. call = [phase |-> "idle", name |-> Idle.name, args |-> <<>>, at |-> at, param |-> 1,
              ran |-> <<>>, ok |-> FALSE]
      BY DEF Idle
<1>2. at \in Positions /\ Idle.name \in CallNames
      BY DEF Positions, CallNames
<1>3. \A b \in Positions : ~Before(b, at)
      BY DEF Before, Positions
<1> HIDE DEF at
<1>4. call \in CallStates
      BY <1>1, <1>2 DEF CallStates
<1>5. CallTypeOK /\ Trying /\ Outcome /\ RanWell
      BY <1>1, <1>4 DEF CallTypeOK, Trying, Outcome, RanWell
<1>6. \A b \in FittingBlocks : b \in Positions
      BY BlocksTyped DEF FittingBlocks
<1>7. Frontier
      BY <1>1, <1>3, <1>6 DEF Frontier
<1>8. QED
      BY <1>5, <1>7 DEF CallInv

LEMMA OtherCall == CallInv /\ UNCHANGED call => CallInv'
BY DEF CallInv, CallTypeOK, CountedCall, Trying, RanWell, Outcome, Frontier, Block, Matches,
       FittingBlocks, Ran

LEMMA CallInductive == CallInv /\ [Next]_vars => CallInv'
<1> SUFFICES ASSUME CallInv, [Next]_vars PROVE CallInv'
    OBVIOUS
<1>1. CASE Invoke
      BY <1>1, InvokeCall
<1>2. CASE Look
      BY <1>2, LookCall
<1>3. CASE InvokeBase
      BY <1>3, InvokeBaseCall
<1>4. CASE Convert
      BY <1>4, ConvertCall
<1>5. CASE Run
      BY <1>5, RunCall
<1>6. CASE NotFound
      BY <1>6, NotFoundCall
<1>7. CASE Answered
  <2>1. (call = Idle)'
        BY <1>7 DEF Answered
  <2>2. QED
        BY <2>1, IdleCall, PTL
<1>8. CASE \/ RunCallback \/ Pre \/ Post \/ CallNow \/ CallLater \/ CreateFails
           \/ ReleaseOwn \/ DoAsyncCall \/ ReleaseArgs \/ Return \/ UNCHANGED vars
  <2>1. UNCHANGED call
        BY <1>8 DEF RunCallback, Pre, Post, CallNow, CallLater, CreateFails, ReleaseOwn,
                    DoAsyncCall, ReleaseArgs, Return, vars
  <2>2. QED
        BY <2>1, OtherCall
<1>9. QED
      BY <1>1, <1>2, <1>3, <1>4, <1>5, <1>6, <1>7, <1>8 DEF Next

LEMMA CallInvMeans == CallInv => RunsFittingInOrder
<1> SUFFICES ASSUME CallInv, CountedCall PROVE RunsFittingInOrder
    BY DEF RunsFittingInOrder, CountedCall
<1>1. DOMAIN call.ran = 1 .. Len(call.ran) /\ Len(call.ran) \in Nat
      BY CallTyped DEF CallInv
<1>2. ASSUME NEW i \in DOMAIN call.ran
      PROVE  /\ call.ran[i] \in FittingBlocks
             /\ \A j \in 1 .. i - 1 : Before(call.ran[j], call.ran[i])
             /\ \A b \in FittingBlocks : Before(b, call.ran[i]) => b \in Ran
             /\ i < Len(call.ran) \/ (call.phase = "done" /\ ~call.ok) =>
                  FALSE \in Convertible(Method(call.ran[i]).result)
  <2>1. \A j \in 1 .. i - 1 : j \in DOMAIN call.ran /\ j < i
        BY <1>1
  <2>2. QED
        BY <2>1 DEF CallInv, RanWell
<1>3. call.phase = "done" => IF call.ok THEN Ran # {} ELSE FittingBlocks \subseteq Ran
      BY DEF CallInv, Outcome
<1>4. QED
      BY <1>2, <1>3 DEF RunsFittingInOrder

\* What a script's call runs: the overloads that fit its arguments, as the
\* idl has it, the derived class's first, each of them only because the
\* result of the one before it could not be converted, and an error only when
\* none is left (Invoke of npapi_generator.py's classes).
THEOREM OverloadsInOrder == Spec => []RunsFittingInOrder
<1>1. Init => CallInv
      BY IdleCall DEF Init
<1>2. CallInv /\ [Next]_vars => CallInv'
      BY CallInductive
<1>3. CallInv => RunsFittingInOrder
      BY CallInvMeans
<1>4. QED
      BY <1>1, <1>2, <1>3, PTL DEF Spec
=============================================================================
