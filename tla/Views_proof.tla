---------------------------- MODULE Views_proof ----------------------------
(***************************************************************************)
(* The views of the page, for any traffic, any presets and any edits: the  *)
(* remembered device map holds the hosts of the packet list, what the user *)
(* edited wins, and what the graph, the statistics and the flow table      *)
(* count, add up and sort are the packets of the list.  The lemmas on sums *)
(* and lists in between are about any of them.                             *)
(***************************************************************************)
EXTENDS Views, FiniteSetTheorems, SequenceTheorems, WellFoundedInduction, TLAPS

Labelled(o) == \A ip \in DOMAIN o : DOMAIN o[ip] # {}

\* The map was made for some list of packets with the endpoints remembered and for the
\* present overrides.
MadeFrom(ps) ==
    /\ madeFor = <<EndpointKey(ps), overrides>>
    /\ devMap = BuildDeviceMap(ps, overrides, demo)

MapInv ==
    /\ \E ps : MadeFrom(ps)
    /\ tab = "graph" => madeFor[1] = EndpointKey(packets)

LabelsInv ==
    /\ Labelled(overrides) /\ Labelled(stored)
    /\ saveFailed \/ stored = overrides

---------------------------------------------------------------------------
\* An edit never leaves an entry without a field.
LEMMA EditsKeepFields ==
    ASSUME NEW o, Labelled(o), NEW ip, NEW field, NEW value
    PROVE  Labelled(UpdateField(o, ip, field, value)) /\ Labelled(Without(o, ip))
<1>1. Labelled(Without(o, ip))
  BY DEF Labelled, Without
<1>2. ASSUME NEW edited, DOMAIN edited # {} PROVE Labelled(With(o, ip, edited))
  BY <1>2 DEF Labelled, With
<1> QED
  BY <1>1, <1>2 DEF UpdateField

\* Lists with the same endpoints have the same hosts, so their maps differ in inferred
\* roles at most.
LEMMA SameEndpoints ==
    ASSUME NEW ps, NEW qs, EndpointKey(ps) = EndpointKey(qs)
    PROVE  Hosts(ps) = Hosts(qs)
<1>1. ASSUME NEW rs PROVE Hosts(rs) = {IpOf(e) : e \in EndpointKey(rs)}
  BY DEF Hosts, EndpointKey
<1> QED
  BY <1>1

LEMMA MapsDifferInRoles ==
    ASSUME NEW ps, NEW qs, EndpointKey(ps) = EndpointKey(qs), NEW o, NEW d
    PROVE  LET a == BuildDeviceMap(ps, o, d)
               b == BuildDeviceMap(qs, o, d)
           IN  /\ DOMAIN a = DOMAIN b
               /\ \A ip \in DOMAIN a :
                     /\ a[ip].label = b[ip].label /\ a[ip].detail = b[ip].detail
                     /\ a[ip] = b[ip] \/ ip \notin DOMAIN o \/ "role" \notin DOMAIN o[ip]
<1> DEFINE presets == IF d THEN DOMAIN Preset ELSE {}
           base(rs, ip) ==
               IF ip \in presets THEN Preset[ip]
               ELSE IF ip \in Hosts(rs)
               THEN Device(LabelFromIp, InferRole(FirstKnownPort(rs, ip)), "auto")
               ELSE Device(LabelFromIp, "edge", "")
           made(rs, ip) == IF ip \in DOMAIN o THEN Overridden(base(rs, ip), o[ip]) ELSE base(rs, ip)
<1>1. ASSUME NEW rs
      PROVE  BuildDeviceMap(rs, o, d) = [ip \in presets \cup Hosts(rs) \cup DOMAIN o |-> made(rs, ip)]
  BY DEF BuildDeviceMap
<1>2. Hosts(ps) = Hosts(qs)
  BY SameEndpoints
<1>3. ASSUME NEW ip
      PROVE  base(ps, ip).label = base(qs, ip).label /\ base(ps, ip).detail = base(qs, ip).detail
  BY <1>2 DEF Device
<1> HIDE DEF base
<1>4. ASSUME NEW ip
      PROVE  /\ made(ps, ip).label = made(qs, ip).label /\ made(ps, ip).detail = made(qs, ip).detail
             /\ ip \in DOMAIN o /\ "role" \in DOMAIN o[ip] => made(ps, ip) = made(qs, ip)
  BY <1>3 DEF Overridden, Device
<1> HIDE DEF made, presets
<1> DEFINE a == BuildDeviceMap(ps, o, d)
           b == BuildDeviceMap(qs, o, d)
<1>5. a = [ip \in presets \cup Hosts(ps) \cup DOMAIN o |-> made(ps, ip)]
  BY <1>1
<1>6. b = [ip \in presets \cup Hosts(ps) \cup DOMAIN o |-> made(qs, ip)]
  BY <1>1, <1>2
<1> HIDE DEF a, b
<1>7. DOMAIN a = DOMAIN b /\ \A ip \in DOMAIN a : a[ip] = made(ps, ip) /\ b[ip] = made(qs, ip)
  BY <1>5, <1>6
<1>8. \A ip \in DOMAIN a :
         /\ a[ip].label = b[ip].label /\ a[ip].detail = b[ip].detail
         /\ a[ip] = b[ip] \/ ip \notin DOMAIN o \/ "role" \notin DOMAIN o[ip]
  BY <1>4, <1>7
<1> QED
  BY <1>7, <1>8 DEF a, b

\* What was edited is in the map, whatever it was made from.
LEMMA EditsAreInTheMap ==
    ASSUME NEW ps, NEW o, NEW d, NEW ip \in DOMAIN o
    PROVE  LET a == BuildDeviceMap(ps, o, d)
           IN  /\ "label" \in DOMAIN o[ip] => a[ip].label = o[ip]["label"]
               /\ "role" \in DOMAIN o[ip] => /\ a[ip].role = o[ip]["role"]
                                             /\ a[ip].group = GroupForRole(o[ip]["role"])
               /\ "detail" \in DOMAIN o[ip] => a[ip].detail = o[ip]["detail"]
<1>1. PICK base : BuildDeviceMap(ps, o, d)[ip] = Overridden(base, o[ip])
  BY DEF BuildDeviceMap
<1> QED
  BY <1>1 DEF Overridden, Device

\* Rendering keeps the map true to some list with the endpoints of the one rendered.
LEMMA RenderKeepsMap ==
    ASSUME \E ps : MadeFrom(ps), NEW new, NEW o, Render(new, o), demo' = demo
    PROVE  (\E ps : MadeFrom(ps))' /\ overrides' = o /\ madeFor'[1] = EndpointKey(new)
<1>1. overrides' = o /\ madeFor' = <<EndpointKey(new), o>>
  BY DEF Render
<1>2. CASE madeFor' = madeFor
  <2>1. PICK ps : MadeFrom(ps)
    OBVIOUS
  <2>2. devMap' = devMap /\ o = overrides
    BY <1>1, <1>2, <2>1 DEF Render, MadeFrom
  <2>3. MadeFrom(ps)'
    BY <1>1, <1>2, <2>1, <2>2 DEF MadeFrom
  <2> QED
    BY <1>1, <2>3
<1>3. CASE madeFor' # madeFor
  <2>1. devMap' = BuildDeviceMap(new, o, demo)
    BY <1>1, <1>3 DEF Render
  <2>2. MadeFrom(new)'
    BY <1>1, <2>1 DEF MadeFrom
  <2> QED
    BY <1>1, <2>2
<1> QED
  BY <1>2, <1>3

LEMMA ListSteps ==
    ASSUME MapInv, NEW new, SetPackets(new), UNCHANGED <<demo, tab>>
    PROVE  MapInv' /\ overrides' = overrides
<1>1. CASE tab = "graph"
  BY <1>1, RenderKeepsMap DEF MapInv, SetPackets
<1>2. CASE tab # "graph"
  BY <1>2 DEF SetPackets, MapInv, MadeFrom
<1> QED
  BY <1>1, <1>2

LEMMA EditSteps ==
    ASSUME MapInv, LabelsInv, NEW o, UpdateOverrides(o), Labelled(o)
    PROVE  MapInv' /\ LabelsInv'
<1>1. Render(packets, o) /\ UNCHANGED <<demo, packets, tab>>
  BY DEF UpdateOverrides
<1>2. MapInv'
  BY <1>1, RenderKeepsMap DEF MapInv
<1>3. overrides' = o
  BY <1>1 DEF Render
<1>4. (stored' = o /\ saveFailed' = saveFailed) \/ (saveFailed' = TRUE /\ stored' = stored)
  BY DEF UpdateOverrides
<1> QED
  BY <1>2, <1>3, <1>4 DEF LabelsInv, Labelled

LEMMA ViewsStep == MapInv /\ LabelsInv /\ [Next]_vars => MapInv' /\ LabelsInv'
<1> SUFFICES ASSUME MapInv, LabelsInv, [Next]_vars PROVE MapInv' /\ LabelsInv'
  OBVIOUS
<1>1. CASE Arrive \/ OnClear
  <2>1. PICK new : SetPackets(new) /\ UNCHANGED <<demo, tab, stored, saveFailed>>
    BY <1>1 DEF Arrive, OnClear
  <2> QED
    BY <2>1, ListSteps DEF LabelsInv, Labelled
<1>2. CASE ToggleProto \/ SortFlows \/ UNCHANGED vars
  BY <1>2 DEF ToggleProto, SortFlows, vars, graph, MapInv, MadeFrom, LabelsInv, Labelled
<1>3. CASE EditField \/ ResetRow \/ ClearAll
  <2>1. Labelled(NoOverrides)
    BY DEF Labelled, NoOverrides
  <2>2. PICK o : UpdateOverrides(o) /\ Labelled(o)
    BY <1>3, <2>1, EditsKeepFields DEF EditField, ResetRow, ClearAll, LabelsInv
  <2> QED
    BY <2>2, EditSteps
<1>4. CASE ShowTab
  <2>1. UNCHANGED <<demo, packets, stored>>
    BY <1>4 DEF ShowTab
  <2>2. CASE tab' = "graph"
    <3>1. /\ overrides' = stored /\ madeFor' = <<EndpointKey(packets), stored>>
          /\ devMap' = BuildDeviceMap(packets, stored, demo)
      BY <1>4, <2>2 DEF ShowTab
    <3>2. MadeFrom(packets)'
      BY <2>1, <3>1 DEF MadeFrom
    <3> QED
      BY <2>1, <3>1, <3>2 DEF MapInv, LabelsInv, Labelled
  <2>3. CASE tab' # "graph"
    BY <1>4, <2>1, <2>3 DEF ShowTab, graph, MapInv, MadeFrom, LabelsInv, Labelled
  <2> QED
    BY <2>2, <2>3
<1> QED
  BY <1>1, <1>2, <1>3, <1>4 DEF Next

LEMMA ViewsInit == Init => MapInv /\ LabelsInv
<1> SUFFICES ASSUME Init PROVE MapInv /\ LabelsInv
  OBVIOUS
<1>1. MadeFrom(packets) /\ madeFor[1] = EndpointKey(packets)
  BY DEF Init, MadeFrom
<1> QED
  BY <1>1, LabelsAssumption DEF Init, MapInv, LabelsInv, Labelled

---------------------------------------------------------------------------
\* Although the device map is remembered while the endpoints are the same, it has exactly
\* the hosts of the list, and only inferred roles may be out of date.
THEOREM MapIsComplete == Spec => []GraphIsComplete
<1>1. MapInv => GraphIsComplete
  <2> SUFFICES ASSUME MapInv, tab = "graph" PROVE GraphIsComplete
    BY DEF GraphIsComplete
  <2>1. PICK ps : MadeFrom(ps)
    BY DEF MapInv
  <2>2. EndpointKey(ps) = EndpointKey(packets)
    BY <2>1 DEF MapInv, MadeFrom
  <2> QED
    BY <2>1, <2>2, MapsDifferInRoles DEF MadeFrom, GraphIsComplete
<1> QED
  BY <1>1, ViewsInit, ViewsStep, PTL DEF Spec

\* Labels, roles and details the user set are those shown, in the lane of the role, and are stored
\* unless localStorage refused them.
THEOREM UserWins == Spec => []OverridesWin
<1>1. MapInv /\ LabelsInv => OverridesWin
  <2> SUFFICES ASSUME MapInv, LabelsInv PROVE OverridesWin
    OBVIOUS
  <2>1. PICK ps : MadeFrom(ps)
    BY DEF MapInv
  <2> QED
    BY <2>1, EditsAreInTheMap DEF MadeFrom, OverridesWin, LabelsInv, Labelled
<1> QED
  BY <1>1, ViewsInit, ViewsStep, PTL DEF Spec

---------------------------------------------------------------------------
(* Sums *)
(* The library's Sum is a fold whose recursive function is a CHOOSE: it is shown to    *)
(* exist, which takes induction over the sets it is defined on.                         *)

(* Sums. *)

\* Induction over the naturals: the least number that is not in S would have a
\* predecessor in S.
LEMMA Induction ==
    ASSUME NEW S, 0 \in S, \A n \in Nat : n \in S => n + 1 \in S
    PROVE  Nat \subseteq S
<1> DEFINE T == Nat \ S
           R == {p \in Nat \X Nat : p[1] < p[2]}
<1> SUFFICES ASSUME T # {} PROVE FALSE
  OBVIOUS
<1>1. \E n \in T : \A m \in T : <<m, n>> \notin R
  <2>1. T \subseteq Nat /\ T # {}
    OBVIOUS
  <2>2. IsWellFoundedOn(R, Nat)
    BY NatLessThanWellFounded DEF OpToRel
  <2> HIDE DEF T, R
  <2> QED
    BY <2>1, <2>2, WFMin
<1>2. PICK n \in T : \A m \in T : ~(m < n)
  BY <1>1
<1>3. n - 1 \in Nat /\ n - 1 \in S
  BY <1>2
<1>4. (n - 1) + 1 \in S
  BY <1>3
<1> QED
  BY <1>4

\* A set without one of its elements has one element less.
LEMMA OneLess ==
    ASSUME NEW S, IsFiniteSet(S), NEW x \in S
    PROVE  /\ Cardinality(S) \in Nat /\ IsFiniteSet(S \ {x}) /\ Cardinality(S \ {x}) \in Nat
           /\ Cardinality(S) = Cardinality(S \ {x}) + 1
<1>1. IsFiniteSet(S \ {x}) /\ Cardinality(S \ {x}) = Cardinality(S) - 1
  BY FS_RemoveElement
<1>2. Cardinality(S) \in Nat /\ Cardinality(S \ {x}) \in Nat
  BY <1>1, FS_CardinalityType
<1> QED
  BY <1>1, <1>2

\* Induction over the subsets of a finite set, by the elements they have.
LEMMA SetInduction ==
    ASSUME NEW I, IsFiniteSet(I), NEW G, {} \in G,
           \A T \in SUBSET I : T \in G => \A x \in I \ T : T \cup {x} \in G
    PROVE  \A T \in SUBSET I : T \in G
<1> DEFINE N == {n \in Nat : \A T \in SUBSET I : Cardinality(T) = n => T \in G}
<1>1. 0 \in N
  BY FS_Subset, FS_EmptySet
<1>2. ASSUME NEW n \in Nat, n \in N PROVE n + 1 \in N
  <2>1. ASSUME NEW T \in SUBSET I, Cardinality(T) = n + 1 PROVE T \in G
    <3>1. IsFiniteSet(T)
      BY FS_Subset
    <3>2. PICK x : x \in T
      BY <2>1, <3>1, FS_EmptySet
    <3>3. Cardinality(T \ {x}) = n
      <4>1. Cardinality(T) = Cardinality(T \ {x}) + 1 /\ Cardinality(T \ {x}) \in Nat
        BY <3>1, <3>2, OneLess
      <4> QED
        BY <2>1, <4>1
    <3>4. T \ {x} \in SUBSET I /\ T \ {x} \in G
      BY <1>2, <3>3
    <3>5. (T \ {x}) \cup {x} = T
      BY <3>2
    <3> QED
      BY <3>2, <3>4, <3>5
  <2> QED
    BY <2>1
<1>3. Nat \subseteq N
  <2> HIDE DEF N
  <2> QED
    BY <1>1, <1>2, Induction
<1>4. \A T \in SUBSET I : Cardinality(T) \in Nat
  BY FS_Subset, FS_CardinalityType
<1> QED
  BY <1>3, <1>4

\* What the fold of SumFunctionOnSet computes, of all subsets of I.
SumStep(f, sums, s) ==
    IF s = {} THEN 0 ELSE f[CHOOSE x \in s : TRUE] + sums[s \ {CHOOSE x \in s : TRUE}]
\* sums has the sum of f over every part of I.
IsSums(f, I, sums) == sums = [s \in SUBSET I |-> SumStep(f, sums, s)]

\* There are such sums over a finite set.
LEMMA SumsExist ==
    ASSUME NEW I, IsFiniteSet(I), NEW f, \A i \in I : f[i] \in Nat
    PROVE  \E sums : IsSums(f, I, sums) /\ sums \in [SUBSET I -> Nat]
<1> DEFINE Upto(g, n) == \A s \in SUBSET I : Cardinality(s) <= n => g[s] = SumStep(f, g, s)
           N == {n \in Nat : \E g \in [SUBSET I -> Nat] : Upto(g, n)}
<1>0. \A s \in SUBSET I : IsFiniteSet(s) /\ Cardinality(s) \in Nat
  BY FS_Subset, FS_CardinalityType
<1>1. \A g \in [SUBSET I -> Nat] : \A s \in SUBSET I : SumStep(f, g, s) \in Nat
  BY DEF SumStep
<1>2. \A g, h : \A s \in SUBSET I :
         (s # {} => g[s \ {CHOOSE x \in s : TRUE}] = h[s \ {CHOOSE x \in s : TRUE}])
            => SumStep(f, g, s) = SumStep(f, h, s)
  BY DEF SumStep
<1>3. 0 \in N
  <2> DEFINE g == [s \in SUBSET I |-> 0]
  <2>1. Upto(g, 0)
    BY <1>0, FS_EmptySet DEF SumStep
  <2> QED
    BY <2>1
<1>4. ASSUME NEW n \in Nat, n \in N PROVE n + 1 \in N
  <2>1. PICK g \in [SUBSET I -> Nat] : Upto(g, n)
    BY <1>4
  <2> DEFINE h == [s \in SUBSET I |-> SumStep(f, g, s)]
  <2>2. h \in [SUBSET I -> Nat]
    BY <1>1
  <2>3. ASSUME NEW s \in SUBSET I, Cardinality(s) <= n + 1 PROVE h[s] = SumStep(f, h, s)
    <3> DEFINE x == CHOOSE x \in s : TRUE
    <3>1. ASSUME s # {} PROVE g[s \ {x}] = h[s \ {x}]
      <4>1. x \in s
        BY <3>1
      <4> HIDE DEF x
      <4>2. Cardinality(s) = Cardinality(s \ {x}) + 1 /\ Cardinality(s \ {x}) \in Nat
        BY <1>0, <4>1, OneLess
      <4>3. Cardinality(s \ {x}) <= n /\ s \ {x} \in SUBSET I
        BY <2>3, <4>2
      <4> QED
        BY <2>1, <4>3
    <3>2. SumStep(f, g, s) = SumStep(f, h, s)
      BY <1>2, <3>1
    <3> QED
      BY <3>2
  <2> HIDE DEF h
  <2> QED
    BY <2>2, <2>3
<1>5. Nat \subseteq N
  <2> HIDE DEF N
  <2> QED
    BY <1>3, <1>4, Induction
<1>6. PICK g \in [SUBSET I -> Nat] : Upto(g, Cardinality(I))
  BY <1>0, <1>5
<1>7. \A s \in SUBSET I : Cardinality(s) <= Cardinality(I)
  BY FS_Subset
<1>8. g = [s \in SUBSET I |-> SumStep(f, g, s)]
  BY <1>6, <1>7
<1> QED
  BY <1>8 DEF IsSums

\* They agree wherever two of them are defined.
LEMMA SumsAreUnique ==
    ASSUME NEW I, IsFiniteSet(I), NEW f, NEW J \in SUBSET I,
           NEW g, IsSums(f, I, g), NEW h, IsSums(f, J, h)
    PROVE  g[J] = h[J]
<1> DEFINE G == {s \in SUBSET J : g[s] = h[s]}
           N == {n \in Nat : \A s \in SUBSET J : Cardinality(s) = n => g[s] = h[s]}
<1>0. \A s \in SUBSET J : IsFiniteSet(s) /\ Cardinality(s) \in Nat
  BY FS_Subset, FS_CardinalityType
<1>1. \A s \in SUBSET J : g[s] = SumStep(f, g, s) /\ h[s] = SumStep(f, h, s)
  BY DEF IsSums
<1>2. 0 \in N
  BY <1>0, <1>1, FS_EmptySet DEF SumStep
<1>3. ASSUME NEW n \in Nat, n \in N PROVE n + 1 \in N
  <2>1. ASSUME NEW s \in SUBSET J, Cardinality(s) = n + 1 PROVE g[s] = h[s]
    <3> DEFINE x == CHOOSE x \in s : TRUE
    <3>1. s # {}
      BY <2>1, FS_EmptySet
    <3>2. x \in s
      BY <3>1
    <3>3. Cardinality(s \ {x}) = n /\ s \ {x} \in SUBSET J
      <4> HIDE DEF x
      <4> QED
        BY <1>0, <2>1, <3>2, OneLess
    <3>4. g[s \ {x}] = h[s \ {x}]
      BY <1>3, <3>3
    <3> QED
      BY <1>1, <3>1, <3>4 DEF SumStep
  <2> QED
    BY <2>1
<1>4. Nat \subseteq N
  <2> HIDE DEF N
  <2> QED
    BY <1>2, <1>3, Induction
<1> QED
  BY <1>0, <1>4

\* A sum takes out any element.
LEMMA SumIsSums ==
    ASSUME NEW I, IsFiniteSet(I), NEW f, \A i \in I : f[i] \in Nat
    PROVE  \E sums : IsSums(f, I, sums) /\ sums \in [SUBSET I -> Nat] /\ SumFunctionOnSet(f, I) = sums[I]
<1> DEFINE it == CHOOSE sums : IsSums(f, I, sums)
<1>1. SumFunctionOnSet(f, I) = it[I]
  BY DEF SumFunctionOnSet, FoldFunctionOnSet, MapThenFoldSet, IsSums, SumStep
<1>2. PICK g : IsSums(f, I, g) /\ g \in [SUBSET I -> Nat]
  BY SumsExist
<1>3. IsSums(f, I, it)
  BY <1>2
<1> HIDE DEF it
<1>4. ASSUME NEW s \in SUBSET I PROVE it[s] = g[s]
  <2>1. IsFiniteSet(s) /\ \A i \in s : f[i] \in Nat
    BY FS_Subset
  <2>2. PICK h : IsSums(f, s, h)
    BY <2>1, SumsExist
  <2> QED
    BY <1>2, <1>3, <2>2, SumsAreUnique
<1>5. it = g
  BY <1>3, <1>2, <1>4 DEF IsSums
<1> QED
  BY <1>1, <1>2, <1>5

\* Nothing adds up to nought.
LEMMA SumOfNone == ASSUME NEW f PROVE SumFunctionOnSet(f, {}) = 0
<1>1. IsFiniteSet({}) /\ \A i \in {} : f[i] \in Nat
  BY FS_EmptySet
<1>2. PICK sums : IsSums(f, {}, sums) /\ SumFunctionOnSet(f, {}) = sums[{}]
  BY <1>1, SumIsSums
<1> QED
  BY <1>2 DEF IsSums, SumStep

\* Sums of naturals are naturals.
LEMMA SumIsNat ==
    ASSUME NEW I, IsFiniteSet(I), NEW f, \A i \in I : f[i] \in Nat
    PROVE  SumFunctionOnSet(f, I) \in Nat
<1>1. PICK sums : sums \in [SUBSET I -> Nat] /\ SumFunctionOnSet(f, I) = sums[I]
  BY SumIsSums
<1> QED
  BY <1>1

\* Some element can be taken out of a sum.
LEMMA SumTakesOne ==
    ASSUME NEW I, IsFiniteSet(I), NEW f, \A i \in I : f[i] \in Nat, I # {}
    PROVE  \E x \in I : SumFunctionOnSet(f, I) = f[x] + SumFunctionOnSet(f, I \ {x})
<1> DEFINE x == CHOOSE x \in I : TRUE
           J == I \ {x}
<1>1. x \in I
  OBVIOUS
<1>2. PICK g : IsSums(f, I, g) /\ SumFunctionOnSet(f, I) = g[I]
  BY SumIsSums
<1>3. g[I] = f[x] + g[J]
  <2>1. g[I] = SumStep(f, g, I)
    BY <1>2 DEF IsSums
  <2> QED
    BY <2>1 DEF SumStep
<1> HIDE DEF x
<1>4. IsFiniteSet(J) /\ J \in SUBSET I /\ \A i \in J : f[i] \in Nat
  BY FS_Subset
<1> HIDE DEF J
<1>5. PICK h : IsSums(f, J, h) /\ SumFunctionOnSet(f, J) = h[J]
  BY <1>4, SumIsSums
<1>6. g[J] = h[J]
  BY <1>2, <1>4, <1>5, SumsAreUnique
<1> QED
  BY <1>1, <1>2, <1>3, <1>5, <1>6 DEF J

\* Whatever the order of the fold, it may as well begin with x.
LEMMA SumTakes ==
    ASSUME NEW I, IsFiniteSet(I), NEW f, \A i \in I : f[i] \in Nat, NEW x \in I
    PROVE  SumFunctionOnSet(f, I) = f[x] + SumFunctionOnSet(f, I \ {x})
<1> DEFINE S(T) == SumFunctionOnSet(f, T)
           N == {n \in Nat : \A T \in SUBSET I : Cardinality(T) = n =>
                                \A y \in T : S(T) = f[y] + S(T \ {y})}
<1>0. \A T \in SUBSET I : IsFiniteSet(T) /\ Cardinality(T) \in Nat /\ S(T) \in Nat
  BY FS_Subset, FS_CardinalityType, SumIsNat
<1>1. 0 \in N
  BY <1>0, FS_EmptySet
<1>2. ASSUME NEW n \in Nat, n \in N PROVE n + 1 \in N
  <2>1. ASSUME NEW T \in SUBSET I, Cardinality(T) = n + 1, NEW y \in T
        PROVE  S(T) = f[y] + S(T \ {y})
    <3>1. \E z \in T : S(T) = f[z] + S(T \ {z})
      BY <1>0, SumTakesOne
    <3>2. PICK z \in T : S(T) = f[z] + S(T \ {z})
      BY <3>1
    <3>3. CASE z # y
      <4>1. /\ Cardinality(T) = Cardinality(T \ {y}) + 1 /\ Cardinality(T \ {y}) \in Nat
            /\ Cardinality(T) = Cardinality(T \ {z}) + 1 /\ Cardinality(T \ {z}) \in Nat
        BY <1>0, OneLess
      <4>2. Cardinality(T \ {y}) = n /\ Cardinality(T \ {z}) = n
        BY <2>1, <4>1
      <4>3. S(T \ {y}) = f[z] + S((T \ {y}) \ {z}) /\ S(T \ {z}) = f[y] + S((T \ {z}) \ {y})
        BY <1>2, <3>3, <4>2
      <4>4. (T \ {y}) \ {z} = (T \ {z}) \ {y}
        OBVIOUS
      <4>5. f[y] \in Nat /\ f[z] \in Nat /\ S((T \ {y}) \ {z}) \in Nat
        BY <1>0
      <4> HIDE DEF S
      <4> QED
        BY <3>2, <4>3, <4>4, <4>5
    <3> QED
      BY <3>2, <3>3
  <2> QED
    BY <2>1
<1>3. Nat \subseteq N
  <2> HIDE DEF N
  <2> QED
    BY <1>1, <1>2, Induction
<1> QED
  BY <1>0, <1>3

\* An element more adds its number.
LEMMA SumAdds ==
    ASSUME NEW I, IsFiniteSet(I), NEW f, \A i \in I : f[i] \in Nat,
           NEW T \in SUBSET I, NEW x \in I \ T
    PROVE  SumFunctionOnSet(f, T \cup {x}) = f[x] + SumFunctionOnSet(f, T)
<1>1. IsFiniteSet(T \cup {x}) /\ \A i \in T \cup {x} : f[i] \in Nat
  BY FS_Subset
<1>2. (T \cup {x}) \ {x} = T
  OBVIOUS
<1>3. SumFunctionOnSet(f, T \cup {x}) = f[x] + SumFunctionOnSet(f, (T \cup {x}) \ {x})
  BY <1>1, SumTakes
<1> QED
  BY <1>2, <1>3

\* Sums over the same numbers are the same.
LEMMA SumSame ==
    ASSUME NEW I, IsFiniteSet(I), NEW f, NEW g, \A i \in I : f[i] \in Nat /\ f[i] = g[i]
    PROVE  SumFunctionOnSet(f, I) = SumFunctionOnSet(g, I)
<1> DEFINE G == {T \in SUBSET I : SumFunctionOnSet(f, T) = SumFunctionOnSet(g, T)}
<1>1. {} \in G
  BY SumOfNone
<1>2. ASSUME NEW T \in SUBSET I, T \in G, NEW x \in I \ T PROVE T \cup {x} \in G
  <2>1. /\ SumFunctionOnSet(f, T \cup {x}) = f[x] + SumFunctionOnSet(f, T)
        /\ SumFunctionOnSet(g, T \cup {x}) = g[x] + SumFunctionOnSet(g, T)
    BY SumAdds
  <2> QED
    BY <1>2, <2>1
<1> HIDE DEF G
<1>3. I \in G
  BY <1>1, <1>2, SetInduction
<1> QED
  BY <1>3 DEF G

\* The sum of a sum of two functions.
LEMMA SumPlus ==
    ASSUME NEW I, IsFiniteSet(I), NEW f, NEW g, NEW h,
           \A i \in I : f[i] \in Nat /\ g[i] \in Nat /\ h[i] = f[i] + g[i]
    PROVE  SumFunctionOnSet(h, I) = SumFunctionOnSet(f, I) + SumFunctionOnSet(g, I)
<1> DEFINE G == {T \in SUBSET I : SumFunctionOnSet(h, T)
                                      = SumFunctionOnSet(f, T) + SumFunctionOnSet(g, T)}
<1>1. {} \in G
  BY SumOfNone
<1>2. ASSUME NEW T \in SUBSET I, T \in G, NEW x \in I \ T PROVE T \cup {x} \in G
  <2>1. /\ SumFunctionOnSet(f, T \cup {x}) = f[x] + SumFunctionOnSet(f, T)
        /\ SumFunctionOnSet(g, T \cup {x}) = g[x] + SumFunctionOnSet(g, T)
        /\ SumFunctionOnSet(h, T \cup {x}) = h[x] + SumFunctionOnSet(h, T)
    BY SumAdds
  <2>2. IsFiniteSet(T) /\ SumFunctionOnSet(f, T) \in Nat /\ SumFunctionOnSet(g, T) \in Nat
    BY FS_Subset, SumIsNat
  <2> QED
    BY <1>2, <2>1, <2>2
<1> HIDE DEF G
<1>3. I \in G
  BY <1>1, <1>2, SetInduction
<1> QED
  BY <1>3 DEF G

\* Counting is adding ones.
LEMMA SumOfOnes ==
    ASSUME NEW I, IsFiniteSet(I), NEW f, \A i \in I : f[i] = 1
    PROVE  SumFunctionOnSet(f, I) = Cardinality(I)
<1> DEFINE G == {T \in SUBSET I : SumFunctionOnSet(f, T) = Cardinality(T)}
<1>1. {} \in G
  BY SumOfNone, FS_EmptySet
<1>2. ASSUME NEW T \in SUBSET I, T \in G, NEW x \in I \ T PROVE T \cup {x} \in G
  <2>1. SumFunctionOnSet(f, T \cup {x}) = f[x] + SumFunctionOnSet(f, T)
    BY SumAdds
  <2>2. IsFiniteSet(T) /\ Cardinality(T) \in Nat
    BY FS_Subset, FS_CardinalityType
  <2>3. Cardinality(T \cup {x}) = Cardinality(T) + 1
    BY <2>2, FS_AddElement
  <2> QED
    BY <1>2, <2>1, <2>2, <2>3
<1> HIDE DEF G
<1>3. I \in G
  BY <1>1, <1>2, SetInduction
<1> QED
  BY <1>3 DEF G

\* A sum lies between as many times the least and as many times the greatest.
LEMMA SumBetween ==
    ASSUME NEW I, IsFiniteSet(I), NEW f, NEW lo \in Nat, NEW hi \in Nat,
           \A i \in I : f[i] \in lo..hi
    PROVE  /\ lo * Cardinality(I) <= SumFunctionOnSet(f, I)
           /\ SumFunctionOnSet(f, I) <= hi * Cardinality(I)
<1> DEFINE G == {T \in SUBSET I : /\ lo * Cardinality(T) <= SumFunctionOnSet(f, T)
                                  /\ SumFunctionOnSet(f, T) <= hi * Cardinality(T)}
<1>1. {} \in G
  BY SumOfNone, FS_EmptySet
<1>2. ASSUME NEW T \in SUBSET I, T \in G, NEW x \in I \ T PROVE T \cup {x} \in G
  <2>1. SumFunctionOnSet(f, T \cup {x}) = f[x] + SumFunctionOnSet(f, T)
    BY SumAdds
  <2>2. IsFiniteSet(T) /\ Cardinality(T) \in Nat /\ SumFunctionOnSet(f, T) \in Nat
    BY FS_Subset, FS_CardinalityType, SumIsNat
  <2>3. Cardinality(T \cup {x}) = Cardinality(T) + 1
    BY <2>2, FS_AddElement
  <2>4. \A n \in Nat : lo * (n + 1) = lo * n + lo /\ hi * (n + 1) = hi * n + hi
                         /\ lo * n \in Nat /\ hi * n \in Nat
    OBVIOUS
  <2> QED
    BY <1>2, <2>1, <2>2, <2>3, <2>4
<1> HIDE DEF G
<1>3. I \in G
  BY <1>1, <1>2, SetInduction
<1> QED
  BY <1>3 DEF G

\* A sum over two sets that have nothing in common.
LEMMA SumSplits ==
    ASSUME NEW I, IsFiniteSet(I), NEW f, \A i \in I : f[i] \in Nat,
           NEW J \in SUBSET I, NEW K \in SUBSET I, J \cap K = {}
    PROVE  SumFunctionOnSet(f, J \cup K) = SumFunctionOnSet(f, J) + SumFunctionOnSet(f, K)
<1> DEFINE G == {T \in SUBSET K : SumFunctionOnSet(f, J \cup T)
                                      = SumFunctionOnSet(f, J) + SumFunctionOnSet(f, T)}
<1>0. IsFiniteSet(J) /\ IsFiniteSet(K) /\ SumFunctionOnSet(f, J) \in Nat
  BY FS_Subset, SumIsNat
<1>1. {} \in G
  <2>1. J \cup {} = J
    OBVIOUS
  <2> QED
    BY <1>0, <2>1, SumOfNone
<1>2. ASSUME NEW T \in SUBSET K, T \in G, NEW x \in K \ T PROVE T \cup {x} \in G
  <2>1. J \cup (T \cup {x}) = (J \cup T) \cup {x}
    OBVIOUS
  <2>2. J \cup T \in SUBSET I /\ x \in I \ (J \cup T) /\ x \in I \ T /\ T \in SUBSET I
    OBVIOUS
  <2>3. /\ SumFunctionOnSet(f, T \cup {x}) = f[x] + SumFunctionOnSet(f, T)
        /\ SumFunctionOnSet(f, (J \cup T) \cup {x}) = f[x] + SumFunctionOnSet(f, J \cup T)
    BY <2>2, SumAdds
  <2>4. SumFunctionOnSet(f, T) \in Nat /\ f[x] \in Nat
    BY <2>2, FS_Subset, SumIsNat
  <2>5. SumFunctionOnSet(f, J \cup T) = SumFunctionOnSet(f, J) + SumFunctionOnSet(f, T)
    BY <1>2
  <2> DEFINE a == SumFunctionOnSet(f, J)
             b == SumFunctionOnSet(f, T)
             c == SumFunctionOnSet(f, T \cup {x})
             d == SumFunctionOnSet(f, J \cup (T \cup {x}))
  <2>6. c = f[x] + b /\ d = f[x] + (a + b) /\ a \in Nat /\ b \in Nat /\ f[x] \in Nat
    BY <1>0, <2>1, <2>3, <2>4, <2>5, Zenon
  <2>7. T \cup {x} \in SUBSET K
    OBVIOUS
  <2>8. d = a + c
    <3> HIDE DEF a, b, c, d
    <3> QED
      BY <2>6
  <2> QED
    BY <2>7, <2>8, Zenon
<1> HIDE DEF G
<1>3. \A T \in SUBSET K : T \in G => \A x \in K \ T : T \cup {x} \in G
  BY <1>2
<1>4. IsFiniteSet(K)
  BY <1>0
<1>5. \A T \in SUBSET K : T \in G
  BY <1>1, <1>3, <1>4, SetInduction, Zenon
<1> QED
  BY <1>5 DEF G

\* The elements of I with the key k.
Class(I, key, k) == {i \in I : key[i] = k}

\* The sums of the classes of I, by a key, are the sum of I.
LEMMA SumOfClasses ==
    ASSUME NEW I, IsFiniteSet(I), NEW f, \A i \in I : f[i] \in Nat,
           NEW K, IsFiniteSet(K), NEW key, \A i \in I : key[i] \in K,
           NEW F, \A k \in K : F[k] = SumFunctionOnSet(f, Class(I, key, k))
    PROVE  SumFunctionOnSet(F, K) = SumFunctionOnSet(f, I)
<1> DEFINE Part(T) == {i \in I : key[i] \in T}
           G == {T \in SUBSET K : SumFunctionOnSet(F, T) = SumFunctionOnSet(f, Part(T))}
<1>0. \A k \in K : F[k] \in Nat
  <2> TAKE k \in K
  <2>1. Class(I, key, k) \in SUBSET I
    BY DEF Class
  <2>2. IsFiniteSet(Class(I, key, k)) /\ \A i \in Class(I, key, k) : f[i] \in Nat
    BY <2>1, FS_Subset
  <2> QED
    BY <2>2, SumIsNat
<1>1. {} \in G
  <2>1. Part({}) = {}
    OBVIOUS
  <2> QED
    BY <2>1, SumOfNone
<1>2. ASSUME NEW T \in SUBSET K, T \in G, NEW x \in K \ T PROVE T \cup {x} \in G
  <2>1. SumFunctionOnSet(F, T \cup {x}) = F[x] + SumFunctionOnSet(F, T)
    BY <1>0, SumAdds
  <2> DEFINE C == {i \in I : key[i] = x}
  <2>0. C = Class(I, key, x)
    BY DEF Class
  <2>2. /\ Part(T \cup {x}) = Part(T) \cup C /\ Part(T) \cap C = {}
        /\ Part(T) \in SUBSET I /\ C \in SUBSET I
    OBVIOUS
  <2> HIDE DEF Part
  <2>3. SumFunctionOnSet(f, Part(T) \cup C) = SumFunctionOnSet(f, Part(T)) + SumFunctionOnSet(f, C)
    BY <2>2, SumSplits
  <2>4. /\ SumFunctionOnSet(f, Part(T)) \in Nat /\ SumFunctionOnSet(f, C) \in Nat
        /\ SumFunctionOnSet(f, C) = F[x]
    BY <2>0, <2>2, FS_Subset, SumIsNat
  <2>5. SumFunctionOnSet(F, T) = SumFunctionOnSet(f, Part(T))
    BY <1>2
  <2> DEFINE a == SumFunctionOnSet(f, Part(T))
             b == SumFunctionOnSet(f, C)
             c == SumFunctionOnSet(F, T \cup {x})
             d == SumFunctionOnSet(f, Part(T \cup {x}))
  <2>7. c = b + a /\ d = a + b /\ a \in Nat /\ b \in Nat
    BY <2>1, <2>2, <2>3, <2>4, <2>5, Zenon
  <2>6. c = d
    <3> HIDE DEF a, b, c, d
    <3> QED
      BY <2>7
  <2> QED
    BY <2>6
<1> HIDE DEF G
<1>3. K \in G
  BY <1>1, <1>2, SetInduction
<1>4. Part(K) = I
  OBVIOUS
<1> QED
  BY <1>3, <1>4 DEF G

\* A sum may be taken in any order of its terms.
LEMMA SumOnto ==
    ASSUME NEW I, IsFiniteSet(I), NEW J, IsFiniteSet(J), NEW h,
           \A i \in I : h[i] \in J, \A i, j \in I : h[i] = h[j] => i = j,
           \A j \in J : \E i \in I : h[i] = j,
           NEW f, \A j \in J : f[j] \in Nat, NEW F, \A i \in I : F[i] = f[h[i]]
    PROVE  SumFunctionOnSet(F, I) = SumFunctionOnSet(f, J)
<1>1. \A i \in I : F[i] \in Nat
  OBVIOUS
<1>2. ASSUME NEW j \in J PROVE f[j] = SumFunctionOnSet(F, Class(I, h, j))
  <2>1. PICK i \in I : h[i] = j
    OBVIOUS
  <2>2. Class(I, h, j) = {i} /\ {} \cup {i} = {i} /\ i \in I \ {} /\ {} \in SUBSET I
    BY <2>1 DEF Class
  <2>3. SumFunctionOnSet(F, {} \cup {i}) = F[i] + SumFunctionOnSet(F, {})
    BY <1>1, <2>2, SumAdds
  <2>4. SumFunctionOnSet(F, {i}) = F[i]
    BY <1>1, <2>2, <2>3, SumOfNone
  <2> QED
    BY <2>1, <2>2, <2>4
<1> QED
  BY <1>1, <1>2, SumOfClasses

---------------------------------------------------------------------------
(* Lists *)

\* R puts the elements of S one after another.
Strict(S, R) ==
    /\ \A x \in S : <<x, x>> \notin R
    /\ \A x, y, z \in S : <<x, y>> \in R /\ <<y, z>> \in R => <<x, z>> \in R
    /\ \A x, y \in S : x = y \/ <<x, y>> \in R \/ <<y, x>> \in R

\* at is the one list of the elements of S that follows R.
Follows(at, S, R) ==
    /\ at = [k \in 1..Cardinality(S) |-> at[k]]
    /\ \A k \in 1..Cardinality(S) : at[k] \in S
    /\ \A x \in S : \E k \in 1..Cardinality(S) : at[k] = x
    /\ \A j, k \in 1..Cardinality(S) : j < k <=> <<at[j], at[k]>> \in R

\* In a strict order of a finite set, ranks are between 1 and the size, and rise.
LEMMA RanksRise ==
    ASSUME NEW S, IsFiniteSet(S), NEW R, Strict(S, R)
    PROVE  /\ Cardinality(S) \in Nat
           /\ \A x \in S : Cardinality({y \in S : <<y, x>> \in R}) + 1 \in 1..Cardinality(S)
           /\ \A x, y \in S : <<x, y>> \in R =>
                 Cardinality({z \in S : <<z, x>> \in R}) + 1 < Cardinality({z \in S : <<z, y>> \in R}) + 1
<1> DEFINE n == Cardinality(S)
           below(x) == {y \in S : <<y, x>> \in R}
           rank == [x \in S |-> Cardinality(below(x)) + 1]
<1>1. n \in Nat /\ \A x \in S : IsFiniteSet(below(x)) /\ Cardinality(below(x)) \in Nat
  <2>1. \A x \in S : below(x) \in SUBSET S
    OBVIOUS
  <2> HIDE DEF below
  <2> QED
    BY <2>1, FS_Subset, FS_CardinalityType
<1>2. \A x \in S : rank[x] \in 1..n
  <2> TAKE x \in S
  <2>1. below(x) \in SUBSET (S \ {x})
    BY DEF Strict
  <2>2. n = Cardinality(S \ {x}) + 1 /\ IsFiniteSet(S \ {x}) /\ Cardinality(S \ {x}) \in Nat
    BY OneLess
  <2>3. rank[x] = Cardinality(below(x)) + 1
    OBVIOUS
  <2> HIDE DEF below, rank
  <2>4. Cardinality(below(x)) <= Cardinality(S \ {x})
    BY <2>1, <2>2, FS_Subset
  <2> QED
    BY <1>1, <2>2, <2>3, <2>4
<1>3. \A x, y \in S : <<x, y>> \in R => rank[x] < rank[y]
  <2> SUFFICES ASSUME NEW x \in S, NEW y \in S, <<x, y>> \in R PROVE rank[x] < rank[y]
    OBVIOUS
  <2>1. below(x) \in SUBSET below(y) /\ below(x) # below(y)
    BY DEF Strict
  <2>2. rank[x] = Cardinality(below(x)) + 1 /\ rank[y] = Cardinality(below(y)) + 1
    OBVIOUS
  <2> HIDE DEF below, rank
  <2>3. /\ Cardinality(below(x)) <= Cardinality(below(y))
        /\ Cardinality(below(x)) # Cardinality(below(y))
    BY <1>1, <2>1, FS_Subset
  <2> QED
    BY <1>1, <2>2, <2>3
<1>4. \A x \in S : rank[x] = Cardinality({y \in S : <<y, x>> \in R}) + 1
  OBVIOUS
<1> HIDE DEF rank
<1> QED
  BY <1>1, <1>2, <1>3, <1>4

\* InOrder lists the elements of S, each once, as R puts them.
LEMMA InOrderFollows ==
    ASSUME NEW S, IsFiniteSet(S), NEW R, Strict(S, R)
    PROVE  Follows(InOrder(S, R), S, R)
<1> DEFINE n == Cardinality(S)
           below(x) == {y \in S : <<y, x>> \in R}
           rank == [x \in S |-> Cardinality(below(x)) + 1]
           at == InOrder(S, R)
<1>1. /\ n \in Nat
      /\ \A x \in S : Cardinality(below(x)) + 1 \in 1..n
      /\ \A x, y \in S : <<x, y>> \in R => Cardinality(below(x)) + 1 < Cardinality(below(y)) + 1
  BY RanksRise
<1>2. \A x \in S : rank[x] \in 1..n
  BY <1>1
<1>3. \A x, y \in S : <<x, y>> \in R => rank[x] < rank[y]
  BY <1>1
<1>4. \A x, y \in S : rank[x] = rank[y] => x = y
  <2> HIDE DEF rank
  <2>1. \A x \in S : rank[x] \in Int
    BY <1>1, <1>2
  <2>2. \A x, y \in S : x = y \/ rank[x] < rank[y] \/ rank[y] < rank[x]
    BY <1>3, Zenon DEF Strict
  <2> QED
    BY <2>1, <2>2
<1>5. \A k \in 1..n : \E x \in S : rank[x] = k
  <2>1. rank \in Injection(S, 1..n)
    <3>1. rank \in [S -> 1..n]
      BY <1>2
    <3> HIDE DEF rank, n
    <3> QED
      BY <1>4, <3>1 DEF Injection, IsInjective
  <2>2. IsFiniteSet(1..n) /\ Cardinality(1..n) = n
    BY <1>1, FS_Interval
  <2>3. rank \in Surjection(S, 1..n)
    <3> HIDE DEF rank
    <3> QED
      BY <2>1, <2>2, FS_Injection
  <2> HIDE DEF rank, n
  <2> QED
    BY <2>3 DEF Surjection
<1> DEFINE ranked == {<<Cardinality({y \in S : <<y, x>> \in R}) + 1, x>> : x \in S}
<1>6. ranked = {<<rank[x], x>> : x \in S}
  OBVIOUS
<1>7. at = [k \in 1..n |-> (CHOOSE r \in ranked : r[1] = k)[2]]
  BY DEF InOrder
<1> HIDE DEF ranked, rank, at
<1>8. \A k \in 1..n : at[k] \in S /\ rank[at[k]] = k
  <2> TAKE k \in 1..n
  <2>0. PICK y \in S : rank[y] = k
    BY <1>5
  <2>1. <<rank[y], y>> \in ranked /\ <<rank[y], y>>[1] = k
    BY <1>6, <2>0
  <2>2. PICK p : p = (CHOOSE r \in ranked : r[1] = k) /\ p \in ranked /\ p[1] = k
    BY <2>1
  <2>3. at[k] = p[2]
    BY <1>7, <2>2
  <2>4. PICK x \in S : p = <<rank[x], x>>
    BY <1>6, <2>2
  <2>5. p[1] = rank[x] /\ p[2] = x
    BY <2>4
  <2> QED
    BY <2>2, <2>3, <2>5
<1>9. \A x \in S : at[rank[x]] = x
  BY <1>2, <1>4, <1>8
<1>10. \A j, k \in 1..n : j < k <=> <<at[j], at[k]>> \in R
  <2> TAKE j, k \in 1..n
  <2>1. <<at[j], at[k]>> \in R => j < k
    BY <1>3, <1>8
  <2>2. <<at[k], at[j]>> \in R => k < j
    BY <1>3, <1>8
  <2>3. at[j] = at[k] => j = k
    BY <1>8
  <2>4. at[j] = at[k] \/ <<at[j], at[k]>> \in R \/ <<at[k], at[j]>> \in R
    BY <1>8 DEF Strict
  <2> QED
    BY <1>1, <2>1, <2>2, <2>3, <2>4
<1>11. at = [k \in 1..n |-> at[k]]
  BY <1>7
<1> QED
  <2>1. \A x \in S : \E k \in 1..n : at[k] = x
    BY <1>2, <1>9
  <2> QED
    BY <1>8, <1>10, <1>11, <2>1, Zenon DEF Follows, at

\* Something with a length.
List(s) == \E V : s \in Seq(V)

\* A list has a length, and its positions are finitely many.
LEMMA ListBounds ==
    ASSUME NEW s, List(s)
    PROVE  /\ Len(s) \in Nat /\ DOMAIN s = 1..Len(s)
           /\ IsFiniteSet(DOMAIN s) /\ Cardinality(DOMAIN s) = Len(s) /\ s = [k \in DOMAIN s |-> s[k]]
<1>1. Len(s) \in Nat /\ DOMAIN s = 1..Len(s) /\ s = [k \in DOMAIN s |-> s[k]]
  BY DEF List
<1> QED
  BY <1>1, FS_Interval

\* What has the positions up to n is a list.
LEMMA ListMade ==
    ASSUME NEW n \in Nat, NEW s, s = [k \in 1..n |-> s[k]]
    PROVE  List(s) /\ Len(s) = n /\ DOMAIN s = 1..n
<1>1. s \in Seq({s[k] : k \in 1..n})
  OBVIOUS
<1> QED
  BY <1>1 DEF List

\* Positions come one after another.
LEMMA AscendsStrict == ASSUME NEW I \in SUBSET Int PROVE Strict(I, Ascends(I))
BY DEF Strict, Ascends

\* l has the elements of s at the positions in I, in their order.
Picks(l, s, I, at) ==
    /\ List(l) /\ Len(l) = Cardinality(I) /\ Cardinality(I) \in Nat /\ DOMAIN l = 1..Cardinality(I)
    /\ \A k \in DOMAIN l : at[k] \in I /\ l[k] = s[at[k]]
    /\ \A i \in I : \E k \in DOMAIN l : at[k] = i
    /\ \A j, k \in DOMAIN l : j < k <=> at[j] < at[k]

\* A sublist picks its positions in their order.
LEMMA SublistPicks ==
    ASSUME NEW s, List(s), NEW I \in SUBSET DOMAIN s
    PROVE  \E at : Picks(Sublist(s, I), s, I, at)
<1>0. I \in SUBSET Int /\ IsFiniteSet(I) /\ Cardinality(I) \in Nat
  BY ListBounds, FS_Subset, FS_CardinalityType
<1> DEFINE at == InOrder(I, Ascends(I))
           l == Sublist(s, I)
<1>1. Follows(at, I, Ascends(I))
  BY <1>0, AscendsStrict, InOrderFollows
<1>2. l = [k \in 1..Cardinality(I) |-> s[at[k]]]
  BY DEF Sublist
<1> HIDE DEF at, l
<1>3. List(l) /\ Len(l) = Cardinality(I) /\ DOMAIN l = 1..Cardinality(I)
  <2>1. l = [k \in 1..Cardinality(I) |-> l[k]]
    BY <1>2
  <2> QED
    BY <1>0, <2>1, ListMade
<1>4. \A k \in 1..Cardinality(I) : l[k] = s[at[k]] /\ at[k] \in I
  BY <1>1, <1>2 DEF Follows
<1>5. \A j, k \in 1..Cardinality(I) : j < k <=> at[j] < at[k]
  BY <1>1, <1>4 DEF Follows, Ascends
<1>6. \A i \in I : \E k \in 1..Cardinality(I) : at[k] = i
  BY <1>1 DEF Follows
<1>7. Picks(l, s, I, at)
  BY <1>0, <1>3, <1>4, <1>5, <1>6 DEF Picks
<1> QED
  BY <1>7 DEF l

\* A sublist has the values at its positions, and no other.
LEMMA SublistKeeps ==
    ASSUME NEW s, List(s), NEW I \in SUBSET DOMAIN s
    PROVE  /\ List(Sublist(s, I)) /\ Len(Sublist(s, I)) = Cardinality(I)
           /\ DOMAIN Sublist(s, I) = 1..Cardinality(I) /\ Cardinality(I) \in Nat
           /\ \A k \in DOMAIN Sublist(s, I) : \E i \in I : Sublist(s, I)[k] = s[i]
           /\ \A i \in I : \E k \in DOMAIN Sublist(s, I) : Sublist(s, I)[k] = s[i]
<1>1. PICK at : Picks(Sublist(s, I), s, I, at)
  BY SublistPicks
<1> QED
  BY <1>1 DEF Picks

\* The sum over what a filter keeps is the sum over the positions it keeps.
LEMMA SumOfSublist ==
    ASSUME NEW s, List(s), NEW I \in SUBSET DOMAIN s, NEW f, \A i \in I : f[i] \in Nat,
           NEW F, DOMAIN F = DOMAIN Sublist(s, I),
           \A k \in DOMAIN F, i \in I : Sublist(s, I)[k] = s[i] => F[k] = f[i]
    PROVE  SumFunctionOnSet(F, DOMAIN F) = SumFunctionOnSet(f, I)
<1> DEFINE l == Sublist(s, I)
<1>1. PICK at : Picks(l, s, I, at)
  BY SublistPicks
<1> HIDE DEF l
<1>2. DOMAIN F = DOMAIN l /\ \A k \in DOMAIN F, i \in I : l[k] = s[i] => F[k] = f[i]
  BY DEF l
<1>3. IsFiniteSet(DOMAIN F) /\ IsFiniteSet(I)
  BY <1>1, <1>2, ListBounds, FS_Subset DEF Picks
<1>4. /\ \A k \in DOMAIN F : at[k] \in I /\ F[k] = f[at[k]]
      /\ \A i \in I : \E k \in DOMAIN F : at[k] = i
      /\ \A j, k \in DOMAIN F : at[j] = at[k] => j = k
  <2>1. DOMAIN F \in SUBSET Int /\ I \in SUBSET Int
    BY <1>1, <1>2, ListBounds DEF Picks
  <2>2. \A j, k \in DOMAIN F : j < k <=> at[j] < at[k]
    BY <1>1, <1>2 DEF Picks
  <2>3. \A k \in DOMAIN F : at[k] \in I /\ F[k] = f[at[k]]
    BY <1>1, <1>2 DEF Picks
  <2>4. \A i \in I : \E k \in DOMAIN F : at[k] = i
    BY <1>1, <1>2 DEF Picks
  <2>5. \A j, k \in DOMAIN F : at[j] = at[k] => j = k
    BY <2>1, <2>2, <2>3
  <2> QED
    BY <2>3, <2>4, <2>5
<1> QED
  BY <1>3, <1>4, SumOnto

---------------------------------------------------------------------------
(* Groups and orders *)

\* The positions where a value of s occurs first.
Firsts(s) == {i \in DOMAIN s : \A j \in 1..i - 1 : s[j] # s[i]}

\* Every value has a first occurrence, so Distinct has every value, and once.
LEMMA DistinctKeeps ==
    ASSUME NEW s, List(s)
    PROVE  /\ List(Distinct(s)) /\ IsFiniteSet(DOMAIN Distinct(s))
           /\ \A k \in DOMAIN Distinct(s) : \E i \in DOMAIN s : Distinct(s)[k] = s[i]
           /\ \A i \in DOMAIN s : \E k \in DOMAIN Distinct(s) : Distinct(s)[k] = s[i]
           /\ \A j, k \in DOMAIN Distinct(s) : Distinct(s)[j] = Distinct(s)[k] => j = k
<1> DEFINE d == Distinct(s)
           N == {n \in Nat : \A i \in DOMAIN s : i <= n => \E j \in Firsts(s) : s[j] = s[i]}
<1>0. Len(s) \in Nat /\ DOMAIN s = 1..Len(s)
  BY ListBounds
<1>1. 0 \in N
  BY <1>0
<1>2. ASSUME NEW n \in Nat, n \in N PROVE n + 1 \in N
  <2>1. ASSUME NEW i \in DOMAIN s, i = n + 1 PROVE \E j \in Firsts(s) : s[j] = s[i]
    <3>1. CASE i \in Firsts(s)
      BY <3>1
    <3>2. CASE i \notin Firsts(s)
      <4>1. PICK j \in 1..i - 1 : s[j] = s[i]
        BY <3>2 DEF Firsts
      <4>2. j \in DOMAIN s /\ j <= n
        BY <1>0, <2>1
      <4> QED
        BY <1>2, <4>1, <4>2
    <3> QED
      BY <3>1, <3>2
  <2> QED
    BY <1>0, <1>2, <2>1
<1>3. Nat \subseteq N
  <2> HIDE DEF N
  <2> QED
    BY <1>1, <1>2, Induction
<1>4. \A i \in DOMAIN s : \E j \in Firsts(s) : s[j] = s[i]
  BY <1>0, <1>3
<1>5. d = Sublist(s, Firsts(s)) /\ Firsts(s) \in SUBSET DOMAIN s
  BY DEF Distinct, Firsts
<1>6. \A i, j \in Firsts(s) : s[i] = s[j] => i = j
  BY <1>0 DEF Firsts
<1> HIDE DEF d
<1>7. PICK at : Picks(d, s, Firsts(s), at)
  BY <1>5, SublistPicks
<1>8. List(d) /\ \A k \in DOMAIN d : at[k] \in Firsts(s) /\ d[k] = s[at[k]]
  BY <1>7 DEF Picks
<1>9. \A i \in DOMAIN s : \E k \in DOMAIN d : d[k] = s[i]
  BY <1>4, <1>7 DEF Picks
<1>10. \A k \in DOMAIN d : \E i \in DOMAIN s : d[k] = s[i]
  BY <1>5, <1>8
<1>11. \A j, k \in DOMAIN d : d[j] = d[k] => j = k
  <2>1. \A j, k \in DOMAIN d : d[j] = d[k] => at[j] = at[k]
    BY <1>6, <1>8
  <2>2. \A k \in DOMAIN d : at[k] \in Int /\ k \in Int
    BY <1>0, <1>5, <1>8, ListBounds
  <2>3. \A j, k \in DOMAIN d : j < k <=> at[j] < at[k]
    BY <1>7 DEF Picks
  <2> QED
    BY <2>1, <2>2, <2>3
<1>12. IsFiniteSet(DOMAIN d)
  BY <1>8, ListBounds
<1> QED
  BY <1>8, <1>9, <1>10, <1>11, <1>12 DEF d

\* The positions of ks with one of the keys K of Distinct(ks).
InGroups(ks, K) == {i \in DOMAIN ks : \E k \in K : ks[i] = Distinct(ks)[k]}

\* What the groups of a list add up to, for a set K of its groups.
LEMMA SumOfGroups ==
    ASSUME NEW ks, List(ks), NEW K \in SUBSET DOMAIN Distinct(ks),
           NEW f, \A i \in DOMAIN ks : f[i] \in Nat,
           NEW G, \A k \in K : G[k] = SumFunctionOnSet(f, Class(DOMAIN ks, ks, Distinct(ks)[k]))
    PROVE  SumFunctionOnSet(G, K)
             = SumFunctionOnSet(f, InGroups(ks, K))
<1> DEFINE d == Distinct(ks)
           I == InGroups(ks, K)
           key == [i \in I |-> CHOOSE k \in K : ks[i] = d[k]]
<1>1. /\ IsFiniteSet(I) /\ I \in SUBSET DOMAIN ks
      /\ IsFiniteSet(K) /\ \A j, k \in K : d[j] = d[k] => j = k
  <2>1. IsFiniteSet(DOMAIN ks) /\ I \in SUBSET DOMAIN ks
    BY ListBounds DEF InGroups
  <2>2. IsFiniteSet(DOMAIN d) /\ \A j, k \in DOMAIN d : d[j] = d[k] => j = k
    BY DistinctKeeps
  <2> HIDE DEF I, d
  <2>3. IsFiniteSet(I)
    BY <2>1, FS_Subset
  <2>4. IsFiniteSet(K) /\ \A j, k \in K : d[j] = d[k] => j = k
    BY <2>2, FS_Subset DEF d
  <2> QED
    BY <2>1, <2>3, <2>4
<1>2. \A i \in I : key[i] \in K /\ ks[i] = d[key[i]]
  <2> TAKE i \in I
  <2>1. \E k \in K : ks[i] = d[k]
    BY DEF InGroups
  <2> HIDE DEF d
  <2> QED
    BY <2>1
<1> HIDE DEF key
<1>3. ASSUME NEW k \in K PROVE Class(DOMAIN ks, ks, d[k]) = Class(I, key, k)
  <2> HIDE DEF d
  <2>1. \A i \in DOMAIN ks : ks[i] = d[k] => i \in I
    BY DEF InGroups, d
  <2> HIDE DEF I
  <2> QED
    BY <1>1, <1>2, <2>1 DEF Class
<1>4. \A k \in K : G[k] = SumFunctionOnSet(f, Class(I, key, k))
  BY <1>3
<1>5. \A i \in I : f[i] \in Nat
  BY DEF InGroups
<1> HIDE DEF I, d
<1>6. SumFunctionOnSet(G, K) = SumFunctionOnSet(f, I)
  <2>1. IsFiniteSet(I) /\ IsFiniteSet(K)
    BY <1>1
  <2>2. \A i \in I : key[i] \in K
    BY <1>2
  <2> QED
    BY <1>4, <1>5, <2>1, <2>2, SumOfClasses
<1> QED
  BY <1>6 DEF I, d

---------------------------------------------------------------------------
\* Positions by a number c each, the same number keeping its order.
ByNumber(D, c) == {r \in D \X D : \/ c[r[1]] < c[r[2]]
                                  \/ ~(c[r[2]] < c[r[1]]) /\ r[1] < r[2]}
\* s in the order R gives to its positions.
Arranged(s, R) == [k \in DOMAIN s |-> s[InOrder(DOMAIN s, R)[k]]]

\* l is s in another order, in which c never goes down.
Rises(l, s, c, at) ==
    /\ List(l) /\ DOMAIN l = DOMAIN s /\ Len(l) = Len(s)
    /\ \A k \in DOMAIN s : at[k] \in DOMAIN s /\ l[k] = s[at[k]]
    /\ \A i \in DOMAIN s : \E k \in DOMAIN s : at[k] = i
    /\ \A j, k \in DOMAIN s : at[j] = at[k] => j = k
    /\ \A j, k \in DOMAIN s : j <= k => c[at[j]] <= c[at[k]]

\* Numbers, and positions between equals, put a list in an order.
LEMMA ByNumberStrict ==
    ASSUME NEW D \in SUBSET Int, NEW c, \A i \in D : c[i] \in Int
    PROVE  Strict(D, ByNumber(D, c))
<1> DEFINE R == ByNumber(D, c)
<1>1. \A x, y \in D : <<x, y>> \in R <=> (c[x] < c[y] \/ (c[x] = c[y] /\ x < y))
  <2> TAKE x, y \in D
  <2>1. c[x] \in Int /\ c[y] \in Int
    OBVIOUS
  <2>2. <<x, y>> \in R <=> (c[x] < c[y] \/ (~(c[y] < c[x]) /\ x < y))
    BY DEF ByNumber
  <2> QED
    BY <2>1, <2>2
<1> HIDE DEF R
<1>2. \A x \in D : x \in Int /\ c[x] \in Int
  OBVIOUS
<1>3. \A x \in D : <<x, x>> \notin R
  BY <1>1, <1>2
<1>4. \A x, y \in D : x = y \/ <<x, y>> \in R \/ <<y, x>> \in R
  <2> TAKE x, y \in D
  <2>1. x \in Int /\ y \in Int /\ c[x] \in Int /\ c[y] \in Int
    BY <1>2
  <2>2. x = y \/ x < y \/ y < x
    BY <2>1
  <2>3. c[x] = c[y] \/ c[x] < c[y] \/ c[y] < c[x]
    BY <2>1
  <2> QED
    BY <1>1, <2>2, <2>3
<1>5. \A x, y, z \in D : <<x, y>> \in R /\ <<y, z>> \in R => <<x, z>> \in R
  BY <1>1, <1>2
<1> QED
  BY <1>3, <1>4, <1>5 DEF Strict, R

\* Arranged by numbers, a list is another order of itself in which they rise.
LEMMA ArrangedRises ==
    ASSUME NEW s, List(s), NEW c, \A i \in DOMAIN s : c[i] \in Int
    PROVE  \E at : Rises(Arranged(s, ByNumber(DOMAIN s, c)), s, c, at)
<1> DEFINE R == ByNumber(DOMAIN s, c)
           at == InOrder(DOMAIN s, R)
           l == Arranged(s, R)
<1>0. /\ DOMAIN s \in SUBSET Int /\ IsFiniteSet(DOMAIN s) /\ Len(s) \in Nat
      /\ DOMAIN s = 1..Len(s) /\ Cardinality(DOMAIN s) = Len(s)
  BY ListBounds
<1>1. Strict(DOMAIN s, R)
  BY <1>0, ByNumberStrict
<1>2. l = [k \in 1..Len(s) |-> s[at[k]]]
  BY <1>0 DEF Arranged
<1> HIDE DEF R, l
<1>3. Follows(at, DOMAIN s, R)
  BY <1>0, <1>1, InOrderFollows
<1> HIDE DEF at
<1>4. l = [k \in 1..Len(s) |-> l[k]]
  BY <1>2
<1>5. List(l) /\ DOMAIN l = DOMAIN s /\ Len(l) = Len(s)
  BY <1>0, <1>4, ListMade
<1>6. \A k \in DOMAIN s : at[k] \in DOMAIN s /\ l[k] = s[at[k]]
  BY <1>0, <1>2, <1>3 DEF Follows
<1>7. \A i \in DOMAIN s : \E k \in DOMAIN s : at[k] = i
  BY <1>0, <1>3 DEF Follows
<1>8. \A j, k \in DOMAIN s : j < k <=> <<at[j], at[k]>> \in R
  BY <1>0, <1>3 DEF Follows
<1>9. \A j, k \in DOMAIN s : at[j] = at[k] => j = k
  <2>1. \A j \in DOMAIN s : j \in Int
    BY <1>0
  <2>2. \A j \in DOMAIN s : <<at[j], at[j]>> \notin R
    <3>1. \A j \in DOMAIN s : ~(j < j)
      BY <2>1
    <3> QED
      BY <1>8, <3>1
  <2>3. \A j, k \in DOMAIN s : at[j] = at[k] => ~(j < k) /\ ~(k < j)
    BY <1>8, <2>2, Zenon
  <2> QED
    BY <2>1, <2>3
<1>10. \A j, k \in DOMAIN s : j <= k => c[at[j]] <= c[at[k]]
  <2> TAKE j, k \in DOMAIN s
  <2>1. c[at[j]] \in Int /\ c[at[k]] \in Int
    BY <1>6
  <2>2. j < k => c[at[j]] < c[at[k]] \/ ~(c[at[k]] < c[at[j]])
    BY <1>8 DEF R, ByNumber
  <2> QED
    BY <1>0, <2>1, <2>2
<1>11. Rises(l, s, c, at)
  BY <1>5, <1>6, <1>7, <1>9, <1>10 DEF Rises
<1> QED
  BY <1>11 DEF l, R

---------------------------------------------------------------------------
(* What the graph counts, for any list l of packets *)

\* What counts a packet once, what adds its size, and the key of its edge.
Ones(D) == [i \in D |-> 1]
Sizes(l) == [i \in DOMAIN l |-> l[i].size]
EdgeKeys(l) == [i \in DOMAIN l |-> <<PairOf(l[i]), l[i].proto>>]
\* A list of packets.
Packets(l) == l \in Seq(Packet)

\* The positions in I are as many as the sum of their ones.
LEMMA CountIsSum ==
    ASSUME NEW D, IsFiniteSet(D), NEW I \in SUBSET D
    PROVE  SumFunctionOnSet(Ones(D), I) = Cardinality(I) /\ IsFiniteSet(I) /\ Cardinality(I) \in Nat
<1>1. IsFiniteSet(I) /\ Cardinality(I) \in Nat
  BY FS_Subset, FS_CardinalityType
<1>2. \A i \in I : Ones(D)[i] = 1
  BY DEF Ones
<1> QED
  BY <1>1, <1>2, SumOfOnes

\* A list of packets is a list, and what has to be added up are naturals.
LEMMA PacketList ==
    ASSUME NEW l, Packets(l)
    PROVE  /\ List(l) /\ IsFiniteSet(DOMAIN l) /\ Cardinality(DOMAIN l) = Len(l) /\ Len(l) \in Nat
           /\ DOMAIN l = 1..Len(l)
           /\ \A i \in DOMAIN l : l[i] \in Packet /\ Sizes(l)[i] \in Nat /\ Ones(DOMAIN l)[i] \in Nat
<1>1. List(l)
  BY DEF List, Packets
<1>2. \A i \in DOMAIN l : l[i] \in Packet
  BY DEF Packets
<1>3. \A i \in DOMAIN l : l[i].size \in Nat
  BY <1>2 DEF Packet
<1> QED
  BY <1>1, <1>2, <1>3, ListBounds DEF Sizes, Ones

\* A part of a list of packets: its length and its bytes.
LEMMA PartOfPackets ==
    ASSUME NEW l, Packets(l), NEW I \in SUBSET DOMAIN l
    PROVE  /\ Packets(Sublist(l, I))
           /\ Len(Sublist(l, I)) = Cardinality(I) /\ Cardinality(I) \in Nat
           /\ Len(Sublist(l, I)) = SumFunctionOnSet(Ones(DOMAIN l), I)
           /\ TotalBytes(Sublist(l, I)) = SumFunctionOnSet(Sizes(l), I)
<1> DEFINE p == Sublist(l, I)
           F == [k \in DOMAIN p |-> p[k].size]
<1>0. List(l) /\ IsFiniteSet(DOMAIN l) /\ \A i \in I : l[i] \in Packet /\ Sizes(l)[i] \in Nat
  BY PacketList
<1>1. /\ List(p) /\ Len(p) = Cardinality(I) /\ Cardinality(I) \in Nat
      /\ \A k \in DOMAIN p : \E i \in I : p[k] = l[i]
  BY <1>0, SublistKeeps
<1>2. TotalBytes(p) = SumFunctionOnSet(F, DOMAIN F)
  BY DEF TotalBytes, Total, SumFunction
<1>3. DOMAIN F = DOMAIN p
  OBVIOUS
<1>4. \A k \in DOMAIN F, i \in I : p[k] = l[i] => F[k] = Sizes(l)[i]
  BY DEF Sizes
<1> HIDE DEF F
<1>5. SumFunctionOnSet(F, DOMAIN F) = SumFunctionOnSet(Sizes(l), I)
  BY <1>0, <1>3, <1>4, SumOfSublist
<1> HIDE DEF p
<1>6. Packets(p)
  <2>1. DOMAIN p = 1..Len(p) /\ Len(p) \in Nat /\ p = [k \in DOMAIN p |-> p[k]]
    BY <1>1, ListBounds
  <2>2. \A k \in DOMAIN p : p[k] \in Packet
    BY <1>0, <1>1
  <2> QED
    BY <2>1, <2>2 DEF Packets
<1>7. Len(p) = SumFunctionOnSet(Ones(DOMAIN l), I)
  BY <1>0, <1>1, CountIsSum
<1> QED
  BY <1>1, <1>2, <1>5, <1>6, <1>7 DEF p

\* The positions of a list with a value in V are as many before a filter as after it.
LEMMA CountOfSublist ==
    ASSUME NEW s, List(s), NEW I \in SUBSET DOMAIN s, NEW V
    PROVE  Cardinality({k \in DOMAIN Sublist(s, I) : Sublist(s, I)[k] \in V})
             = Cardinality({i \in I : s[i] \in V})
<1> DEFINE l == Sublist(s, I)
           K == {k \in DOMAIN l : l[k] \in V}
           J == {i \in I : s[i] \in V}
<1>1. PICK at : Picks(l, s, I, at)
  BY SublistPicks
<1> HIDE DEF l
<1>2. IsFiniteSet(DOMAIN l) /\ IsFiniteSet(I) /\ DOMAIN l \in SUBSET Int /\ I \in SUBSET Int
  BY <1>1, ListBounds, FS_Subset DEF Picks
<1>3. IsFiniteSet(K) /\ IsFiniteSet(J)
  BY <1>2, FS_Subset
<1>4. \A k \in K : at[k] \in J
  BY <1>1 DEF Picks
<1>5. \A i \in J : \E k \in K : at[k] = i
  BY <1>1 DEF Picks
<1>6. \A j, k \in K : at[j] = at[k] => j = k
  <2>1. \A j, k \in DOMAIN l : j < k <=> at[j] < at[k]
    BY <1>1 DEF Picks
  <2>2. \A k \in DOMAIN l : at[k] \in Int /\ k \in Int
    BY <1>1, <1>2 DEF Picks
  <2>3. \A j, k \in DOMAIN l : at[j] = at[k] => j = k
    BY <2>1, <2>2
  <2> QED
    BY <2>3
<1> HIDE DEF K, J
<1>7. \A i \in J : Ones(J)[i] \in Nat
  BY DEF Ones
<1>8. \A k \in K : Ones(K)[k] = Ones(J)[at[k]]
  BY <1>4 DEF Ones
<1>9. SumFunctionOnSet(Ones(K), K) = SumFunctionOnSet(Ones(J), J)
  BY <1>3, <1>4, <1>5, <1>6, <1>7, <1>8, SumOnto
<1>10. Cardinality(K) = Cardinality(J)
  BY <1>3, <1>9, CountIsSum
<1> QED
  BY <1>10 DEF K, J, l

\* An edge counts, and adds up, the packets with its key.
LEMMA EdgesAre ==
    ASSUME NEW l, Packets(l)
    PROVE  LET ks == EdgeKeys(l)
               keys == Distinct(ks)
           IN  /\ List(Edges(l)) /\ DOMAIN Edges(l) = DOMAIN keys
               /\ \A k \in DOMAIN keys :
                     /\ Edges(l)[k].src = keys[k][1][1] /\ Edges(l)[k].dst = keys[k][1][2]
                     /\ Edges(l)[k].count = SumFunctionOnSet(Ones(DOMAIN l), Class(DOMAIN ks, ks, keys[k]))
                     /\ Edges(l)[k].bytes = SumFunctionOnSet(Sizes(l), Class(DOMAIN ks, ks, keys[k]))
<1> DEFINE ks == EdgeKeys(l)
           keys == Distinct(ks)
           part(k) == Filter(l, LAMBDA p : <<PairOf(p), p.proto>> = keys[k])
<1>0. DOMAIN ks = DOMAIN l /\ \A i \in DOMAIN l : ks[i] = <<PairOf(l[i]), l[i].proto>>
  BY DEF EdgeKeys
<1>1. List(ks)
  <2>1. Len(l) \in Nat /\ DOMAIN l = 1..Len(l)
    BY PacketList
  <2>2. ks = [i \in 1..Len(l) |-> ks[i]]
    BY <2>1 DEF EdgeKeys
  <2> QED
    BY <2>1, <2>2, ListMade
<1>2. Edges(l) = [k \in DOMAIN keys |->
                    [src |-> keys[k][1][1], dst |-> keys[k][1][2], proto |-> keys[k][2],
                     count |-> Len(part(k)), bytes |-> TotalBytes(part(k)), errors |-> Errors(part(k))]]
  BY DEF Edges, EdgeKeys
<1>3. \A k : part(k) = Sublist(l, Class(DOMAIN ks, ks, keys[k]))
  <2> TAKE k
  <2>1. part(k) = Sublist(l, {i \in DOMAIN l : <<PairOf(l[i]), l[i].proto>> = keys[k]})
    BY DEF Filter
  <2> HIDE DEF ks, keys, part
  <2>2. {i \in DOMAIN l : <<PairOf(l[i]), l[i].proto>> = keys[k]} = Class(DOMAIN ks, ks, keys[k])
    BY <1>0 DEF Class
  <2> QED
    BY <2>1, <2>2
<1>4. \A k : Class(DOMAIN ks, ks, keys[k]) \in SUBSET DOMAIN l
  BY <1>0 DEF Class
<1> HIDE DEF ks, keys, part
<1>5. \A k : /\ Len(part(k)) = SumFunctionOnSet(Ones(DOMAIN l), Class(DOMAIN ks, ks, keys[k]))
             /\ TotalBytes(part(k)) = SumFunctionOnSet(Sizes(l), Class(DOMAIN ks, ks, keys[k]))
  BY <1>3, <1>4, PartOfPackets
<1>6. DOMAIN Edges(l) = DOMAIN keys
  BY <1>2
<1>7. List(Edges(l))
  <2>1. List(keys)
    BY <1>1, DistinctKeeps DEF keys
  <2>2. Len(keys) \in Nat /\ DOMAIN keys = 1..Len(keys)
    BY <2>1, ListBounds
  <2>3. Edges(l) = [k \in 1..Len(keys) |-> Edges(l)[k]]
    BY <1>2, <2>2
  <2> QED
    BY <2>2, <2>3, ListMade
<1>8. \A k \in DOMAIN keys :
         /\ Edges(l)[k].src = keys[k][1][1] /\ Edges(l)[k].dst = keys[k][1][2]
         /\ Edges(l)[k].count = Len(part(k)) /\ Edges(l)[k].bytes = TotalBytes(part(k))
  BY <1>2
<1> QED
  BY <1>5, <1>6, <1>7, <1>8 DEF ks, keys

\* Hosts, listed in IpOrder, are finitely many.
LEMMA IpsFinite == IsFiniteSet(Ips)
<1>1. Len(IpOrder) \in Nat /\ DOMAIN IpOrder = 1..Len(IpOrder) /\ IpOrder \in [1..Len(IpOrder) -> Ips]
  BY HostAssumption
<1>2. \A ip \in Ips : \E k \in 1..Len(IpOrder) : IpOrder[k] = ip
  BY <1>1 DEF Ips, ToSet
<1>3. IpOrder \in Surjection(1..Len(IpOrder), Ips)
  BY <1>1, <1>2 DEF Surjection
<1> QED
  BY <1>1, <1>3, FS_Interval, FS_Surjection

\* All positions add up to the length and to the bytes of the list.
LEMMA SumOfList ==
    ASSUME NEW l, Packets(l)
    PROVE  /\ SumFunctionOnSet(Ones(DOMAIN l), DOMAIN l) = Len(l)
           /\ SumFunctionOnSet(Sizes(l), DOMAIN l) = TotalBytes(l)
<1>1. SumFunctionOnSet(Ones(DOMAIN l), DOMAIN l) = Len(l)
  BY PacketList, CountIsSum
<1>2. TotalBytes(l) = SumFunctionOnSet(Sizes(l), DOMAIN Sizes(l))
  BY DEF TotalBytes, Total, SumFunction, Sizes
<1> QED
  BY <1>1, <1>2 DEF Sizes

\* Every packet is on one edge.
LEMMA EdgesAddUp ==
    ASSUME NEW l, Packets(l)
    PROVE  /\ Total(Edges(l), LAMBDA e : e.count) = Len(l)
           /\ Total(Edges(l), LAMBDA e : e.bytes) = TotalBytes(l)
<1> DEFINE ks == EdgeKeys(l)
           keys == Distinct(ks)
           K == DOMAIN keys
           C == [k \in K |-> Edges(l)[k].count]
           B == [k \in K |-> Edges(l)[k].bytes]
<1>0. /\ List(Edges(l)) /\ DOMAIN Edges(l) = K
      /\ \A k \in K : /\ C[k] = SumFunctionOnSet(Ones(DOMAIN l), Class(DOMAIN ks, ks, keys[k]))
                      /\ B[k] = SumFunctionOnSet(Sizes(l), Class(DOMAIN ks, ks, keys[k]))
  BY EdgesAre
<1>1. /\ Total(Edges(l), LAMBDA e : e.count) = SumFunctionOnSet(C, K)
      /\ Total(Edges(l), LAMBDA e : e.bytes) = SumFunctionOnSet(B, K)
  <2> HIDE DEF K
  <2> QED
    BY <1>0 DEF Total, SumFunction
<1>2. List(ks) /\ DOMAIN ks = DOMAIN l
  <2>1. Len(l) \in Nat /\ DOMAIN l = 1..Len(l)
    BY PacketList
  <2>2. ks = [i \in 1..Len(l) |-> ks[i]] /\ DOMAIN ks = DOMAIN l
    BY <2>1 DEF EdgeKeys
  <2> QED
    BY <2>1, <2>2, ListMade
<1>3. InGroups(ks, K) = DOMAIN l
  <2> HIDE DEF ks
  <2> QED
    BY <1>2, DistinctKeeps DEF InGroups
<1>4. \A i \in DOMAIN ks : Ones(DOMAIN l)[i] \in Nat /\ Sizes(l)[i] \in Nat
  BY <1>2, PacketList
<1> HIDE DEF C, B, ks
<1>5. /\ SumFunctionOnSet(C, K) = SumFunctionOnSet(Ones(DOMAIN l), InGroups(ks, K))
      /\ SumFunctionOnSet(B, K) = SumFunctionOnSet(Sizes(l), InGroups(ks, K))
  BY <1>0, <1>2, <1>4, SumOfGroups
<1> QED
  BY <1>1, <1>3, <1>5, SumOfList

\* The i-th packet starts or ends in lane g of the device map dm.
Touches(l, dm, g, i) == g \in {dm[IpOf(l[i].src)].group, dm[IpOf(l[i].dst)].group}

\* A lane counts a packet once if it touches the lane.
LEMMA LanesAddUp ==
    ASSUME NEW l, Packets(l), NEW dm, NEW g, NEW devices, NEW stats
    PROVE  GroupMeta(g, devices, dm, Edges(l), stats).packets
             = Cardinality({i \in DOMAIN l : Touches(l, dm, g, i)})
<1> DEFINE ks == EdgeKeys(l)
           keys == Distinct(ks)
           edges == Edges(l)
           K == {k \in DOMAIN edges : g \in {dm[edges[k].src].group, dm[edges[k].dst].group}}
           touching == Sublist(edges, K)
           C == [k \in DOMAIN keys |-> edges[k].count]
           F == [k \in DOMAIN touching |-> touching[k].count]
<1>0. /\ List(edges) /\ DOMAIN edges = DOMAIN keys
      /\ \A k \in DOMAIN keys :
            /\ edges[k].src = keys[k][1][1] /\ edges[k].dst = keys[k][1][2]
            /\ C[k] = SumFunctionOnSet(Ones(DOMAIN l), Class(DOMAIN ks, ks, keys[k]))
  BY EdgesAre
<1>1. touching = Filter(edges, LAMBDA e : g \in {dm[e.src].group, dm[e.dst].group})
  BY DEF Filter
<1>2. GroupMeta(g, devices, dm, edges, stats).packets = SumFunctionOnSet(F, DOMAIN F)
  <2> HIDE DEF touching, edges
  <2>1. GroupMeta(g, devices, dm, edges, stats).packets = Total(touching, LAMBDA e : e.count)
    BY <1>1 DEF GroupMeta
  <2> QED
    BY <2>1 DEF Total, SumFunction
<1>3. /\ List(ks) /\ DOMAIN ks = DOMAIN l
      /\ \A i \in DOMAIN l : ks[i][1][1] = IpOf(l[i].src) /\ ks[i][1][2] = IpOf(l[i].dst)
  <2>1. Len(l) \in Nat /\ DOMAIN l = 1..Len(l)
    BY PacketList
  <2>2. ks = [i \in 1..Len(l) |-> ks[i]] /\ DOMAIN ks = DOMAIN l
    BY <2>1 DEF EdgeKeys
  <2>3. \A i \in DOMAIN l : ks[i][1][1] = IpOf(l[i].src) /\ ks[i][1][2] = IpOf(l[i].dst)
    BY DEF EdgeKeys, PairOf
  <2> QED
    BY <2>1, <2>2, <2>3, ListMade
<1> HIDE DEF ks, edges
<1>4. K \in SUBSET DOMAIN keys
  BY <1>0
<1>5. \A i \in DOMAIN ks : Ones(DOMAIN l)[i] \in Nat
  BY <1>3, PacketList
<1>6. \A k \in K : C[k] \in Nat
  <2> TAKE k \in K
  <2>1. Class(DOMAIN ks, ks, keys[k]) \in SUBSET DOMAIN l
    BY <1>3 DEF Class
  <2>2. C[k] = SumFunctionOnSet(Ones(DOMAIN l), Class(DOMAIN ks, ks, keys[k]))
    BY <1>0, <1>4
  <2> HIDE DEF C
  <2> QED
    BY <2>1, <2>2, PacketList, CountIsSum
<1>7. DOMAIN F = DOMAIN touching /\ \A k \in DOMAIN F, i \in K : touching[k] = edges[i] => F[k] = C[i]
  <2> HIDE DEF touching
  <2> QED
    BY <1>4
<1>8. \A k \in K : C[k] = SumFunctionOnSet(Ones(DOMAIN l), Class(DOMAIN ks, ks, keys[k]))
  BY <1>0, <1>4
<1>9. InGroups(ks, K) = {i \in DOMAIN l : Touches(l, dm, g, i)}
  <2>1. ASSUME NEW k \in DOMAIN keys, NEW i \in DOMAIN l, ks[i] = keys[k]
        PROVE  k \in K <=> Touches(l, dm, g, i)
    BY <1>0, <1>3, <2>1 DEF Touches
  <2>2. \A i \in DOMAIN l : \E k \in DOMAIN keys : ks[i] = keys[k]
    BY <1>3, DistinctKeeps
  <2> HIDE DEF K, keys
  <2> QED
    BY <1>3, <1>4, <2>1, <2>2 DEF InGroups, keys
<1> HIDE DEF C, F
<1>10. SumFunctionOnSet(F, DOMAIN F) = SumFunctionOnSet(C, K)
  <2>1. K \in SUBSET DOMAIN edges
    OBVIOUS
  <2> HIDE DEF K
  <2> QED
    BY <1>0, <1>6, <1>7, <2>1, SumOfSublist
<1> HIDE DEF K
<1>11. SumFunctionOnSet(C, K) = SumFunctionOnSet(Ones(DOMAIN l), InGroups(ks, K))
  BY <1>3, <1>4, <1>5, <1>8, SumOfGroups
<1>12. InGroups(ks, K) \in SUBSET DOMAIN l
  BY <1>3 DEF InGroups
<1>13. SumFunctionOnSet(Ones(DOMAIN l), InGroups(ks, K)) = Cardinality(InGroups(ks, K))
  BY <1>12, PacketList, CountIsSum
<1> QED
  BY <1>2, <1>9, <1>10, <1>11, <1>13 DEF edges

\* The hosts that send and receive the packets.
Srcs(l) == [i \in DOMAIN l |-> IpOf(l[i].src)]
Dsts(l) == [i \in DOMAIN l |-> IpOf(l[i].dst)]

\* A node counts what it sends and what it receives.
LEMMA StatsAre ==
    ASSUME NEW l, Packets(l), NEW dm, NEW ip \in DOMAIN dm
    PROVE  LET st == NodeStats(l, dm)
           IN  /\ DOMAIN st = DOMAIN dm
               /\ st[ip].sent = SumFunctionOnSet(Ones(DOMAIN l), Class(DOMAIN l, Srcs(l), ip))
               /\ st[ip].recv = SumFunctionOnSet(Ones(DOMAIN l), Class(DOMAIN l, Dsts(l), ip))
               /\ st[ip].sent = Cardinality(Class(DOMAIN l, Srcs(l), ip)) /\ st[ip].sent \in Nat
               /\ st[ip].recv = Cardinality(Class(DOMAIN l, Dsts(l), ip)) /\ st[ip].recv \in Nat
<1> DEFINE out == Filter(l, LAMBDA p : IpOf(p.src) = ip)
           in == Filter(l, LAMBDA p : IpOf(p.dst) = ip)
           st == NodeStats(l, dm)
           O == Class(DOMAIN l, Srcs(l), ip)
           I == Class(DOMAIN l, Dsts(l), ip)
<1>1. DOMAIN st = DOMAIN dm /\ st[ip].sent = Len(out) /\ st[ip].recv = Len(in)
  BY DEF NodeStats
<1>2. out = Sublist(l, {i \in DOMAIN l : IpOf(l[i].src) = ip})
      /\ in = Sublist(l, {i \in DOMAIN l : IpOf(l[i].dst) = ip})
  BY DEF Filter
<1>3. /\ {i \in DOMAIN l : IpOf(l[i].src) = ip} = O /\ {i \in DOMAIN l : IpOf(l[i].dst) = ip} = I
      /\ O \in SUBSET DOMAIN l /\ I \in SUBSET DOMAIN l
  BY DEF Class, Srcs, Dsts
<1> HIDE DEF O, I, out, in
<1>4. /\ Len(out) = Cardinality(O) /\ Len(out) = SumFunctionOnSet(Ones(DOMAIN l), O) /\ Len(out) \in Nat
      /\ Len(in) = Cardinality(I) /\ Len(in) = SumFunctionOnSet(Ones(DOMAIN l), I) /\ Len(in) \in Nat
  BY <1>2, <1>3, PartOfPackets
<1> QED
  BY <1>1, <1>4 DEF O, I

\* Every packet is sent by one node and received by one.
LEMMA NodesAddUp ==
    ASSUME NEW l, Packets(l), NEW dm, Hosts(l) \subseteq DOMAIN dm, DOMAIN dm \subseteq Ips
    PROVE  LET st == NodeStats(l, dm)
           IN  /\ SumFunction([ip \in DOMAIN st |-> st[ip].sent]) = Len(l)
               /\ SumFunction([ip \in DOMAIN st |-> st[ip].recv]) = Len(l)
<1> DEFINE st == NodeStats(l, dm)
           S == [ip \in DOMAIN st |-> st[ip].sent]
           R == [ip \in DOMAIN st |-> st[ip].recv]
           K == DOMAIN dm
<1>0. DOMAIN st = K
  BY DEF NodeStats
<1>1. \A ip \in K : /\ S[ip] = SumFunctionOnSet(Ones(DOMAIN l), Class(DOMAIN l, Srcs(l), ip))
                    /\ R[ip] = SumFunctionOnSet(Ones(DOMAIN l), Class(DOMAIN l, Dsts(l), ip))
  BY <1>0, StatsAre
<1>2. IsFiniteSet(K)
  BY IpsFinite, FS_Subset
<1>3. \A i \in DOMAIN l : Srcs(l)[i] \in K /\ Dsts(l)[i] \in K
  BY DEF Hosts, ToSet, Srcs, Dsts
<1>4. SumFunction(S) = SumFunctionOnSet(S, K) /\ SumFunction(R) = SumFunctionOnSet(R, K)
  BY <1>0 DEF SumFunction
<1> HIDE DEF S, R, K
<1>5. IsFiniteSet(DOMAIN l) /\ \A i \in DOMAIN l : Ones(DOMAIN l)[i] \in Nat
  BY PacketList
<1>6. /\ SumFunctionOnSet(S, K) = SumFunctionOnSet(Ones(DOMAIN l), DOMAIN l)
      /\ SumFunctionOnSet(R, K) = SumFunctionOnSet(Ones(DOMAIN l), DOMAIN l)
  BY <1>1, <1>2, <1>3, <1>5, SumOfClasses
<1> QED
  BY <1>4, <1>6, SumOfList DEF S, R

\* The pair of hosts of each packet.
Pairs(l) == [i \in DOMAIN l |-> PairOf(l[i])]

\* A cell of the matrix counts, and adds up, the packets of its pair.
LEMMA MatrixIs ==
    ASSUME NEW l, Packets(l)
    PROVE  LET m == PairMat(l)
           IN  /\ IsFiniteSet(DOMAIN m) /\ \A i \in DOMAIN l : Pairs(l)[i] \in DOMAIN m
               /\ \A pair \in DOMAIN m :
                     /\ \E i \in DOMAIN l : pair = PairOf(l[i])
                     /\ m[pair].count = SumFunctionOnSet(Ones(DOMAIN l), Class(DOMAIN l, Pairs(l), pair))
                     /\ m[pair].bytes = SumFunctionOnSet(Sizes(l), Class(DOMAIN l, Pairs(l), pair))
<1> DEFINE m == PairMat(l)
           K == {PairOf(p) : p \in ToSet(l)}
           part(pair) == Filter(l, LAMBDA p : PairOf(p) = pair)
<1>1. m = [pair \in K |-> [count |-> Len(part(pair)), bytes |-> TotalBytes(part(pair)),
                           errors |-> Errors(part(pair)), protos |-> {p.proto : p \in ToSet(part(pair))}]]
  BY DEF PairMat
<1>2. \A pair : part(pair) = Sublist(l, Class(DOMAIN l, Pairs(l), pair))
  <2> TAKE pair
  <2>1. part(pair) = Sublist(l, {i \in DOMAIN l : PairOf(l[i]) = pair})
    BY DEF Filter
  <2> HIDE DEF part
  <2>2. {i \in DOMAIN l : PairOf(l[i]) = pair} = Class(DOMAIN l, Pairs(l), pair)
    BY DEF Class, Pairs
  <2> QED
    BY <2>1, <2>2
<1> HIDE DEF part
<1>3. \A pair : Class(DOMAIN l, Pairs(l), pair) \in SUBSET DOMAIN l
  BY DEF Class
<1>4. \A pair : /\ Len(part(pair)) = SumFunctionOnSet(Ones(DOMAIN l), Class(DOMAIN l, Pairs(l), pair))
                /\ TotalBytes(part(pair)) = SumFunctionOnSet(Sizes(l), Class(DOMAIN l, Pairs(l), pair))
  BY <1>2, <1>3, PartOfPackets
<1>5. \A pair \in K : m[pair].count = Len(part(pair)) /\ m[pair].bytes = TotalBytes(part(pair))
  BY <1>1
<1>6. DOMAIN m = K
  BY <1>1
<1>7. /\ \A i \in DOMAIN l : Pairs(l)[i] \in K
      /\ \A pair \in K : \E i \in DOMAIN l : pair = PairOf(l[i])
  BY DEF Pairs, ToSet
<1>8. IsFiniteSet(K)
  <2> HIDE DEF K
  <2>1. Pairs(l) \in Surjection(DOMAIN l, K)
    <3>1. Pairs(l) \in [DOMAIN l -> K]
      BY <1>7 DEF Pairs
    <3>2. \A pair \in K : \E i \in DOMAIN l : Pairs(l)[i] = pair
      BY <1>7 DEF Pairs
    <3> QED
      BY <3>1, <3>2 DEF Surjection
  <2> QED
    BY <2>1, PacketList, FS_Surjection
<1> HIDE DEF K, m
<1> QED
  BY <1>4, <1>5, <1>6, <1>7, <1>8 DEF m

\* The i-th packet leaves its host.
Crosses(l, i) == IpOf(l[i].src) # IpOf(l[i].dst)

\* The matrix has every packet that leaves its host.
LEMMA CellsAddUp ==
    ASSUME NEW l, Packets(l), NEW ips, ToSet(ips) = Hosts(l)
    PROVE  /\ SumFunction([pair \in Cells(PairMat(l), ips) |-> PairMat(l)[pair].count])
                 = Cardinality({i \in DOMAIN l : Crosses(l, i)})
           /\ Lines(PairMat(l), ips) = DOMAIN PairMat(l)
<1> DEFINE m == PairMat(l)
           K == Cells(m, ips)
           I == {i \in DOMAIN l : Crosses(l, i)}
           F == [pair \in K |-> m[pair].count]
<1>0. /\ IsFiniteSet(DOMAIN m) /\ \A i \in DOMAIN l : Pairs(l)[i] \in DOMAIN m
      /\ \A pair \in DOMAIN m :
            /\ \E i \in DOMAIN l : pair = PairOf(l[i])
            /\ m[pair].count = SumFunctionOnSet(Ones(DOMAIN l), Class(DOMAIN l, Pairs(l), pair))
  BY MatrixIs
<1> HIDE DEF m
<1>1. \A i \in DOMAIN l : /\ Pairs(l)[i] = PairOf(l[i])
                          /\ PairOf(l[i])[1] = IpOf(l[i].src) /\ PairOf(l[i])[2] = IpOf(l[i].dst)
                          /\ PairOf(l[i])[1] \in ToSet(ips) /\ PairOf(l[i])[2] \in ToSet(ips)
  BY DEF Pairs, PairOf, Hosts, ToSet
<1>2. K = {pair \in DOMAIN m : pair[1] # pair[2]}
  BY <1>0, <1>1 DEF Cells
<1>3. Lines(m, ips) = DOMAIN m
  BY <1>0, <1>1 DEF Lines
<1> HIDE DEF K
<1>4. IsFiniteSet(K) /\ K \in SUBSET DOMAIN m
  BY <1>0, <1>2, FS_Subset
<1>5. \A i \in I : Pairs(l)[i] \in K
  BY <1>0, <1>1, <1>2 DEF Crosses
<1>6. ASSUME NEW pair \in K PROVE Class(DOMAIN l, Pairs(l), pair) = Class(I, Pairs(l), pair)
  BY <1>1, <1>2 DEF Class, Crosses
<1>7. \A pair \in K : F[pair] = SumFunctionOnSet(Ones(DOMAIN l), Class(I, Pairs(l), pair))
  BY <1>0, <1>4, <1>6
<1>8. SumFunction(F) = SumFunctionOnSet(F, K)
  BY DEF SumFunction
<1> HIDE DEF F
<1>9. I \in SUBSET DOMAIN l /\ IsFiniteSet(DOMAIN l)
  BY PacketList
<1> HIDE DEF I
<1>10. IsFiniteSet(I) /\ \A i \in I : Ones(DOMAIN l)[i] \in Nat
  BY <1>9, FS_Subset DEF Ones
<1>11. SumFunctionOnSet(F, K) = SumFunctionOnSet(Ones(DOMAIN l), I)
  BY <1>4, <1>5, <1>7, <1>10, SumOfClasses
<1>12. SumFunctionOnSet(Ones(DOMAIN l), I) = Cardinality(I)
  BY <1>9, CountIsSum
<1> QED
  BY <1>3, <1>8, <1>11, <1>12 DEF F, I, K, m

\* The messages are the end of the list.
LEMMA MessagesEnd ==
    ASSUME NEW l, Packets(l)
    PROVE  IsSuffix(Messages(l), l) /\ Len(Messages(l)) = Min({Len(l), MessageLimit})
<1> DEFINE n == Len(l)
           first == IF n > MessageLimit THEN n - MessageLimit + 1 ELSE 1
           m == Messages(l)
<1>0. n \in Nat /\ MessageLimit \in Nat /\ l \in Seq(Packet)
  BY PacketList, MessageAssumption DEF Packets
<1>1. first \in 1..n + 1 /\ first \in Int
  BY <1>0
<1>2. m = SubSeq(l, first, n)
  BY DEF Messages
<1>3. Len(m) = n + 1 - first /\ Len(m) \in Nat /\ \A i \in 1..Len(m) : m[i] = l[first + i - 1]
  <2> HIDE DEF first, m
  <2> QED
    BY <1>0, <1>1, <1>2
<1>4. Len(m) = IF n > MessageLimit THEN MessageLimit ELSE n
  BY <1>0, <1>3
<1>5. Len(m) = Min({n, MessageLimit})
  <2>1. \A a, b \in Nat : Min({a, b}) = IF a > b THEN b ELSE a
    BY DEF Min
  <2> QED
    BY <1>0, <1>4, <2>1
<1>6. Len(Reverse(m)) = Len(m) /\ Len(Reverse(l)) = n
  <2> HIDE DEF m, n
  <2> QED
    BY <1>0, <1>3 DEF Reverse, n
<1>9. Len(m) <= n
  BY <1>0, <1>1, <1>3
<1>7. \A i \in 1..Len(m) : Reverse(m)[i] = Reverse(l)[i]
  <2> TAKE i \in 1..Len(m)
  <2>1. i \in 1..n /\ (Len(m) - i) + 1 \in 1..Len(m)
    <3> HIDE DEF m, n
    <3> QED
      BY <1>0, <1>3, <1>9
  <2>2. Reverse(m)[i] = m[(Len(m) - i) + 1] /\ Reverse(l)[i] = l[(n - i) + 1]
    <3> HIDE DEF m
    <3> QED
      BY <2>1 DEF Reverse
  <2>3. m[(Len(m) - i) + 1] = l[first + ((Len(m) - i) + 1) - 1]
    BY <1>3, <2>1
  <2>4. first + ((Len(m) - i) + 1) - 1 = (n - i) + 1
    <3> HIDE DEF first, m, n
    <3> QED
      BY <1>0, <1>1, <1>3
  <2> QED
    BY <2>2, <2>3, <2>4
<1>8. SubSeq(Reverse(m), 1, Len(m)) = SubSeq(Reverse(l), 1, Len(m))
  <2>1. m \in Seq(Packet)
    <3> HIDE DEF first
    <3>1. \A i \in first..n : l[i] \in Packet
      BY <1>0, <1>1
    <3> QED
      BY <1>0, <1>1, <1>2, <3>1, SubSeqProperties
  <2> HIDE DEF m, n
  <2>2. Reverse(m) \in Seq(Packet) /\ Reverse(l) \in Seq(Packet)
    BY <1>0, <2>1 DEF Reverse, n
  <2> DEFINE a == SubSeq(Reverse(m), 1, Len(m))
             b == SubSeq(Reverse(l), 1, Len(m))
  <2>3. /\ a \in Seq(Packet) /\ Len(a) = Len(m) /\ \A i \in 1..Len(m) : a[i] = Reverse(m)[i]
        /\ b \in Seq(Packet) /\ Len(b) = Len(m) /\ \A i \in 1..Len(m) : b[i] = Reverse(l)[i]
    BY <1>0, <1>3, <1>6, <1>9, <2>2
  <2> HIDE DEF a, b
  <2>4. a = b
    BY <1>3, <1>7, <2>3
  <2> QED
    BY <2>4 DEF a, b
<1> HIDE DEF m, n
<1>10. IsSuffix(m, l)
  BY <1>6, <1>8, <1>9 DEF IsSuffix, IsPrefix
<1> QED
  BY <1>5, <1>10 DEF m, n

---------------------------------------------------------------------------
(* The state of the views *)

\* What the other invariants are about: lists of packets, labels of known ips.
ListsInv ==
    /\ demo \in BOOLEAN /\ tab \in {"graph", "perf"} /\ arrivals \in Nat
    /\ packets \in Seq(Packet) /\ showProtos \subseteq Protos
    /\ DOMAIN overrides \subseteq Ips /\ DOMAIN stored \subseteq Ips
    /\ sort \in [key : {"packets", "p99", "last"}, dir : {"asc", "desc"}]

\* The positions of s with a value of V.
Kept(s, V) == {i \in DOMAIN s : s[i] \in V}

\* A filtered list has the values kept.
LEMMA FilterKeeps ==
    ASSUME NEW s, List(s), NEW V
    PROVE  List(Sublist(s, Kept(s, V))) /\ ToSet(Sublist(s, Kept(s, V))) = ToSet(s) \cap V
<1> DEFINE l == Sublist(s, Kept(s, V))
<1>1. Kept(s, V) \in SUBSET DOMAIN s
  BY DEF Kept
<1>2. /\ List(l)
      /\ \A k \in DOMAIN l : \E i \in Kept(s, V) : l[k] = s[i]
      /\ \A i \in Kept(s, V) : \E k \in DOMAIN l : l[k] = s[i]
  BY <1>1, SublistKeeps
<1> HIDE DEF l
<1>3. ToSet(l) = ToSet(s) \cap V
  BY <1>2 DEF ToSet, Kept
<1> QED
  BY <1>2, <1>3 DEF l

\* Two lists make a list of the values of both.
LEMMA ListsConcat ==
    ASSUME NEW s, List(s), NEW t, List(t)
    PROVE  List(s \o t) /\ ToSet(s \o t) = ToSet(s) \cup ToSet(t)
<1> DEFINE V == ToSet(s) \cup ToSet(t)
           u == s \o t
<1>1. s \in Seq(V) /\ t \in Seq(V)
  <2>1. /\ Len(s) \in Nat /\ DOMAIN s = 1..Len(s) /\ s = [k \in DOMAIN s |-> s[k]]
        /\ Len(t) \in Nat /\ DOMAIN t = 1..Len(t) /\ t = [k \in DOMAIN t |-> t[k]]
    BY ListBounds
  <2>2. (\A k \in DOMAIN s : s[k] \in V) /\ (\A k \in DOMAIN t : t[k] \in V)
    BY DEF ToSet
  <2> HIDE DEF V
  <2> QED
    BY <2>1, <2>2
<1> HIDE DEF V
<1>2. /\ u \in Seq(V) /\ Len(u) = Len(s) + Len(t)
      /\ \A k \in 1..Len(u) : u[k] = IF k <= Len(s) THEN s[k] ELSE t[k - Len(s)]
  BY <1>1, ConcatProperties
<1>3. DOMAIN s = 1..Len(s) /\ DOMAIN t = 1..Len(t) /\ DOMAIN u = 1..Len(u) /\ Len(s) \in Nat /\ Len(t) \in Nat
  BY <1>1, <1>2
<1> HIDE DEF u
<1>4. \A k \in DOMAIN s : k \in DOMAIN u /\ u[k] = s[k]
  BY <1>2, <1>3
<1>5. \A k \in DOMAIN t : k + Len(s) \in DOMAIN u /\ u[k + Len(s)] = t[k]
  BY <1>2, <1>3
<1>6. \A k \in DOMAIN u : (k \in DOMAIN s /\ u[k] = s[k])
                          \/ (k - Len(s) \in DOMAIN t /\ u[k] = t[k - Len(s)])
  BY <1>2, <1>3
<1>7. ToSet(u) = ToSet(s) \cup ToSet(t)
  BY <1>4, <1>5, <1>6 DEF ToSet
<1>8. List(u)
  BY <1>2 DEF List
<1> QED
  BY <1>7, <1>8 DEF u

\* The views list the devices of the map, those of the presets first.
LEMMA DevicesAre ==
    ASSUME NEW dm, NEW d
    PROVE  LET ds == DevicesFromMap(dm, d)
           IN  List(ds) /\ ToSet(ds) = Ips \cap DOMAIN dm
<1> DEFINE mapped(ips) == Sublist(ips, Kept(ips, DOMAIN dm))
           others == Sublist(mapped(IpOrder), Kept(mapped(IpOrder), Ips \ DOMAIN Preset))
<1>1. List(IpOrder) /\ List(PresetOrder) /\ ToSet(IpOrder) = Ips /\ ToSet(PresetOrder) \subseteq Ips
      /\ DOMAIN Preset = ToSet(PresetOrder)
  BY HostAssumption DEF List, Ips, ToSet
<1>2. /\ List(mapped(IpOrder)) /\ ToSet(mapped(IpOrder)) = Ips \cap DOMAIN dm
      /\ List(mapped(PresetOrder)) /\ ToSet(mapped(PresetOrder)) = DOMAIN Preset \cap DOMAIN dm
  BY <1>1, FilterKeeps
<1>3. List(others) /\ ToSet(others) = (Ips \cap DOMAIN dm) \ DOMAIN Preset
  <2>1. List(others) /\ ToSet(others) = ToSet(mapped(IpOrder)) \cap (Ips \ DOMAIN Preset)
    BY <1>2, FilterKeeps
  <2> QED
    BY <1>2, <2>1
<1>4. DevicesFromMap(dm, d) = IF d THEN mapped(PresetOrder) \o others ELSE mapped(IpOrder)
  <2>1. ASSUME NEW ips PROVE Filter(ips, LAMBDA ip : ip \in DOMAIN dm) = mapped(ips)
    BY DEF Filter, Kept
  <2> DEFINE m == mapped(IpOrder)
  <2>2. \A i \in DOMAIN m : m[i] \in Ips
    BY <1>2 DEF ToSet
  <2> HIDE DEF m
  <2>3. {i \in DOMAIN m : m[i] \notin DOMAIN Preset} = Kept(m, Ips \ DOMAIN Preset)
    BY <2>2 DEF Kept
  <2>4. Filter(m, LAMBDA ip : ip \notin DOMAIN Preset) = Sublist(m, Kept(m, Ips \ DOMAIN Preset))
    BY <2>3 DEF Filter
  <2> QED
    BY <2>1, <2>4 DEF DevicesFromMap, m, Filter, Kept
<1> HIDE DEF mapped, others
<1>5. /\ List(mapped(PresetOrder) \o others)
      /\ ToSet(mapped(PresetOrder) \o others) = Ips \cap DOMAIN dm
  <2>1. /\ List(mapped(PresetOrder) \o others)
        /\ ToSet(mapped(PresetOrder) \o others) = ToSet(mapped(PresetOrder)) \cup ToSet(others)
    BY <1>2, <1>3, ListsConcat
  <2> QED
    BY <1>1, <1>2, <1>3, <2>1
<1> QED
  BY <1>2, <1>4, <1>5

\* An edit of a known host leaves entries of known hosts.
LEMMA EditsKeepIps ==
    ASSUME NEW o, DOMAIN o \subseteq Ips, NEW ip \in Ips, NEW field, NEW value
    PROVE  DOMAIN UpdateField(o, ip, field, value) \subseteq Ips
<1>1. \A x : DOMAIN Without(o, x) \subseteq Ips
  BY DEF Without
<1>2. \A x : DOMAIN With(o, ip, x) \subseteq Ips
  BY DEF With
<1> QED
  BY <1>1, <1>2 DEF UpdateField

\* The hosts dialog lists known hosts.
LEMMA ListedAreIps ==
    ASSUME NEW ip \in ToSet(Listed(packets, devMap, demo, TRUE)) PROVE ip \in Ips
<1> DEFINE ds == DevicesFromMap(devMap, demo)
           I == {i \in DOMAIN ds : TRUE \/ PacketCount(packets, ds[i]) > 0}
<1>1. Listed(packets, devMap, demo, TRUE) = Sublist(ds, I)
  BY DEF Listed, Filter
<1>2. List(ds) /\ \A i \in DOMAIN ds : ds[i] \in Ips
  BY DevicesAre DEF ToSet
<1> HIDE DEF ds
<1>3. I \in SUBSET DOMAIN ds
  OBVIOUS
<1> HIDE DEF I
<1>4. \A k \in DOMAIN Sublist(ds, I) : \E i \in I : Sublist(ds, I)[k] = ds[i]
  BY <1>2, <1>3, SublistKeeps
<1> QED
  BY <1>1, <1>2, <1>3, <1>4 DEF ToSet

\* ListsInv holds at first, and every step keeps it.
LEMMA ListsInit == Init => ListsInv
BY LabelsAssumption DEF Init, ListsInv, DefaultSort

LEMMA ListsStep == ListsInv /\ [Next]_vars => ListsInv'
<1> SUFFICES ASSUME ListsInv, [Next]_vars PROVE ListsInv'
  OBVIOUS
<1>1. CASE Arrive
  <2>1. PICK p \in Traffic :
           LET next == Append(packets, [p EXCEPT !.ts = arrivals])
           IN  SetPackets(IF Len(next) > MaxPackets THEN Tail(next) ELSE next)
    BY <1>1 DEF Arrive
  <2> DEFINE q == [p EXCEPT !.ts = arrivals]
             next == Append(packets, q)
             new == IF Len(next) > MaxPackets THEN Tail(next) ELSE next
  <2>2. q \in Packet
    BY <2>1, TrafficAssumption DEF ListsInv, Packet
  <2> HIDE DEF q
  <2>3. next \in Seq(Packet) /\ next # <<>>
    BY <2>2 DEF ListsInv
  <2> HIDE DEF next
  <2>4. new \in Seq(Packet)
    BY <2>3
  <2>5. packets' = new /\ overrides' = overrides
    BY <2>1 DEF SetPackets, Render, q, next
  <2> HIDE DEF new
  <2> QED
    BY <1>1, <2>4, <2>5 DEF Arrive, ListsInv
<1>2. CASE OnClear
  BY <1>2 DEF OnClear, Click, SetPackets, Render, ListsInv
<1>3. CASE ToggleProto
  BY <1>3 DEF ToggleProto, ListsInv
<1>4. CASE EditField \/ ResetRow \/ ClearAll
  <2>1. PICK o : UpdateOverrides(o) /\ DOMAIN o \subseteq Ips
    <3>1. CASE EditField
      BY <3>1, ListedAreIps, EditsKeepIps DEF EditField, ListsInv
    <3>2. CASE ResetRow
      BY <3>2 DEF ResetRow, ListsInv, Without
    <3>3. CASE ClearAll
      BY <3>3 DEF ClearAll, NoOverrides
    <3> QED
      BY <1>4, <3>1, <3>2, <3>3
  <2>2. /\ overrides' = o /\ (stored' = o \/ stored' = stored)
        /\ UNCHANGED <<demo, packets, arrivals, tab, showProtos, sort>>
    BY <2>1 DEF UpdateOverrides, Render
  <2> QED
    BY <2>1, <2>2 DEF ListsInv
<1>5. CASE ShowTab
  BY <1>5 DEF ShowTab, ListsInv, graph, DefaultSort
<1>6. CASE SortFlows
  BY <1>6 DEF SortFlows, ListsInv, ToggleSort, graph
<1>7. CASE UNCHANGED vars
  BY <1>7 DEF vars, graph, ListsInv
<1> QED
  BY <1>1, <1>2, <1>3, <1>4, <1>5, <1>6, <1>7 DEF Next

---------------------------------------------------------------------------
(* ViewsAgree *)

\* The map knows the hosts of every packet, and no others than known ips.
LEMMA MapKnowsHosts ==
    ASSUME MapInv, ListsInv, tab = "graph"
    PROVE  Hosts(packets) \subseteq DOMAIN devMap /\ DOMAIN devMap \subseteq Ips
<1>1. PICK ps : MadeFrom(ps)
  BY DEF MapInv
<1>2. EndpointKey(ps) = EndpointKey(packets)
  BY <1>1 DEF MapInv, MadeFrom
<1>3. Hosts(ps) = Hosts(packets)
  BY <1>2, SameEndpoints
<1>4. DOMAIN devMap = (IF demo THEN DOMAIN Preset ELSE {}) \cup Hosts(packets) \cup DOMAIN overrides
  BY <1>1, <1>3 DEF MadeFrom, BuildDeviceMap
<1>5. Hosts(packets) \subseteq Ips
  <2>1. \A i \in DOMAIN packets : packets[i].src \in Endpoint /\ packets[i].dst \in Endpoint
    <3>1. \A i \in DOMAIN packets : packets[i] \in Packet
      BY DEF ListsInv
    <3> QED
      BY <3>1 DEF Packet
  <2>2. \A e \in Endpoint : IpOf(e) \in Ips
    BY DEF Endpoint, IpOf
  <2> QED
    BY <2>1, <2>2 DEF Hosts, ToSet
<1>6. DOMAIN Preset \subseteq Ips
  BY HostAssumption DEF ToSet
<1> QED
  BY <1>4, <1>5, <1>6 DEF ListsInv

\* The packets whose protocol is switched on.
OnAt == {i \in DOMAIN packets : packets[i].proto \in showProtos}
On == Sublist(packets, OnAt)

\* What the graph draws are the packets that are on: the map knows their hosts.
LEMMA OnIsDrawn ==
    ASSUME MapInv, ListsInv, tab = "graph"
    PROVE  /\ Packets(packets) /\ OnAt \in SUBSET DOMAIN packets
           /\ Packets(On) /\ Filter(packets, LAMBDA p : p.proto \in showProtos) = On
           /\ Drawn = On /\ Hosts(On) \subseteq DOMAIN devMap
<1>1. Packets(packets) /\ OnAt \in SUBSET DOMAIN packets
  BY DEF ListsInv, Packets, OnAt
<1>2. Packets(On)
  BY <1>1, PartOfPackets DEF On
<1>3. Filter(packets, LAMBDA p : p.proto \in showProtos) = On
  BY DEF Filter, On, OnAt
<1>4. \A i \in DOMAIN packets : {IpOf(packets[i].src), IpOf(packets[i].dst)} \subseteq DOMAIN devMap
  BY MapKnowsHosts DEF Hosts, ToSet
<1>5. Drawn = On
  <2>1. Drawn = Sublist(packets, {i \in DOMAIN packets :
                                     /\ packets[i].proto \in showProtos
                                     /\ {IpOf(packets[i].src), IpOf(packets[i].dst)} \subseteq DOMAIN devMap})
    BY DEF Drawn, Shown, Filter
  <2>2. {i \in DOMAIN packets : /\ packets[i].proto \in showProtos
                                /\ {IpOf(packets[i].src), IpOf(packets[i].dst)} \subseteq DOMAIN devMap} = OnAt
    BY <1>4 DEF OnAt
  <2> QED
    BY <2>1, <2>2 DEF On
<1>6. \A k \in DOMAIN On : \E i \in DOMAIN packets : On[k] = packets[i]
  BY <1>1, PacketList, SublistKeeps DEF On
<1>7. Hosts(On) \subseteq DOMAIN devMap
  BY <1>4, <1>6 DEF Hosts, ToSet
<1> QED
  BY <1>1, <1>2, <1>3, <1>5, <1>7

\* The columns of the sequence diagram, and of the matrix, are the hosts of its packets.
LEMMA ColumnsAre ==
    ASSUME MapInv, ListsInv, tab = "graph"
    PROVE  /\ ToSet(Devices) = DOMAIN devMap /\ ToSet(Columns) = Hosts(On)
           /\ ActiveIps(NodeStats(On, devMap), Devices) = Columns
<1>1. List(Devices) /\ ToSet(Devices) = DOMAIN devMap
  BY MapKnowsHosts, DevicesAre DEF Devices
<1>2. Columns = Sublist(Devices, Kept(Devices, Hosts(On)))
  BY OnIsDrawn DEF Columns, ActiveDevices, Filter, Kept
<1>3. ToSet(Columns) = Hosts(On)
  <2>1. ToSet(Columns) = ToSet(Devices) \cap Hosts(On)
    BY <1>1, <1>2, FilterKeeps
  <2>2. Hosts(On) \subseteq DOMAIN devMap
    BY OnIsDrawn
  <2> QED
    BY <1>1, <2>1, <2>2
<1> DEFINE st == NodeStats(On, devMap)
<1>4. ActiveIps(st, Devices) = Sublist(Devices, {k \in DOMAIN Devices : Busy(st, Devices[k])})
  BY DEF ActiveIps, Filter
<1>5. \A ip \in DOMAIN devMap : Busy(st, ip) <=> ip \in Hosts(On)
  <2> TAKE ip \in DOMAIN devMap
  <2> DEFINE O == Class(DOMAIN On, Srcs(On), ip)
             I == Class(DOMAIN On, Dsts(On), ip)
  <2>1. /\ st[ip].sent = Cardinality(O) /\ st[ip].sent \in Nat
        /\ st[ip].recv = Cardinality(I) /\ st[ip].recv \in Nat
    BY OnIsDrawn, StatsAre
  <2>2. IsFiniteSet(O) /\ IsFiniteSet(I)
    <3>1. O \in SUBSET DOMAIN On /\ I \in SUBSET DOMAIN On
      BY DEF Class
    <3> QED
      BY <3>1, OnIsDrawn, PacketList, FS_Subset
  <2>3. ip \in Hosts(On) <=> O # {} \/ I # {}
    BY DEF Class, Srcs, Dsts, Hosts, ToSet
  <2> HIDE DEF O, I, st
  <2>4. Busy(st, ip) <=> ~(Cardinality(O) = 0 /\ Cardinality(I) = 0)
    BY <2>1 DEF Busy
  <2> QED
    BY <2>2, <2>3, <2>4, FS_EmptySet
<1>6. {k \in DOMAIN Devices : Busy(st, Devices[k])} = Kept(Devices, Hosts(On))
  <2>1. \A k \in DOMAIN Devices : Devices[k] \in DOMAIN devMap
    BY <1>1 DEF ToSet
  <2> HIDE DEF st
  <2> QED
    BY <1>5, <2>1 DEF Kept
<1> HIDE DEF st
<1>7. ActiveIps(st, Devices) = Columns
  BY <1>2, <1>4, <1>6
<1> QED
  BY <1>1, <1>3, <1>7 DEF st

\* With every protocol on, a host has as many packets in the dialog as in the graph.
LEMMA DialogAgrees ==
    ASSUME MapInv, ListsInv, tab = "graph", showProtos = Protos, NEW ip \in DOMAIN devMap
    PROVE  PacketCount(packets, ip) = NodeStats(On, devMap)[ip].sent + NodeStats(On, devMap)[ip].recv
<1> DEFINE V == {p \in Packet : IpOf(p.src) = ip}
           W == {p \in Packet : IpOf(p.dst) = ip}
           D == DOMAIN packets
<1>1. Packets(packets) /\ Packets(On) /\ \A i \in D : packets[i] \in Packet
  BY OnIsDrawn, PacketList
<1>2. OnAt = D
  BY <1>1 DEF OnAt, Packet
<1>3. PacketCount(packets, ip) = Len(Sublist(packets, {i \in D : IpOf(packets[i].src) = ip}))
                                   + Len(Sublist(packets, {i \in D : IpOf(packets[i].dst) = ip}))
  BY DEF PacketCount, Filter
<1>4. /\ Len(Sublist(packets, {i \in D : IpOf(packets[i].src) = ip}))
            = Cardinality({i \in D : IpOf(packets[i].src) = ip})
      /\ Len(Sublist(packets, {i \in D : IpOf(packets[i].dst) = ip}))
            = Cardinality({i \in D : IpOf(packets[i].dst) = ip})
  BY <1>1, PartOfPackets
<1>5. /\ {i \in D : IpOf(packets[i].src) = ip} = {i \in D : packets[i] \in V}
      /\ {i \in D : IpOf(packets[i].dst) = ip} = {i \in D : packets[i] \in W}
  BY <1>1
<1>6. /\ Class(DOMAIN On, Srcs(On), ip) = {k \in DOMAIN On : On[k] \in V}
      /\ Class(DOMAIN On, Dsts(On), ip) = {k \in DOMAIN On : On[k] \in W}
  <2>1. \A k \in DOMAIN On : On[k] \in Packet
    BY <1>1, PacketList
  <2> QED
    BY <2>1 DEF Class, Srcs, Dsts
<1> HIDE DEF V, W, D
<1>7. /\ Cardinality({k \in DOMAIN On : On[k] \in V}) = Cardinality({i \in D : packets[i] \in V})
      /\ Cardinality({k \in DOMAIN On : On[k] \in W}) = Cardinality({i \in D : packets[i] \in W})
  <2>1. List(packets) /\ OnAt \in SUBSET DOMAIN packets /\ On = Sublist(packets, OnAt)
    BY <1>1, <1>2, PacketList DEF On, D
  <2>2. \A U : Cardinality({k \in DOMAIN On : On[k] \in U}) = Cardinality({i \in OnAt : packets[i] \in U})
    BY <2>1, CountOfSublist
  <2> QED
    BY <1>2, <2>2
<1>8. /\ NodeStats(On, devMap)[ip].sent = Cardinality(Class(DOMAIN On, Srcs(On), ip))
      /\ NodeStats(On, devMap)[ip].recv = Cardinality(Class(DOMAIN On, Dsts(On), ip))
  BY <1>1, StatsAre
<1> QED
  BY <1>3, <1>4, <1>5, <1>6, <1>7, <1>8

\* All of ViewsAgree, in a state of which the invariants hold.
LEMMA GraphAgrees == MapInv /\ ListsInv => ViewsAgree
<1> SUFFICES ASSUME MapInv, ListsInv, tab = "graph" PROVE ViewsAgree
  BY DEF ViewsAgree
<1> DEFINE on == Filter(packets, LAMBDA p : p.proto \in showProtos)
           matrix == PairMat(Drawn)
           ips == ActiveIps(Stats, Devices)
           lane(p) == {devMap[IpOf(p.src)].group, devMap[IpOf(p.dst)].group}
           meta(g) == GroupMeta(g, Devices, devMap, DrawnEdges, Stats)
<1>0. /\ Packets(On) /\ on = On /\ Drawn = On /\ Hosts(On) \subseteq DOMAIN devMap
      /\ DrawnEdges = Edges(On) /\ Stats = NodeStats(On, devMap) /\ matrix = PairMat(On)
  BY OnIsDrawn DEF DrawnEdges, Stats
<1>1. /\ ToSet(Devices) = DOMAIN devMap /\ ToSet(Columns) = Hosts(on) /\ ips = Columns
  BY <1>0, ColumnsAre
<1>2. IsSuffix(Messages(Drawn), on) /\ Len(Messages(Drawn)) = Min({Len(on), MessageLimit})
  BY <1>0, MessagesEnd
<1>3. /\ Total(DrawnEdges, LAMBDA e : e.count) = Len(on)
      /\ Total(DrawnEdges, LAMBDA e : e.bytes) = TotalBytes(on)
  <2>1. /\ Total(Edges(On), LAMBDA e : e.count) = Len(On)
        /\ Total(Edges(On), LAMBDA e : e.bytes) = TotalBytes(On)
    BY <1>0, EdgesAddUp
  <2> QED
    BY <1>0, <2>1 DEF Total
<1>4. /\ SumFunction([ip \in DOMAIN Stats |-> Stats[ip].sent]) = Len(on)
      /\ SumFunction([ip \in DOMAIN Stats |-> Stats[ip].recv]) = Len(on)
  BY <1>0, MapKnowsHosts, NodesAddUp
<1>6. /\ SumFunction([pair \in Cells(matrix, ips) |-> matrix[pair].count])
            = Len(Filter(on, LAMBDA p : IpOf(p.src) # IpOf(p.dst)))
      /\ Lines(matrix, ips) = DOMAIN matrix
  <2> DEFINE I == {i \in DOMAIN On : Crosses(On, i)}
  <2>1. Filter(on, LAMBDA p : IpOf(p.src) # IpOf(p.dst)) = Sublist(On, I)
    BY <1>0 DEF Filter, Crosses
  <2>2. Len(Sublist(On, I)) = Cardinality(I)
    BY <1>0, PartOfPackets
  <2>3. ToSet(ips) = Hosts(On)
    BY <1>0, <1>1
  <2>4. /\ SumFunction([pair \in Cells(PairMat(On), ips) |-> PairMat(On)[pair].count]) = Cardinality(I)
        /\ Lines(PairMat(On), ips) = DOMAIN PairMat(On)
    BY <1>0, <2>3, CellsAddUp
  <2> HIDE DEF I, on, ips
  <2> QED
    BY <1>0, <2>1, <2>2, <2>4
<1>7. ASSUME NEW g \in Groups PROVE meta(g).packets = Len(Filter(on, LAMBDA p : g \in lane(p)))
  <2> DEFINE I == {i \in DOMAIN On : Touches(On, devMap, g, i)}
  <2>1. Filter(on, LAMBDA p : g \in lane(p)) = Sublist(On, I)
    BY <1>0 DEF Filter, Touches
  <2>2. Len(Sublist(On, I)) = Cardinality(I)
    BY <1>0, PartOfPackets
  <2>3. GroupMeta(g, Devices, devMap, Edges(On), Stats).packets = Cardinality(I)
    BY <1>0, LanesAddUp
  <2> HIDE DEF I, on, lane
  <2> QED
    BY <1>0, <2>1, <2>2, <2>3
<1>8. ASSUME NEW ip \in ToSet(Devices), showProtos = Protos
      PROVE  PacketCount(packets, ip) = Stats[ip].sent + Stats[ip].recv
  BY <1>0, <1>1, <1>8, DialogAgrees
<1> QED
  BY <1>1, <1>2, <1>3, <1>4, <1>6, <1>7, <1>8 DEF ViewsAgree

\* For any traffic, presets, edits and chips, the sequence diagram, the topology, the
\* matrix, the lane heads and the hosts dialog of graph.jsx count the same packets.
THEOREM AllViewsAgree == Spec => []ViewsAgree
<1>1. MapInv /\ LabelsInv /\ ListsInv /\ [Next]_vars => (MapInv /\ LabelsInv /\ ListsInv)'
  BY ViewsStep, ListsStep
<1>2. Init => MapInv /\ LabelsInv /\ ListsInv
  BY ViewsInit, ListsInit
<1> QED
  BY <1>1, <1>2, GraphAgrees, PTL DEF Spec

---------------------------------------------------------------------------
(* StatsAreQuantiles *)

\* A list of latencies or sizes, and the positions of those below x and up to x.
Samples(s) == List(s) /\ \A i \in DOMAIN s : s[i] \in Nat

\* How many samples are less than x, and how many are at most x.
BelowAt(s, x) == {i \in DOMAIN s : s[i] < x}
UpToAt(s, x) == {i \in DOMAIN s : s[i] <= x}

\* Sorted, samples are in another order, in which they rise.
LEMMA AscendingRises ==
    ASSUME NEW s, Samples(s)
    PROVE  \E at : Rises(Ascending(s), s, s, at)
<1>1. Ascending(s) = Arranged(s, ByNumber(DOMAIN s, s))
  BY DEF Ascending, Sorted, Arranged, ByNumber
<1>2. \A i \in DOMAIN s : s[i] \in Int
  BY DEF Samples
<1> QED
  BY <1>1, <1>2, ArrangedRises DEF Samples

\* The k-th of the sorted samples has fewer than k samples below it, and k up to it.
LEMMA RankOfSample ==
    ASSUME NEW s, Samples(s), NEW k \in DOMAIN s
    PROVE  LET x == Ascending(s)[k]
           IN  /\ x \in Nat
               /\ Cardinality(BelowAt(s, x)) \in Nat /\ Cardinality(UpToAt(s, x)) \in Nat
               /\ Cardinality(BelowAt(s, x)) < k /\ k <= Cardinality(UpToAt(s, x))
<1> DEFINE a == Ascending(s)
           x == a[k]
           D == DOMAIN s
           B == BelowAt(s, x)
           U == UpToAt(s, x)
<1>1. PICK at : Rises(a, s, s, at)
  BY AscendingRises
<1>2. D = 1..Len(s) /\ Len(s) \in Nat /\ IsFiniteSet(D) /\ k \in D
  BY ListBounds DEF Samples
<1>3. /\ \A j \in D : at[j] \in D /\ a[j] = s[at[j]]
      /\ \A i \in D : \E j \in D : at[j] = i
      /\ \A i, j \in D : at[i] = at[j] => i = j
      /\ \A i, j \in D : i <= j => s[at[i]] <= s[at[j]]
  BY <1>1 DEF Rises
<1> HIDE DEF a
<1>4. \A i \in D : s[i] \in Nat
  BY DEF Samples
<1>5. x \in Nat
  BY <1>2, <1>3, <1>4
<1> HIDE DEF D
<1>6. B \in SUBSET D /\ U \in SUBSET D
  BY DEF BelowAt, UpToAt, D
<1>7. IsFiniteSet(B) /\ Cardinality(B) \in Nat /\ IsFiniteSet(U) /\ Cardinality(U) \in Nat
  BY <1>2, <1>6, FS_Subset, FS_CardinalityType
<1> DEFINE P == {j \in D : at[j] \in B}
           Q == {j \in D : at[j] \in U}
<1>8. P \in SUBSET (1..k - 1) /\ (1..k) \in SUBSET Q
  <2>1. ASSUME NEW j \in P PROVE j \in 1..k - 1
    <3>1. j \in D /\ s[at[j]] < s[at[k]]
      BY <1>2, <1>3 DEF BelowAt
    <3>2. ~(k <= j)
      <4>1. s[at[j]] \in Nat /\ s[at[k]] \in Nat
        BY <1>2, <1>3, <1>4, <3>1
      <4>2. k <= j => s[at[k]] <= s[at[j]]
        BY <1>2, <1>3, <3>1
      <4>3. ~(s[at[k]] <= s[at[j]])
        BY <3>1, <4>1
      <4> QED
        BY <4>2, <4>3
    <3> QED
      BY <1>2, <3>1, <3>2
  <2>2. ASSUME NEW j \in 1..k PROVE j \in Q
    <3>1. j \in D /\ j <= k
      BY <1>2
    <3>2. s[at[j]] <= s[at[k]] /\ at[j] \in D /\ s[at[k]] = x
      BY <1>2, <1>3, <3>1
    <3> QED
      BY <3>1, <3>2 DEF UpToAt, D
  <2> QED
    BY <2>1, <2>2
<1>9. ASSUME NEW C \in SUBSET D, NEW R, R = {j \in D : at[j] \in C}
      PROVE  Cardinality(R) = Cardinality(C) /\ IsFiniteSet(R)
  <2>1. IsFiniteSet(R) /\ IsFiniteSet(C)
    BY <1>2, <1>9, FS_Subset
  <2>2. \A j \in R : at[j] \in C /\ Ones(C)[at[j]] = Ones(R)[j]
    BY <1>9 DEF Ones
  <2>3. /\ \A i \in C : \E j \in R : at[j] = i
        /\ \A i, j \in R : at[i] = at[j] => i = j
    BY <1>3, <1>9
  <2>4. \A i \in C : Ones(C)[i] \in Nat
    BY DEF Ones
  <2>5. SumFunctionOnSet(Ones(R), R) = SumFunctionOnSet(Ones(C), C)
    BY <2>1, <2>2, <2>3, <2>4, SumOnto
  <2> QED
    BY <2>1, <2>5, CountIsSum
<1>10. /\ Cardinality(P) = Cardinality(B) /\ Cardinality(Q) = Cardinality(U) /\ IsFiniteSet(Q)
  BY <1>6, <1>9
<1>11. /\ IsFiniteSet(1..k - 1) /\ Cardinality(1..k - 1) = k - 1 /\ k \in Nat
       /\ IsFiniteSet(1..k) /\ Cardinality(1..k) = k
  <2>1. \A m \in Nat : IsFiniteSet(1..m) /\ Cardinality(1..m) = m
    BY FS_Interval
  <2>2. k \in Nat /\ k - 1 \in Nat
    BY <1>2
  <2> QED
    BY <2>1, <2>2
<1> HIDE DEF P, Q, B, U
<1>12. Cardinality(P) <= k - 1 /\ k <= Cardinality(Q)
  <2>1. Cardinality(P) <= Cardinality(1..k - 1)
    BY <1>8, <1>11, FS_Subset
  <2>2. Cardinality(1..k) <= Cardinality(Q)
    BY <1>8, <1>10, FS_Subset
  <2> QED
    BY <1>11, <2>1, <2>2
<1>13. Cardinality(B) < k /\ k <= Cardinality(U)
  BY <1>7, <1>10, <1>11, <1>12
<1> QED
  BY <1>5, <1>7, <1>13 DEF a, B, U

\* x has at most its share of the samples below it and at least its share up to it.
IsQuantile(s, x, percent) ==
    /\ 100 * Cardinality(BelowAt(s, x)) <= percent * Len(s)
    /\ 100 * Cardinality(UpToAt(s, x)) >= percent * Len(s)

\* What pick(p) of perf.jsx returns is a p-quantile.
LEMMA PicksQuantile ==
    ASSUME NEW s, Samples(s), s # <<>>, NEW percent \in 0..99
    PROVE  IsQuantile(s, Pick(Ascending(s), percent), percent)
<1> DEFINE a == Ascending(s)
           n == Len(s)
           r == (n * percent) \div 100
           x == a[r + 1]
           b == Cardinality(BelowAt(s, x))
           u == Cardinality(UpToAt(s, x))
<1>1. n \in Nat /\ DOMAIN s = 1..n /\ n > 0
  BY ListBounds DEF Samples, List
<1>2. Len(a) = n
  BY AscendingRises DEF Rises
<1>3. n * percent \in Nat /\ n * percent < n * 100 /\ n * percent = percent * n
  BY <1>1
<1>4. r \in Nat /\ 100 * r <= n * percent /\ n * percent < 100 * (r + 1) /\ r < n
  <2> DEFINE m == n * percent
  <2> HIDE DEF m, n
  <2>1. m \in Nat /\ m < n * 100 /\ r = m \div 100
    BY <1>3 DEF m
  <2> HIDE DEF r
  <2>2. r \in Nat /\ 100 * r <= m /\ m < 100 * (r + 1)
    BY <2>1
  <2>3. r < n
    BY <1>1, <2>1, <2>2
  <2> QED
    BY <2>2, <2>3 DEF m
<1> HIDE DEF r
<1>5. Pick(a, percent) = x
  <2>1. Pick(a, percent) = a[1 + (IF r < n - 1 THEN r ELSE n - 1)]
    BY <1>2 DEF Pick, r
  <2> HIDE DEF a, n
  <2>2. 1 + (IF r < n - 1 THEN r ELSE n - 1) = r + 1
    BY <1>1, <1>4
  <2> QED
    BY <2>1, <2>2
<1>6. r + 1 \in DOMAIN s
  BY <1>1, <1>4
<1>7. b \in Nat /\ u \in Nat /\ b < r + 1 /\ r + 1 <= u
  BY <1>6, RankOfSample
<1> HIDE DEF a, b, u
<1>8. 100 * b <= percent * n /\ 100 * u >= percent * n
  <2> DEFINE m == percent * n
  <2>1. m \in Nat /\ 100 * r <= m /\ m < 100 * (r + 1)
    BY <1>3, <1>4
  <2> HIDE DEF m
  <2> QED
    BY <1>4, <1>7, <2>1 DEF m
<1> QED
  BY <1>5, <1>8 DEF IsQuantile, a, b, u

\* The mean, rounded down, lies between the least and the greatest sample.
LEMMA MeanBetween ==
    ASSUME NEW s, Samples(s), s # <<>>
    PROVE  LET a == Ascending(s) IN Total(a, LAMBDA x : x) \div Len(a) \in a[1]..a[Len(a)]
<1> DEFINE a == Ascending(s)
           n == Len(s)
           lo == a[1]
           hi == a[n]
           F == [k \in DOMAIN a |-> a[k]]
           S == SumFunctionOnSet(F, DOMAIN s)
<1>1. PICK at : Rises(a, s, s, at)
  BY AscendingRises
<1>2. n \in Nat /\ DOMAIN s = 1..n /\ n > 0 /\ IsFiniteSet(DOMAIN s) /\ Cardinality(DOMAIN s) = n
  BY ListBounds DEF Samples, List
<1>3. Len(a) = n /\ DOMAIN a = DOMAIN s
  BY <1>1 DEF Rises
<1>4. \A k \in DOMAIN s : a[k] \in Nat
  BY <1>1 DEF Rises, Samples
<1>5. \A k \in DOMAIN s : lo <= a[k] /\ a[k] <= hi
  <2>1. \A j, k \in DOMAIN s : j <= k => a[j] <= a[k]
    BY <1>1 DEF Rises
  <2>2. 1 \in DOMAIN s /\ n \in DOMAIN s /\ \A k \in DOMAIN s : 1 <= k /\ k <= n
    BY <1>2
  <2> QED
    BY <2>1, <2>2
<1>6. Total(a, LAMBDA x : x) = S
  BY <1>3 DEF Total, SumFunction
<1> HIDE DEF a
<1>7. lo \in Nat /\ hi \in Nat
  BY <1>2, <1>4
<1>8. \A k \in DOMAIN s : F[k] \in lo..hi /\ F[k] \in Nat
  BY <1>3, <1>4, <1>5, <1>7
<1> HIDE DEF F
<1>9. lo * n <= S /\ S <= hi * n /\ S \in Nat
  BY <1>2, <1>7, <1>8, SumBetween, SumIsNat
<1> HIDE DEF S, lo, hi, n
<1>10. S \div n \in lo..hi
  <2> DEFINE q == S \div n
  <2>1. q \in Nat /\ q * n <= S /\ S < (q + 1) * n
    BY <1>2, <1>9
  <2> HIDE DEF q
  <2>2. \A i, j \in Nat : i <= j => i * n <= j * n
    BY <1>2
  <2>3. ~(q + 1 <= lo)
    <3>1. q + 1 <= lo => (q + 1) * n <= lo * n
      BY <1>7, <2>1, <2>2
    <3>2. (q + 1) * n \in Nat /\ lo * n \in Nat
      BY <1>2, <1>7, <2>1
    <3> QED
      BY <1>9, <2>1, <3>1, <3>2
  <2>4. ~(hi + 1 <= q)
    <3>1. hi + 1 <= q => (hi + 1) * n <= q * n
      BY <1>7, <2>1, <2>2
    <3>2. (hi + 1) * n = hi * n + n /\ hi * n \in Nat /\ q * n \in Nat
      BY <1>2, <1>7, <2>1
    <3> QED
      BY <1>2, <1>9, <2>1, <3>1, <3>2
  <2>5. q \in lo..hi
    BY <1>7, <2>1, <2>3, <2>4
  <2> QED
    BY <2>5 DEF q
<1> QED
  BY <1>3, <1>6, <1>10 DEF a, lo, hi, n

\* A CDF is made of ranks of the sorted samples, which go up to the last.
RanksUp(cdf, s) ==
    /\ \A k \in DOMAIN cdf : /\ cdf[k][2] \in DOMAIN s
                             /\ cdf[k] = <<Ascending(s)[cdf[k][2]], cdf[k][2]>>
    /\ \A k \in 2..Len(cdf) : cdf[k - 1][2] < cdf[k][2]
    /\ Last(cdf) = <<Ascending(s)[Len(s)], Len(s)>>

\* However it was thinned, a CDF rises through ranks of its samples up to the last.
LEMMA CdfRanks ==
    ASSUME NEW s, Samples(s), s # <<>>
    PROVE  RanksUp(Cdf(s), s)
<1> DEFINE a == Ascending(s)
           n == Len(s)
           step == IF n < CdfPoints THEN 1 ELSE n \div CdfPoints
           m == 1 + (n - 1) \div step
           rank(k) == 1 + (k - 1) * step
           points == [k \in 1..m |-> <<a[rank(k)], rank(k)>>]
           cdf == Cdf(s)
<1>1. n \in Nat /\ DOMAIN s = 1..n /\ n > 0
  BY ListBounds DEF Samples, List
<1>2. Len(a) = n /\ a # <<>>
  BY <1>1, AscendingRises DEF Rises
<1>3. step \in Nat /\ step > 0
  <2>1. CdfPoints \in Nat /\ CdfPoints > 0
    BY AnalysisAssumption
  <2>2. n >= CdfPoints => n \div CdfPoints \in Nat /\ n \div CdfPoints > 0
    BY <1>1, <2>1
  <2> QED
    BY <1>1, <2>1, <2>2
<1>4. cdf = CdfEnd(points, a)
  <2> HIDE DEF a
  <2>1. cdf = LET p == [k \in 1..1 + (Len(a) - 1) \div (IF Len(a) < CdfPoints THEN 1 ELSE Len(a) \div CdfPoints) |->
                          <<a[1 + (k - 1) * (IF Len(a) < CdfPoints THEN 1 ELSE Len(a) \div CdfPoints)],
                            1 + (k - 1) * (IF Len(a) < CdfPoints THEN 1 ELSE Len(a) \div CdfPoints)>>]
              IN  CdfEnd(p, a)
    BY <1>2 DEF Cdf, a
  <2> QED
    BY <1>2, <2>1
<1> HIDE DEF step, a
<1>5. m \in Nat /\ m >= 1 /\ (m - 1) * step <= n - 1
  <2> DEFINE d == n - 1
  <2>1. d \in Nat
    BY <1>1
  <2> HIDE DEF d
  <2>2. d \div step \in Nat /\ (d \div step) * step <= d
    BY <1>3, <2>1
  <2> DEFINE e == d \div step
  <2>3. m = 1 + e
    BY DEF d
  <2> HIDE DEF e, m
  <2>4. e \in Nat /\ m - 1 = e
    BY <2>2, <2>3 DEF e
  <2>5. e * step <= d
    BY <2>2 DEF e
  <2>6. (m - 1) * step <= d
    BY <2>4, <2>5, Zenon
  <2>7. m \in Nat /\ m >= 1
    BY <2>3, <2>4
  <2> QED
    BY <2>6, <2>7, Zenon DEF d
<1> HIDE DEF m
<1>6. \A k \in 1..m : rank(k) \in 1..n
  <2> TAKE k \in 1..m
  <2>1. k - 1 \in Nat /\ m - 1 \in Nat /\ k - 1 <= m - 1
    BY <1>5
  <2>2. \A i, j \in Nat : i <= j => i * step <= j * step /\ i * step \in Nat /\ j * step \in Nat
    BY <1>3
  <2>3. (k - 1) * step <= (m - 1) * step /\ (k - 1) * step \in Nat /\ (m - 1) * step \in Nat
    BY <2>1, <2>2
  <2> DEFINE x == (k - 1) * step
             y == (m - 1) * step
  <2>4. x \in Nat /\ y \in Nat /\ x <= y /\ y <= n - 1
    BY <1>5, <2>3
  <2> HIDE DEF x, y
  <2>5. 1 + x \in 1..n
    BY <1>1, <2>4
  <2> QED
    BY <2>5 DEF x
<1>7. \A k \in 2..m : rank(k - 1) < rank(k)
  <2> TAKE k \in 2..m
  <2>1. k - 2 \in Nat
    OBVIOUS
  <2>2. \A i \in Nat : (i + 1) * step = i * step + step /\ i * step \in Nat
    BY <1>3
  <2>3. (k - 2) + 1 = k - 1
    OBVIOUS
  <2>4. (k - 1) * step = (k - 2) * step + step /\ (k - 2) * step \in Nat
    BY <2>1, <2>2, <2>3, Zenon
  <2> DEFINE x == (k - 1) * step
             y == (k - 2) * step
  <2>5. x = y + step /\ y \in Nat
    BY <2>4
  <2>6. (k - 1) - 1 = k - 2
    OBVIOUS
  <2>7. rank(k - 1) = 1 + y /\ rank(k) = 1 + x
    BY <2>6
  <2> HIDE DEF x, y, rank
  <2> QED
    BY <1>3, <2>5, <2>7
<1>8. /\ points \in Seq({points[k] : k \in 1..m}) /\ Len(points) = m /\ DOMAIN points = 1..m
      /\ \A k \in 1..m : points[k] = <<a[rank(k)], rank(k)>> /\ points[k][2] = rank(k)
  <2> HIDE DEF rank
  <2>1. \A k \in 1..m : points[k] = <<a[rank(k)], rank(k)>> /\ points[k][2] = rank(k)
    OBVIOUS
  <2>2. points = [k \in 1..m |-> points[k]]
    OBVIOUS
  <2> HIDE DEF points
  <2>3. points \in Seq({points[k] : k \in 1..m})
    BY <1>5, <2>2
  <2> QED
    BY <1>5, <2>1, <2>2, <2>3, ListMade
<1> HIDE DEF points, rank
<1>9. Last(points) = <<a[rank(m)], rank(m)>> /\ Last(points)[2] = rank(m)
  BY <1>5, <1>8 DEF Last
<1>10. CASE rank(m) < n
  <2> DEFINE end == <<a[n], n>>
  <2>1. cdf = Append(points, end)
    BY <1>2, <1>4, <1>9, <1>10 DEF CdfEnd, Last
  <2>2. /\ Len(cdf) = m + 1 /\ DOMAIN cdf = 1..m + 1
        /\ \A k \in 1..m : cdf[k] = points[k]
        /\ cdf[m + 1] = end
    BY <1>5, <1>8, <2>1
  <2> HIDE DEF cdf
  <2>3. \A k \in 1..m + 1 : cdf[k][2] \in DOMAIN s /\ cdf[k] = <<a[cdf[k][2]], cdf[k][2]>>
    <3> TAKE k \in 1..m + 1
    <3>1. CASE k = m + 1
      BY <1>1, <2>2, <3>1
    <3>2. CASE k # m + 1
      <4>1. k \in 1..m
        BY <1>5, <3>2
      <4> QED
        BY <1>1, <1>6, <1>8, <2>2, <4>1
    <3> QED
      BY <3>1, <3>2
  <2>4. \A k \in 2..m + 1 : cdf[k - 1][2] < cdf[k][2]
    <3> TAKE k \in 2..m + 1
    <3>1. k - 1 \in 1..m
      BY <1>5
    <3>2. CASE k = m + 1
      <4>1. k - 1 = m
        BY <1>5, <3>2
      <4> QED
        BY <1>5, <1>8, <1>10, <2>2, <3>2, <4>1
    <3>3. CASE k # m + 1
      <4>1. k \in 2..m /\ k \in 1..m
        BY <1>5, <3>3
      <4> QED
        BY <1>7, <1>8, <2>2, <3>1, <4>1
    <3> QED
      BY <3>2, <3>3
  <2>5. Last(cdf) = end
    BY <1>5, <2>2 DEF Last
  <2> QED
    BY <2>2, <2>3, <2>4, <2>5 DEF RanksUp, cdf, a
<1>11. CASE ~(rank(m) < n)
  <2>1. cdf = points
    BY <1>2, <1>4, <1>9, <1>11 DEF CdfEnd
  <2>2. rank(m) = n
    BY <1>1, <1>5, <1>6, <1>11
  <2> HIDE DEF cdf
  <2>3. \A k \in 1..m : cdf[k][2] \in DOMAIN s /\ cdf[k] = <<a[cdf[k][2]], cdf[k][2]>>
    BY <1>1, <1>6, <1>8, <2>1
  <2>4. \A k \in 2..m : cdf[k - 1][2] < cdf[k][2]
    <3> TAKE k \in 2..m
    <3>1. k - 1 \in 1..m /\ k \in 1..m
      BY <1>5
    <3> QED
      BY <1>7, <1>8, <2>1, <3>1
  <2> QED
    BY <1>8, <1>9, <2>1, <2>2, <2>3, <2>4 DEF RanksUp, cdf, a
<1> QED
  BY <1>10, <1>11

\* A protocol with a row of statistics has packets.
LEMMA OfIsPart ==
    ASSUME ListsInv, NEW proto \in {p.proto : p \in ToSet(packets)}
    PROVE  LET ps == Of(packets, proto)
           IN  /\ Packets(ps) /\ ps # <<>>
               /\ Samples(Latencies(ps)) /\ Latencies(ps) # <<>> /\ Len(Latencies(ps)) = Len(ps)
<1> DEFINE I == {i \in DOMAIN packets : packets[i].proto = proto}
           ps == Of(packets, proto)
           s == Latencies(ps)
<1>1. Packets(packets) /\ I \in SUBSET DOMAIN packets
  BY DEF ListsInv, Packets
<1>2. ps = Sublist(packets, I)
  BY DEF Of, Filter
<1>3. Packets(ps) /\ Len(ps) = Cardinality(I)
  BY <1>1, <1>2, PartOfPackets
<1>4. I # {} /\ IsFiniteSet(I)
  <2>1. PICK i \in DOMAIN packets : packets[i].proto = proto
    BY DEF ToSet
  <2> QED
    BY <1>1, <2>1, PacketList, FS_Subset
<1>5. Len(ps) # 0
  BY <1>3, <1>4, FS_EmptySet
<1> HIDE DEF ps
<1>6. Len(ps) \in Nat /\ DOMAIN ps = 1..Len(ps) /\ \A i \in DOMAIN ps : ps[i].latency \in Nat
  <2>1. \A i \in DOMAIN ps : ps[i] \in Packet
    BY <1>3, PacketList
  <2>2. \A i \in DOMAIN ps : ps[i].latency \in Nat
    BY <2>1 DEF Packet
  <2> QED
    BY <1>3, <2>2, PacketList
<1>7. s = [i \in 1..Len(ps) |-> s[i]] /\ \A i \in 1..Len(ps) : s[i] \in Nat
  BY <1>6 DEF Latencies
<1> HIDE DEF s
<1>8. List(s) /\ Len(s) = Len(ps) /\ DOMAIN s = 1..Len(ps)
  BY <1>6, <1>7, ListMade
<1>9. s # <<>> /\ ps # <<>>
  BY <1>5, <1>8
<1> QED
  BY <1>3, <1>7, <1>8, <1>9 DEF Samples, ps, s

\* All of StatsAreQuantiles, in a state of which the invariant holds.
LEMMA StatsHold == ListsInv => StatsAreQuantiles
<1> SUFFICES ASSUME ListsInv PROVE StatsAreQuantiles
  OBVIOUS
<1> SUFFICES ASSUME NEW proto \in DOMAIN PerProto(packets)
             PROVE  LET s == Latencies(Of(packets, proto))
                        row == PerProto(packets)[proto]
                        below(x) == Len(Filter(s, LAMBDA v : v < x))
                        upTo(x) == Len(Filter(s, LAMBDA v : v <= x))
                        isQuantile(x, percent) == /\ 100 * below(x) <= percent * Len(s)
                                                  /\ 100 * upTo(x) >= percent * Len(s)
                    IN  /\ isQuantile(row.latency.p50, 50) /\ isQuantile(row.latency.p90, 90)
                        /\ isQuantile(row.latency.p95, 95) /\ isQuantile(row.latency.p99, 99)
                        /\ row.latency.mean \in row.latency.min..row.latency.max
                        /\ \A pt \in ToSet(row.cdf) : below(pt[1]) < pt[2] /\ pt[2] <= upTo(pt[1])
                        /\ \A k \in 2..Len(row.cdf) : row.cdf[k - 1][2] < row.cdf[k][2]
                        /\ Last(row.cdf) = <<row.latency.max, Len(s)>>
  BY DEF StatsAreQuantiles
<1> DEFINE s == Latencies(Of(packets, proto))
           row == PerProto(packets)[proto]
           below(x) == Len(Filter(s, LAMBDA v : v < x))
           upTo(x) == Len(Filter(s, LAMBDA v : v <= x))
           a == Ascending(s)
<1>1. proto \in {p.proto : p \in ToSet(packets)} /\ row.latency = Summary(s) /\ row.cdf = Cdf(s)
  BY DEF PerProto
<1>2. Samples(s) /\ s # <<>>
  BY <1>1, OfIsPart
<1> HIDE DEF s, row
<1>3. Len(a) = Len(s)
  BY <1>2, AscendingRises DEF Rises
<1>4. /\ row.latency.p50 = Pick(a, 50) /\ row.latency.p90 = Pick(a, 90)
      /\ row.latency.p95 = Pick(a, 95) /\ row.latency.p99 = Pick(a, 99)
      /\ row.latency.min = a[1] /\ row.latency.max = a[Len(a)]
      /\ row.latency.mean = Total(a, LAMBDA x : x) \div Len(a)
  <2> DEFINE n == Len(a)
             mean == Total(a, LAMBDA x : x) \div n
             dev == IntSqrt(Total(a, LAMBDA x : (x - mean) * (x - mean)) \div n)
  <2>1. row.latency = [n |-> n, min |-> a[1], max |-> a[n], mean |-> mean, stddev |-> dev,
                       p50 |-> Pick(a, 50), p90 |-> Pick(a, 90), p95 |-> Pick(a, 95), p99 |-> Pick(a, 99)]
    BY <1>1, <1>2, Zenon DEF Summary
  <2> HIDE DEF mean, dev
  <2>2. row.latency.mean = mean
    BY <2>1
  <2> QED
    BY <2>1, <2>2 DEF mean
<1>5. \A x : below(x) = Cardinality(BelowAt(s, x)) /\ upTo(x) = Cardinality(UpToAt(s, x))
  <2> TAKE x
  <2>1. BelowAt(s, x) \in SUBSET DOMAIN s /\ UpToAt(s, x) \in SUBSET DOMAIN s
    BY DEF BelowAt, UpToAt
  <2>2. /\ Filter(s, LAMBDA v : v < x) = Sublist(s, BelowAt(s, x))
        /\ Filter(s, LAMBDA v : v <= x) = Sublist(s, UpToAt(s, x))
    BY DEF Filter, BelowAt, UpToAt
  <2>3. /\ Len(Sublist(s, BelowAt(s, x))) = Cardinality(BelowAt(s, x))
        /\ Len(Sublist(s, UpToAt(s, x))) = Cardinality(UpToAt(s, x))
    BY <1>2, <2>1, SublistKeeps DEF Samples
  <2> QED
    BY <2>2, <2>3
<1>6. /\ IsQuantile(s, row.latency.p50, 50) /\ IsQuantile(s, row.latency.p90, 90)
      /\ IsQuantile(s, row.latency.p95, 95) /\ IsQuantile(s, row.latency.p99, 99)
  BY <1>2, <1>4, PicksQuantile
<1>7. row.latency.mean \in row.latency.min..row.latency.max
  BY <1>2, <1>4, MeanBetween
<1>8. RanksUp(row.cdf, s)
  BY <1>1, <1>2, CdfRanks
<1> HIDE DEF below, upTo
<1>9. \A pt \in ToSet(row.cdf) : below(pt[1]) < pt[2] /\ pt[2] <= upTo(pt[1])
  <2> TAKE pt \in ToSet(row.cdf)
  <2>1. pt[2] \in DOMAIN s /\ pt[1] = a[pt[2]]
    <3>1. PICK k \in DOMAIN row.cdf : pt = row.cdf[k]
      BY DEF ToSet
    <3> QED
      BY <1>8, <3>1 DEF RanksUp
  <2> QED
    BY <1>2, <1>5, <2>1, RankOfSample
<1>10. \A k \in 2..Len(row.cdf) : row.cdf[k - 1][2] < row.cdf[k][2]
  BY <1>8 DEF RanksUp
<1>11. Last(row.cdf) = <<row.latency.max, Len(s)>>
  BY <1>3, <1>4, <1>8 DEF RanksUp
<1> QED
  BY <1>5, <1>6, <1>7, <1>9, <1>10, <1>11 DEF IsQuantile, s, row, below, upTo

\* For any traffic, the statistics synthFromPackets makes of it in demo mode are quantiles,
\* means and distributions of its latencies.
THEOREM Quantiles == Spec => []StatsAreQuantiles
<1> QED
  BY StatsHold, ListsInit, ListsStep, PTL DEF Spec

---------------------------------------------------------------------------
(* FlowsAddUp *)

\* A sum over some of a list is the same wherever they are moved.
LEMMA SumOfMoved ==
    ASSUME NEW l, NEW s, List(s), NEW c, NEW at, Rises(l, s, c, at),
           NEW K \in SUBSET DOMAIN s, NEW J, J = {k \in DOMAIN s : at[k] \in K},
           NEW f, \A k \in K : f[k] \in Nat, NEW F, \A k \in J : F[k] = f[at[k]]
    PROVE  SumFunctionOnSet(F, J) = SumFunctionOnSet(f, K)
<1>1. IsFiniteSet(J) /\ IsFiniteSet(K)
  <2>1. J \in SUBSET DOMAIN s
    OBVIOUS
  <2> QED
    BY <2>1, ListBounds, FS_Subset
<1>2. \A k \in J : at[k] \in K
  OBVIOUS
<1>3. /\ \A i \in K : \E k \in J : at[k] = i
      /\ \A j, k \in J : at[j] = at[k] => j = k
  BY DEF Rises
<1> QED
  BY <1>1, <1>2, <1>3, SumOnto

\* The flow of each packet, and the packets of the k-th flow.
FlowKeys(l) == [i \in DOMAIN l |-> FlowKey(l[i])]
FlowClass(l, k) == Class(DOMAIN FlowKeys(l), FlowKeys(l), Distinct(FlowKeys(l))[k])

\* Every packet has a flow.
LEMMA KeysList ==
    ASSUME NEW l, Packets(l)
    PROVE  List(FlowKeys(l)) /\ DOMAIN FlowKeys(l) = DOMAIN l
<1>1. Len(l) \in Nat /\ DOMAIN l = 1..Len(l)
  BY PacketList
<1>2. FlowKeys(l) = [i \in 1..Len(l) |-> FlowKeys(l)[i]] /\ DOMAIN FlowKeys(l) = DOMAIN l
  BY <1>1 DEF FlowKeys
<1> QED
  BY <1>1, <1>2, ListMade

\* A summary tells how many samples it is of.
LEMMA SummaryCounts ==
    ASSUME NEW s, Samples(s)
    PROVE  Summary(s).n = Len(s) /\ (s # <<>> => Summary(s).p99 \in Nat)
<1>1. CASE s = <<>>
  BY <1>1 DEF Summary, EmptyStats
<1>2. CASE s # <<>>
  <2> DEFINE a == Ascending(s)
             n == Len(a)
             mean == Total(a, LAMBDA x : x) \div n
             dev == IntSqrt(Total(a, LAMBDA x : (x - mean) * (x - mean)) \div n)
  <2>1. Summary(s) = [n |-> n, min |-> a[1], max |-> a[n], mean |-> mean, stddev |-> dev,
                      p50 |-> Pick(a, 50), p90 |-> Pick(a, 90), p95 |-> Pick(a, 95), p99 |-> Pick(a, 99)]
    BY <1>2, Zenon DEF Summary
  <2> HIDE DEF mean, dev
  <2>2. Summary(s).n = n /\ Summary(s).p99 = Pick(a, 99)
    BY <2>1
  <2>3. n = Len(s) /\ Len(s) \in Nat /\ DOMAIN s = 1..Len(s) /\ Len(s) > 0
    BY <1>2, AscendingRises, ListBounds DEF Rises, Samples, List
  <2>4. Pick(a, 99) \in Nat
    <3> DEFINE r == (n * 99) \div 100
               k == 1 + (IF r < n - 1 THEN r ELSE n - 1)
    <3>1. Pick(a, 99) = a[k]
      BY DEF Pick
    <3> HIDE DEF a, n
    <3>2. r \in Nat
      BY <2>3
    <3> HIDE DEF r
    <3>3. k \in DOMAIN s
      BY <2>3, <3>2
    <3> QED
      BY <3>1, <3>3, RankOfSample DEF a
  <2> QED
    BY <2>2, <2>3, <2>4
<1> QED
  BY <1>1, <1>2

\* A list of packets has as many latencies, and sizes, and they are samples.
LEMMA PacketSamples ==
    ASSUME NEW l, Packets(l)
    PROVE  /\ Samples(Latencies(l)) /\ Len(Latencies(l)) = Len(l) /\ Samples(Sizes(l)) /\ Len(Sizes(l)) = Len(l)
           /\ (l # <<>> => Latencies(l) # <<>>)
<1>1. Len(l) \in Nat /\ DOMAIN l = 1..Len(l) /\ \A i \in DOMAIN l : l[i] \in Packet
  BY PacketList
<1>2. \A i \in DOMAIN l : l[i].latency \in Nat /\ l[i].size \in Nat
  BY <1>1 DEF Packet
<1> DEFINE s == Latencies(l)
           t == Sizes(l)
<1>3. s = [i \in 1..Len(l) |-> s[i]] /\ \A i \in 1..Len(l) : s[i] \in Nat
  BY <1>1, <1>2 DEF Latencies
<1>4. t = [i \in 1..Len(l) |-> t[i]] /\ \A i \in 1..Len(l) : t[i] \in Nat
  BY <1>1, <1>2 DEF Sizes
<1> HIDE DEF s, t
<1>5. /\ List(s) /\ Len(s) = Len(l) /\ DOMAIN s = 1..Len(l)
      /\ List(t) /\ Len(t) = Len(l) /\ DOMAIN t = 1..Len(l)
  BY <1>1, <1>3, <1>4, ListMade
<1>6. l # <<>> => s # <<>>
  <2>1. l # <<>> => Len(l) # 0
    BY DEF Packets
  <2> QED
    BY <1>5, <2>1
<1> QED
  BY <1>3, <1>4, <1>5, <1>6 DEF Samples, s, t

\* A row of the flow table counts, and adds up, the packets of its flow.
LEMMA FlowsAre ==
    ASSUME NEW l, Packets(l)
    PROVE  LET ds == Distinct(FlowKeys(l))
               pf == PerFlow(l)
           IN  /\ List(pf) /\ DOMAIN pf = DOMAIN ds
               /\ \A k \in DOMAIN ds :
                     /\ pf[k].src = ds[k][1] /\ pf[k].dst = ds[k][2]
                     /\ pf[k].packets = SumFunctionOnSet(Ones(DOMAIN l), FlowClass(l, k))
                     /\ pf[k].latency.n = SumFunctionOnSet(Ones(DOMAIN l), FlowClass(l, k))
                     /\ pf[k].bytes = SumFunctionOnSet(Sizes(l), FlowClass(l, k))
                     /\ \A key \in {"packets", "p99", "last"} : Column(pf[k], key) \in Nat
<1> DEFINE ds == Distinct(FlowKeys(l))
           pf == PerFlow(l)
           part(k) == Filter(l, LAMBDA p : FlowKey(p) = ds[k])
<1>1. pf = [k \in DOMAIN ds |->
              [src |-> ds[k][1], dst |-> ds[k][2], protocol |-> part(k)[1].proto,
               latency |-> Summary(Latencies(part(k))), bytes |-> TotalBytes(part(k)),
               packets |-> Len(part(k)), last |-> Last(part(k)).ts]]
  BY DEF PerFlow, FlowKeys
<1>2. \A k : part(k) = Sublist(l, FlowClass(l, k)) /\ FlowClass(l, k) \in SUBSET DOMAIN l
  <2> TAKE k
  <2>1. part(k) = Sublist(l, {i \in DOMAIN l : FlowKey(l[i]) = ds[k]})
    BY DEF Filter
  <2> HIDE DEF part
  <2>2. {i \in DOMAIN l : FlowKey(l[i]) = ds[k]} = FlowClass(l, k)
    BY DEF FlowClass, Class, FlowKeys
  <2> QED
    BY <2>1, <2>2
<1>3. List(ds) /\ \A k \in DOMAIN ds : \E i \in DOMAIN l : ds[k] = FlowKeys(l)[i]
  BY KeysList, DistinctKeeps
<1> HIDE DEF part
<1>4. \A k : /\ Packets(part(k))
             /\ Len(part(k)) = SumFunctionOnSet(Ones(DOMAIN l), FlowClass(l, k))
             /\ Len(part(k)) = Cardinality(FlowClass(l, k))
             /\ TotalBytes(part(k)) = SumFunctionOnSet(Sizes(l), FlowClass(l, k))
  BY <1>2, PartOfPackets
<1>5. ASSUME NEW k \in DOMAIN ds PROVE part(k) # <<>> /\ Len(part(k)) \in Nat /\ Len(part(k)) > 0
  <2>1. FlowClass(l, k) # {}
    BY <1>3, KeysList DEF FlowClass, Class
  <2>2. IsFiniteSet(FlowClass(l, k))
    BY <1>2, PacketList, FS_Subset
  <2>3. Cardinality(FlowClass(l, k)) # 0
    BY <2>1, <2>2, FS_EmptySet
  <2>4. Len(part(k)) \in Nat /\ Len(part(k)) # 0
    BY <1>4, <2>3, PacketList
  <2> QED
    BY <2>4
<1>6. ASSUME NEW k \in DOMAIN ds
      PROVE  Summary(Latencies(part(k))).n = Len(part(k)) /\ Summary(Latencies(part(k))).p99 \in Nat
  BY <1>4, <1>5, PacketSamples, SummaryCounts
<1>7. ASSUME NEW k \in DOMAIN ds PROVE Last(part(k)).ts \in Nat
  <2>1. Last(part(k)) \in Packet
    <3>1. Len(part(k)) \in DOMAIN part(k)
      BY <1>4, <1>5, PacketList
    <3> QED
      BY <1>4, <3>1, PacketList DEF Last
  <2> QED
    BY <2>1 DEF Packet
<1>8. ASSUME NEW k \in DOMAIN ds
      PROVE  /\ pf[k].src = ds[k][1] /\ pf[k].dst = ds[k][2] /\ pf[k].packets = Len(part(k))
             /\ pf[k].latency = Summary(Latencies(part(k)))
             /\ pf[k].bytes = TotalBytes(part(k)) /\ pf[k].last = Last(part(k)).ts
  BY <1>1
<1>9. DOMAIN pf = DOMAIN ds
  BY <1>1
<1>10. List(pf)
  <2>1. Len(ds) \in Nat /\ DOMAIN ds = 1..Len(ds)
    BY <1>3, ListBounds
  <2>2. pf = [k \in 1..Len(ds) |-> pf[k]]
    BY <1>1, <2>1
  <2> QED
    BY <2>1, <2>2, ListMade
<1> HIDE DEF pf, ds
<1>11. ASSUME NEW k \in DOMAIN ds, NEW key \in {"packets", "p99", "last"} PROVE Column(pf[k], key) \in Nat
  <2>1. Column(pf[k], key) \in {pf[k].packets, pf[k].latency.p99, pf[k].last}
    BY DEF Column
  <2> QED
    BY <1>5, <1>6, <1>7, <1>8, <2>1
<1> QED
  BY <1>4, <1>6, <1>8, <1>9, <1>10, <1>11 DEF pf, ds

\* The number a row of the flow table is sorted by, the smallest first.
Weights(l, order) ==
    [k \in DOMAIN PerFlow(l) |-> IF order.dir = "asc" THEN Column(PerFlow(l)[k], order.key)
                                 ELSE -Column(PerFlow(l)[k], order.key)]

\* The orders the user can choose.
TableOrder == [key : {"packets", "p99", "last"}, dir : {"asc", "desc"}]

\* The table is the flows in another order, in which its column rises or falls.
LEMMA TableRises ==
    ASSUME NEW l, Packets(l), NEW order \in TableOrder
    PROVE  \E at : Rises(SortedFlows(PerFlow(l), order), PerFlow(l), Weights(l, order), at)
<1> DEFINE pf == PerFlow(l)
           D == DOMAIN pf
           c == Weights(l, order)
           ahead(a, b) == IF order.dir = "asc" THEN Column(a, order.key) < Column(b, order.key)
                          ELSE Column(a, order.key) > Column(b, order.key)
           before == {r \in D \X D : \/ ahead(pf[r[1]], pf[r[2]])
                                     \/ ~ahead(pf[r[2]], pf[r[1]]) /\ r[1] < r[2]}
<1>1. SortedFlows(pf, order) = Arranged(pf, before)
  BY DEF SortedFlows, Sorted, Arranged
<1>2. List(pf) /\ \A k \in D : Column(pf[k], order.key) \in Nat
  <2>1. order.key \in {"packets", "p99", "last"}
    BY DEF TableOrder
  <2> QED
    BY <2>1, FlowsAre
<1>3. \A k \in D : c[k] = IF order.dir = "asc" THEN Column(pf[k], order.key) ELSE -Column(pf[k], order.key)
  BY DEF Weights
<1> HIDE DEF pf, c
<1>4. \A j, k \in D : ahead(pf[j], pf[k]) <=> c[j] < c[k]
  <2> TAKE j, k \in D
  <2> DEFINE x == Column(pf[j], order.key)
             y == Column(pf[k], order.key)
  <2>1. x \in Nat /\ y \in Nat
    BY <1>2
  <2>2. c[j] = (IF order.dir = "asc" THEN x ELSE -x) /\ c[k] = IF order.dir = "asc" THEN y ELSE -y
    BY <1>3
  <2>3. ahead(pf[j], pf[k]) <=> IF order.dir = "asc" THEN x < y ELSE x > y
    OBVIOUS
  <2> HIDE DEF ahead, x, y
  <2> QED
    BY <2>1, <2>2, <2>3
<1>5. before = ByNumber(D, c)
  <2> HIDE DEF D, ahead
  <2>1. \A r \in D \X D : r[1] \in D /\ r[2] \in D
    OBVIOUS
  <2>2. before \subseteq D \X D /\ ByNumber(D, c) \subseteq D \X D
    BY DEF ByNumber
  <2>3. ASSUME NEW r \in D \X D PROVE r \in before <=> r \in ByNumber(D, c)
    BY <1>4, <2>1 DEF ByNumber
  <2> HIDE DEF before
  <2> QED
    BY <2>2, <2>3
<1>6. \A k \in D : c[k] \in Int
  BY <1>2, <1>3
<1> HIDE DEF before
<1> QED
  BY <1>1, <1>2, <1>5, <1>6, ArrangedRises DEF pf, c

\* However the table is sorted, its flows add up to the packets.
LEMMA FlowsTotal ==
    ASSUME NEW l, Packets(l), NEW order \in TableOrder
    PROVE  LET flows == SortedFlows(PerFlow(l), order)
           IN  /\ Total(flows, LAMBDA f : f.bytes) = TotalBytes(l)
               /\ Total(flows, LAMBDA f : f.latency.n) = Len(l)
<1> DEFINE ks == FlowKeys(l)
           pf == PerFlow(l)
           K == DOMAIN Distinct(ks)
           flows == SortedFlows(pf, order)
           B == [k \in K |-> pf[k].bytes]
           N == [k \in K |-> pf[k].latency.n]
           FB == [k \in DOMAIN flows |-> flows[k].bytes]
           FN == [k \in DOMAIN flows |-> flows[k].latency.n]
<1>1. /\ Total(flows, LAMBDA f : f.bytes) = SumFunctionOnSet(FB, DOMAIN flows)
      /\ Total(flows, LAMBDA f : f.latency.n) = SumFunctionOnSet(FN, DOMAIN flows)
  <2> HIDE DEF flows
  <2> QED
    BY DEF Total, SumFunction
<1>2. PICK at : Rises(flows, pf, Weights(l, order), at)
  BY TableRises
<1>3. /\ List(pf) /\ DOMAIN pf = K
      /\ \A k \in K : /\ B[k] = SumFunctionOnSet(Sizes(l), Class(DOMAIN ks, ks, Distinct(ks)[k]))
                      /\ N[k] = SumFunctionOnSet(Ones(DOMAIN l), Class(DOMAIN ks, ks, Distinct(ks)[k]))
  <2>1. /\ List(pf) /\ DOMAIN pf = K
        /\ \A k \in K : /\ pf[k].bytes = SumFunctionOnSet(Sizes(l), FlowClass(l, k))
                        /\ pf[k].latency.n = SumFunctionOnSet(Ones(DOMAIN l), FlowClass(l, k))
    BY FlowsAre
  <2> HIDE DEF pf, ks, K
  <2> QED
    BY <2>1 DEF FlowClass, ks
<1>4. /\ DOMAIN flows = K /\ \A k \in K : at[k] \in K /\ flows[k] = pf[at[k]]
  BY <1>2, <1>3 DEF Rises
<1>5. \A k \in K : FB[k] = B[at[k]] /\ FN[k] = N[at[k]]
  <2> HIDE DEF flows, pf, K
  <2> QED
    BY <1>4
<1>6. List(ks) /\ DOMAIN ks = DOMAIN l
  BY KeysList
<1>7. \A i \in DOMAIN l : Ones(DOMAIN l)[i] \in Nat /\ Sizes(l)[i] \in Nat
  BY PacketList
<1>8. \A k \in K : B[k] \in Nat /\ N[k] \in Nat
  <2> TAKE k \in K
  <2> DEFINE I == Class(DOMAIN ks, ks, Distinct(ks)[k])
  <2>1. I \in SUBSET DOMAIN l
    BY <1>6 DEF Class
  <2>2. B[k] = SumFunctionOnSet(Sizes(l), I) /\ N[k] = SumFunctionOnSet(Ones(DOMAIN l), I)
    BY <1>3
  <2> HIDE DEF I
  <2>3. IsFiniteSet(I) /\ \A i \in I : Ones(DOMAIN l)[i] \in Nat /\ Sizes(l)[i] \in Nat
    BY <1>7, <2>1, PacketList, FS_Subset
  <2> HIDE DEF B, N
  <2> QED
    BY <2>2, <2>3, SumIsNat
<1> HIDE DEF B, N, FB, FN, ks, flows, pf
<1>9. InGroups(ks, K) = DOMAIN l
  BY <1>6, DistinctKeeps DEF InGroups
<1>10. /\ SumFunctionOnSet(B, K) = SumFunctionOnSet(Sizes(l), DOMAIN l)
       /\ SumFunctionOnSet(N, K) = SumFunctionOnSet(Ones(DOMAIN l), DOMAIN l)
  BY <1>3, <1>6, <1>7, <1>9, SumOfGroups
<1>11. K \in SUBSET DOMAIN pf /\ K = {k \in DOMAIN pf : at[k] \in K}
  BY <1>3, <1>4
<1> HIDE DEF K
<1>12. /\ SumFunctionOnSet(FB, K) = SumFunctionOnSet(B, K)
       /\ SumFunctionOnSet(FN, K) = SumFunctionOnSet(N, K)
  BY <1>2, <1>3, <1>5, <1>8, <1>11, SumOfMoved
<1> QED
  BY <1>1, <1>4, <1>10, <1>12, SumOfList DEF flows, pf

\* The rows between two hosts add up to the cell of the matrix.
LEMMA FlowsBetween ==
    ASSUME NEW l, Packets(l), NEW order \in TableOrder, NEW pair \in DOMAIN PairMat(l)
    PROVE  LET flows == SortedFlows(PerFlow(l), order)
               between == Filter(flows, LAMBDA f : <<IpOf(f.src), IpOf(f.dst)>> = pair)
           IN  /\ Total(between, LAMBDA f : f.packets) = PairMat(l)[pair].count
               /\ Total(between, LAMBDA f : f.bytes) = PairMat(l)[pair].bytes
<1> DEFINE ks == FlowKeys(l)
           pf == PerFlow(l)
           ds == Distinct(ks)
           D == DOMAIN ds
           flows == SortedFlows(pf, order)
           of(f) == <<IpOf(f.src), IpOf(f.dst)>>
           J == {k \in DOMAIN flows : of(flows[k]) = pair}
           K == {k \in D : of(pf[k]) = pair}
           between == Sublist(flows, J)
           B == [k \in D |-> pf[k].bytes]
           N == [k \in D |-> pf[k].packets]
           MB == [k \in D |-> flows[k].bytes]
           MN == [k \in D |-> flows[k].packets]
           FB == [k \in DOMAIN between |-> between[k].bytes]
           FN == [k \in DOMAIN between |-> between[k].packets]
<1>0. Filter(flows, LAMBDA f : <<IpOf(f.src), IpOf(f.dst)>> = pair) = between
  BY DEF Filter
<1>1. /\ Total(between, LAMBDA f : f.bytes) = SumFunctionOnSet(FB, DOMAIN FB)
      /\ Total(between, LAMBDA f : f.packets) = SumFunctionOnSet(FN, DOMAIN FN)
  <2> HIDE DEF between
  <2> QED
    BY DEF Total, SumFunction
<1>2. PICK at : Rises(flows, pf, Weights(l, order), at)
  BY TableRises
<1>3. /\ List(pf) /\ DOMAIN pf = D
      /\ \A k \in D : /\ pf[k].src = ds[k][1] /\ pf[k].dst = ds[k][2]
                      /\ B[k] = SumFunctionOnSet(Sizes(l), Class(DOMAIN ks, ks, ds[k]))
                      /\ N[k] = SumFunctionOnSet(Ones(DOMAIN l), Class(DOMAIN ks, ks, ds[k]))
  <2>1. /\ List(pf) /\ DOMAIN pf = D
        /\ \A k \in D : /\ pf[k].src = ds[k][1] /\ pf[k].dst = ds[k][2]
                        /\ pf[k].bytes = SumFunctionOnSet(Sizes(l), FlowClass(l, k))
                        /\ pf[k].packets = SumFunctionOnSet(Ones(DOMAIN l), FlowClass(l, k))
    BY FlowsAre
  <2> HIDE DEF pf, D
  <2> QED
    BY <2>1, Zenon DEF FlowClass
<1>4. List(flows) /\ DOMAIN flows = D /\ \A k \in D : at[k] \in D /\ flows[k] = pf[at[k]]
  BY <1>2, <1>3 DEF Rises
<1>6. List(ks) /\ DOMAIN ks = DOMAIN l
  BY KeysList
<1>7. \A i \in DOMAIN l : Ones(DOMAIN l)[i] \in Nat /\ Sizes(l)[i] \in Nat
  BY PacketList
<1>8. \A k \in D : B[k] \in Nat /\ N[k] \in Nat
  <2> TAKE k \in D
  <2> DEFINE I == Class(DOMAIN ks, ks, ds[k])
  <2>1. I \in SUBSET DOMAIN l
    BY <1>6 DEF Class
  <2>2. B[k] = SumFunctionOnSet(Sizes(l), I) /\ N[k] = SumFunctionOnSet(Ones(DOMAIN l), I)
    BY <1>3
  <2> HIDE DEF I
  <2>3. IsFiniteSet(I) /\ \A i \in I : Ones(DOMAIN l)[i] \in Nat /\ Sizes(l)[i] \in Nat
    BY <1>7, <2>1, PacketList, FS_Subset
  <2> HIDE DEF B, N
  <2> QED
    BY <2>2, <2>3, SumIsNat
<1>9. \A i \in DOMAIN l : Pairs(l)[i] = <<IpOf(ks[i][1]), IpOf(ks[i][2])>>
  BY DEF FlowKeys, FlowKey, Pairs, PairOf
<1> HIDE DEF pf, flows, ks
<1>5. \A k \in D : MB[k] = B[at[k]] /\ MN[k] = N[at[k]]
  <2> HIDE DEF D
  <2> QED
    BY <1>4
<1>10. InGroups(ks, K) = Class(DOMAIN l, Pairs(l), pair)
  <2>1. ASSUME NEW k \in D, NEW i \in DOMAIN l, ks[i] = ds[k]
        PROVE  k \in K <=> Pairs(l)[i] = pair
    BY <1>3, <1>9, <2>1
  <2>2. \A i \in DOMAIN l : \E k \in D : ks[i] = ds[k]
    BY <1>6, DistinctKeeps
  <2>3. K \in SUBSET D
    OBVIOUS
  <2> HIDE DEF K, ds
  <2> QED
    BY <1>6, <2>1, <2>2, <2>3 DEF InGroups, Class, ds
<1>11. J \in SUBSET DOMAIN flows /\ J = {k \in DOMAIN pf : at[k] \in K} /\ K \in SUBSET DOMAIN pf
  <2>1. \A k \in D : k \in J <=> at[k] \in K
    BY <1>4
  <2>2. J \in SUBSET D /\ K \in SUBSET D
    BY <1>4
  <2> HIDE DEF J, K
  <2> QED
    BY <1>3, <1>4, <2>1, <2>2
<1>12. /\ DOMAIN FB = DOMAIN between
       /\ \A k \in DOMAIN FB, i \in J : between[k] = flows[i] => FB[k] = MB[i]
       /\ DOMAIN FN = DOMAIN between
       /\ \A k \in DOMAIN FN, i \in J : between[k] = flows[i] => FN[k] = MN[i]
  <2>1. J \in SUBSET D
    BY <1>4, <1>11
  <2> HIDE DEF between, J, D
  <2> QED
    BY <2>1
<1> HIDE DEF B, N, MB, MN, FB, FN, J, K
<1>13. \A i \in J : MB[i] \in Nat /\ MN[i] \in Nat
  BY <1>4, <1>5, <1>8, <1>11
<1>14. SumFunctionOnSet(FB, DOMAIN FB) = SumFunctionOnSet(MB, J)
       /\ SumFunctionOnSet(FN, DOMAIN FN) = SumFunctionOnSet(MN, J)
  BY <1>4, <1>11, <1>12, <1>13, SumOfSublist
<1>15. /\ \A k \in K : B[k] \in Nat /\ N[k] \in Nat
       /\ \A k \in J : MB[k] = B[at[k]] /\ MN[k] = N[at[k]]
  BY <1>3, <1>4, <1>5, <1>8, <1>11
<1>16. /\ SumFunctionOnSet(MB, J) = SumFunctionOnSet(B, K)
       /\ SumFunctionOnSet(MN, J) = SumFunctionOnSet(N, K)
  BY <1>2, <1>3, <1>11, <1>15, SumOfMoved
<1>17. /\ K \in SUBSET DOMAIN Distinct(ks) /\ \A i \in DOMAIN ks : Ones(DOMAIN l)[i] \in Nat /\ Sizes(l)[i] \in Nat
       /\ \A k \in K : /\ B[k] = SumFunctionOnSet(Sizes(l), Class(DOMAIN ks, ks, Distinct(ks)[k]))
                       /\ N[k] = SumFunctionOnSet(Ones(DOMAIN l), Class(DOMAIN ks, ks, Distinct(ks)[k]))
  BY <1>3, <1>6, <1>7, <1>11
<1>18. /\ SumFunctionOnSet(B, K) = SumFunctionOnSet(Sizes(l), InGroups(ks, K))
       /\ SumFunctionOnSet(N, K) = SumFunctionOnSet(Ones(DOMAIN l), InGroups(ks, K))
  BY <1>6, <1>17, SumOfGroups
<1>19. /\ PairMat(l)[pair].count = SumFunctionOnSet(Ones(DOMAIN l), Class(DOMAIN l, Pairs(l), pair))
       /\ PairMat(l)[pair].bytes = SumFunctionOnSet(Sizes(l), Class(DOMAIN l, Pairs(l), pair))
  BY MatrixIs
<1> HIDE DEF between
<1> QED
  BY <1>0, <1>1, <1>10, <1>14, <1>16, <1>18, <1>19 DEF flows, pf

\* The protocol of each packet.
ProtosOf(l) == [i \in DOMAIN l |-> l[i].proto]

\* The row of a protocol counts its packets, with or without any.
LEMMA RowCounts ==
    ASSUME NEW l, Packets(l), NEW k \in DOMAIN ProtoOrder
    PROVE  LET I == Class(DOMAIN l, ProtosOf(l), ProtoOrder[k])
           IN  /\ ProtoRows(l)[k].latency.n = SumFunctionOnSet(Ones(DOMAIN l), I)
               /\ ProtoRows(l)[k].size.n = SumFunctionOnSet(Ones(DOMAIN l), I)
<1> DEFINE proto == ProtoOrder[k]
           I == Class(DOMAIN l, ProtosOf(l), proto)
           found == PerProto(l)
           ps == Of(l, proto)
           none == [latency |-> EmptyStats, iat |-> EmptyStats, size |-> EmptyStats, cdf |-> <<>>]
           row == ProtoRows(l)[k]
<1>1. row = IF proto \in DOMAIN found THEN found[proto] ELSE none
  BY DEF ProtoRows
<1>2. DOMAIN found = {p.proto : p \in ToSet(l)}
  BY DEF PerProto
<1>3. ps = Sublist(l, I) /\ I \in SUBSET DOMAIN l
  <2>1. ps = Sublist(l, {i \in DOMAIN l : l[i].proto = proto})
    BY DEF Of, Filter
  <2>2. {i \in DOMAIN l : l[i].proto = proto} = I
    BY DEF Class, ProtosOf
  <2>3. I \in SUBSET DOMAIN l
    BY DEF Class
  <2> HIDE DEF proto, ps, I
  <2> QED
    BY <2>1, <2>2, <2>3
<1> HIDE DEF I, ps
<1>4. Packets(ps) /\ Len(ps) = SumFunctionOnSet(Ones(DOMAIN l), I)
  BY <1>3, PartOfPackets
<1>5. CASE proto \in DOMAIN found
  <2>1. found[proto].latency = Summary(Latencies(ps)) /\ found[proto].size = Summary(Sizes(ps))
    BY <1>5 DEF PerProto, Sizes, ps
  <2>2. /\ Samples(Latencies(ps)) /\ Len(Latencies(ps)) = Len(ps)
        /\ Samples(Sizes(ps)) /\ Len(Sizes(ps)) = Len(ps)
    BY <1>4, PacketSamples
  <2>3. Summary(Latencies(ps)).n = Len(ps) /\ Summary(Sizes(ps)).n = Len(ps)
    BY <2>2, SummaryCounts
  <2>4. row = found[proto]
    BY <1>1, <1>5
  <2> HIDE DEF row, found, proto
  <2> QED
    BY <1>4, <2>1, <2>3, <2>4 DEF row, I, proto
<1>6. CASE proto \notin DOMAIN found
  <2>1. I = {}
    BY <1>2, <1>6 DEF I, Class, ProtosOf, ToSet
  <2>2. row.latency.n = 0 /\ row.size.n = 0
    BY <1>1, <1>6 DEF EmptyStats
  <2> HIDE DEF row, proto
  <2> QED
    BY <2>1, <2>2, SumOfNone DEF row, I, proto
<1> QED
  BY <1>5, <1>6

\* The rows of the protocols count all packets, by their latencies and by their sizes.
LEMMA RowsAddUp ==
    ASSUME NEW l, Packets(l)
    PROVE  /\ Total(ProtoRows(l), LAMBDA r : r.latency.n) = Len(l)
           /\ Total(ProtoRows(l), LAMBDA r : r.size.n) = Len(l)
<1> DEFINE K == DOMAIN ProtoOrder
           rows == ProtoRows(l)
           F == [k \in K |-> rows[k].latency.n]
           G == [k \in K |-> rows[k].size.n]
           key == [i \in DOMAIN l |-> RankOf(l[i].proto)]
<1>1. /\ Total(rows, LAMBDA r : r.latency.n) = SumFunctionOnSet(F, K)
      /\ Total(rows, LAMBDA r : r.size.n) = SumFunctionOnSet(G, K)
  <2>1. DOMAIN rows = K
    BY DEF ProtoRows
  <2> HIDE DEF rows, K
  <2> QED
    BY <2>1 DEF Total, SumFunction
<1>2. K = 1..3 /\ IsFiniteSet(K)
  <2>1. K = 1..3
    BY DEF ProtoOrder
  <2>2. \A n \in Int : IsFiniteSet(1..n)
    BY FS_Interval
  <2>3. PICK n \in Int : n = 3
    OBVIOUS
  <2>4. IsFiniteSet(1..n)
    BY <2>2
  <2> HIDE DEF K
  <2>5. K = 1..n
    BY <2>1, <2>3
  <2> QED
    BY <2>1, <2>4, <2>5
<1>3. ASSUME NEW i \in DOMAIN l
      PROVE  /\ key[i] \in K /\ \A k \in K : key[i] = k <=> l[i].proto = ProtoOrder[k]
  <2>1. l[i] \in Packet
    BY PacketList
  <2>2. \E k \in K : ProtoOrder[k] = l[i].proto
    BY <2>1 DEF Packet, Protos, ToSet
  <2>3. key[i] = CHOOSE k \in K : ProtoOrder[k] = l[i].proto
    BY DEF RankOf
  <2> HIDE DEF key
  <2>4. key[i] \in K /\ ProtoOrder[key[i]] = l[i].proto
    <3> HIDE DEF K
    <3> QED
      BY <2>2, <2>3
  <2>5. \A j, k \in K : ProtoOrder[j] = ProtoOrder[k] => j = k
    BY <1>2 DEF ProtoOrder
  <2> HIDE DEF K
  <2> QED
    BY <2>4, <2>5
<1>4. ASSUME NEW k \in K PROVE Class(DOMAIN l, ProtosOf(l), ProtoOrder[k]) = Class(DOMAIN l, key, k)
  <2> HIDE DEF key, K
  <2> QED
    BY <1>3 DEF Class, ProtosOf
<1>5. ASSUME NEW k \in K
      PROVE  /\ F[k] = SumFunctionOnSet(Ones(DOMAIN l), Class(DOMAIN l, key, k))
             /\ G[k] = SumFunctionOnSet(Ones(DOMAIN l), Class(DOMAIN l, key, k))
  <2>1. /\ rows[k].latency.n = SumFunctionOnSet(Ones(DOMAIN l), Class(DOMAIN l, ProtosOf(l), ProtoOrder[k]))
        /\ rows[k].size.n = SumFunctionOnSet(Ones(DOMAIN l), Class(DOMAIN l, ProtosOf(l), ProtoOrder[k]))
    BY RowCounts
  <2> HIDE DEF K, key, rows
  <2> QED
    BY <1>4, <2>1
<1> HIDE DEF F, G, K, key
<1>6. IsFiniteSet(DOMAIN l) /\ \A i \in DOMAIN l : Ones(DOMAIN l)[i] \in Nat
  BY PacketList
<1>7. \A i \in DOMAIN l : key[i] \in K
  BY <1>3
<1>8. /\ SumFunctionOnSet(F, K) = SumFunctionOnSet(Ones(DOMAIN l), DOMAIN l)
      /\ SumFunctionOnSet(G, K) = SumFunctionOnSet(Ones(DOMAIN l), DOMAIN l)
  BY <1>2, <1>5, <1>6, <1>7, SumOfClasses
<1> QED
  BY <1>1, <1>8, SumOfList

\* Who sends each packet by which protocol, and how often each does.
Speakers(l) == [i \in DOMAIN l |-> <<IpOf(l[i].src), l[i].proto>>]
Talkers(l) == CountBy(l, LAMBDA p : <<IpOf(p.src), p.proto>>)
\* The most frequent first.
ByCount(l) == [k \in DOMAIN Talkers(l) |-> -Talkers(l)[k].n]

\* A talker counts the packets it sends by its protocol.
LEMMA TalkersAre ==
    ASSUME NEW l, Packets(l)
    PROVE  LET ks == Speakers(l)
           IN  /\ List(Talkers(l)) /\ DOMAIN Talkers(l) = DOMAIN Distinct(ks)
               /\ \A k \in DOMAIN Distinct(ks) :
                     /\ Talkers(l)[k].n \in Nat
                     /\ Talkers(l)[k].n = SumFunctionOnSet(Ones(DOMAIN l), Class(DOMAIN ks, ks, Distinct(ks)[k]))
               /\ List(ks) /\ DOMAIN ks = DOMAIN l
<1> DEFINE ks == Speakers(l)
           ds == Distinct(ks)
           all == Talkers(l)
           part(k) == Filter(l, LAMBDA p : <<IpOf(p.src), p.proto>> = ds[k])
           I(k) == Class(DOMAIN ks, ks, ds[k])
<1>1. all = [k \in DOMAIN ds |-> [key |-> ds[k], n |-> Len(part(k))]]
  BY DEF Talkers, CountBy, Speakers
<1>2. List(ks) /\ DOMAIN ks = DOMAIN l
  <2>1. Len(l) \in Nat /\ DOMAIN l = 1..Len(l)
    BY PacketList
  <2>2. ks = [i \in 1..Len(l) |-> ks[i]] /\ DOMAIN ks = DOMAIN l
    BY <2>1 DEF Speakers
  <2> QED
    BY <2>1, <2>2, ListMade
<1>3. \A k : part(k) = Sublist(l, I(k)) /\ I(k) \in SUBSET DOMAIN l
  <2> TAKE k
  <2>1. part(k) = Sublist(l, {i \in DOMAIN l : <<IpOf(l[i].src), l[i].proto>> = ds[k]})
    BY DEF Filter
  <2> HIDE DEF part
  <2>2. {i \in DOMAIN l : <<IpOf(l[i].src), l[i].proto>> = ds[k]} = I(k)
    BY DEF Class, Speakers
  <2>3. I(k) \in SUBSET DOMAIN l
    BY <1>2 DEF Class
  <2> QED
    BY <2>1, <2>2, <2>3
<1> HIDE DEF part, I
<1>4. \A k : Len(part(k)) \in Nat /\ Len(part(k)) = SumFunctionOnSet(Ones(DOMAIN l), I(k))
  BY <1>3, PartOfPackets
<1>5. DOMAIN all = DOMAIN ds /\ \A k \in DOMAIN ds : all[k].n = Len(part(k))
  BY <1>1
<1>6. List(all)
  <2>1. Len(ds) \in Nat /\ DOMAIN ds = 1..Len(ds)
    BY <1>2, DistinctKeeps, ListBounds
  <2>2. all = [k \in 1..Len(ds) |-> all[k]]
    BY <1>1, <2>1
  <2> QED
    BY <2>1, <2>2, ListMade
<1> HIDE DEF all, ks, ds
<1> QED
  BY <1>2, <1>4, <1>5, <1>6 DEF all, ks, ds, I

\* Sorted, the talkers are in another order, in which their counts fall.
LEMMA TalkersRise ==
    ASSUME NEW l, Packets(l)
    PROVE  \E at : Rises(Sorted(Talkers(l), LAMBDA a, b : a.n > b.n), Talkers(l), ByCount(l), at)
<1> DEFINE all == Talkers(l)
           D == DOMAIN all
           c == ByCount(l)
           before == {r \in D \X D : \/ all[r[1]].n > all[r[2]].n
                                     \/ ~(all[r[2]].n > all[r[1]].n) /\ r[1] < r[2]}
<1>1. Sorted(all, LAMBDA a, b : a.n > b.n) = Arranged(all, before)
  BY DEF Sorted, Arranged
<1>2. List(all) /\ \A k \in D : all[k].n \in Nat
  BY TalkersAre
<1>3. \A k \in D : c[k] = -all[k].n
  BY DEF ByCount
<1> HIDE DEF all, c
<1>4. \A j, k \in D : all[j].n > all[k].n <=> c[j] < c[k]
  BY <1>2, <1>3
<1>5. before = ByNumber(D, c)
  <2> HIDE DEF D
  <2>1. \A r \in D \X D : r[1] \in D /\ r[2] \in D
    OBVIOUS
  <2>2. before \subseteq D \X D /\ ByNumber(D, c) \subseteq D \X D
    BY DEF ByNumber
  <2>3. ASSUME NEW r \in D \X D PROVE r \in before <=> r \in ByNumber(D, c)
    BY <1>4, <2>1 DEF ByNumber
  <2> HIDE DEF before
  <2> QED
    BY <2>2, <2>3
<1>6. \A k \in D : c[k] \in Int
  BY <1>2, <1>3
<1> HIDE DEF before
<1> QED
  BY <1>1, <1>2, <1>5, <1>6, ArrangedRises DEF all, c

\* The talkers come the most frequent first, and when none is left out they are all packets.
LEMMA TalkersAddUp ==
    ASSUME NEW l, Packets(l)
    PROVE  LET talkers == TopTalkers(l)
           IN  /\ Len(talkers) < TalkerLimit => Total(talkers, LAMBDA t : t.n) = Len(l)
               /\ \A k \in 2..Len(talkers) : talkers[k - 1].n >= talkers[k].n
<1> DEFINE ks == Speakers(l)
           K == DOMAIN Distinct(ks)
           all == Talkers(l)
           sorted == Sorted(all, LAMBDA a, b : a.n > b.n)
           m == IF Len(all) < TalkerLimit THEN Len(all) ELSE TalkerLimit
           talkers == TopTalkers(l)
           C == [k \in K |-> all[k].n]
           F == [k \in DOMAIN talkers |-> talkers[k].n]
<1>1. talkers = SubSeq(sorted, 1, m)
  BY DEF TopTalkers, Talkers
<1>2. PICK at : Rises(sorted, all, ByCount(l), at)
  BY TalkersRise
<1>3. /\ List(all) /\ DOMAIN all = K /\ List(ks) /\ DOMAIN ks = DOMAIN l
      /\ \A k \in K : C[k] \in Nat /\ C[k] = SumFunctionOnSet(Ones(DOMAIN l), Class(DOMAIN ks, ks, Distinct(ks)[k]))
      /\ \A k \in K : all[k].n \in Nat
  BY TalkersAre
<1>4. /\ List(sorted) /\ DOMAIN sorted = K /\ Len(sorted) = Len(all)
      /\ \A k \in K : at[k] \in K /\ sorted[k] = all[at[k]]
      /\ \A j, k \in K : j <= k => ByCount(l)[at[j]] <= ByCount(l)[at[k]]
  <2> HIDE DEF sorted, all, K
  <2> QED
    BY <1>2, <1>3 DEF Rises
<1>5. \A k \in K : ByCount(l)[k] = -all[k].n
  BY <1>3 DEF ByCount
<1>6. TalkerLimit \in Nat /\ Len(all) \in Nat /\ K = 1..Len(all)
  BY <1>3, ListBounds, AnalysisAssumption
<1>12. \A k \in K : C[k] = all[k].n
  OBVIOUS
<1> HIDE DEF sorted, all, ks, C
<1>7. m \in Nat /\ m <= Len(all) /\ (m < TalkerLimit => m = Len(all))
  BY <1>6
<1> HIDE DEF m
<1>8. Len(talkers) = m /\ DOMAIN talkers = 1..m /\ \A k \in 1..m : talkers[k] = sorted[k]
  <2>1. PICK V : sorted \in Seq(V)
    BY <1>4 DEF List
  <2>2. 1..m \subseteq K
    BY <1>6, <1>7
  <2>3. \A k \in 1..m : sorted[k] \in V
    BY <1>4, <2>1, <2>2
  <2> HIDE DEF K, talkers
  <2>4. /\ talkers \in Seq(V) /\ Len(talkers) = (IF 1 <= m THEN m - 1 + 1 ELSE 0)
        /\ \A k \in 1..m - 1 + 1 : talkers[k] = sorted[1 + k - 1]
    BY <1>1, <1>7, <2>3, SubSeqProperties
  <2>5. Len(talkers) = m /\ DOMAIN talkers = 1..m
    BY <1>7, <2>4
  <2>6. \A k \in 1..m : k \in 1..m - 1 + 1 /\ 1 + k - 1 = k
    BY <1>7
  <2> QED
    BY <2>4, <2>5, <2>6
<1>9. \A k \in 2..Len(talkers) : talkers[k - 1].n >= talkers[k].n
  <2> TAKE k \in 2..Len(talkers)
  <2>1. k \in 1..m /\ k - 1 \in 1..m /\ k - 1 <= k /\ k \in K /\ k - 1 \in K
    BY <1>6, <1>7, <1>8
  <2>2. ByCount(l)[at[k - 1]] <= ByCount(l)[at[k]]
    BY <1>4, <2>1
  <2>3. /\ talkers[k - 1] = all[at[k - 1]] /\ talkers[k] = all[at[k]]
        /\ at[k - 1] \in K /\ at[k] \in K
    BY <1>4, <1>8, <2>1
  <2>4. /\ ByCount(l)[at[k - 1]] = -talkers[k - 1].n /\ ByCount(l)[at[k]] = -talkers[k].n
        /\ talkers[k - 1].n \in Nat /\ talkers[k].n \in Nat
    BY <1>3, <1>5, <2>3
  <2> QED
    BY <2>2, <2>4
<1>11. InGroups(ks, K) = DOMAIN l
  <2>1. \A i \in DOMAIN ks : \E k \in K : ks[i] = Distinct(ks)[k]
    <3>1. \A i \in DOMAIN ks : \E k \in K : Distinct(ks)[k] = ks[i]
      BY <1>3, DistinctKeeps
    <3> QED
      BY <3>1
  <2> HIDE DEF K
  <2> QED
    BY <1>3, <2>1 DEF InGroups
<1>10. ASSUME Len(talkers) < TalkerLimit PROVE Total(talkers, LAMBDA t : t.n) = Len(l)
  <2>1. DOMAIN talkers = K
    BY <1>6, <1>7, <1>8, <1>10
  <2>2. Total(talkers, LAMBDA t : t.n) = SumFunctionOnSet(F, K)
    <3> HIDE DEF talkers, K
    <3> QED
      BY <2>1 DEF Total, SumFunction
  <2>3. \A k \in K : F[k] = C[at[k]]
    <3>1. \A k \in K : talkers[k] = all[at[k]] /\ at[k] \in K
      BY <1>4, <1>8, <2>1
    <3> HIDE DEF K, talkers
    <3> QED
      BY <1>12, <2>1, <3>1
  <2> HIDE DEF F, talkers, K
  <2>4. K \in SUBSET DOMAIN all /\ K = {k \in DOMAIN all : at[k] \in K} /\ \A k \in K : C[k] \in Nat
    BY <1>3, <1>4
  <2>5. SumFunctionOnSet(F, K) = SumFunctionOnSet(C, K)
    BY <1>2, <1>3, <2>3, <2>4, SumOfMoved
  <2>6. \A i \in DOMAIN ks : Ones(DOMAIN l)[i] \in Nat
    BY <1>3, PacketList
  <2>7. SumFunctionOnSet(C, K) = SumFunctionOnSet(Ones(DOMAIN l), InGroups(ks, K))
    BY <1>3, <2>6, SumOfGroups DEF K
  <2> QED
    BY <1>11, <2>2, <2>5, <2>7, SumOfList
<1> QED
  BY <1>9, <1>10

\* The first n levels of a topic.
Levels(t, n) == SubSeq(t, 1, n)

\* The first n levels are n, and those of the topic.
LEMMA LevelsAre ==
    ASSUME NEW t \in Seq(STRING), NEW n \in 0..Len(t)
    PROVE  /\ Levels(t, n) \in Seq(STRING) /\ Len(Levels(t, n)) = n
           /\ \A k \in 1..n : Levels(t, n)[k] = t[k]
<1>1. \A i \in 1..n : t[i] \in STRING
  OBVIOUS
<1>2. /\ SubSeq(t, 1, n) \in Seq(STRING) /\ Len(SubSeq(t, 1, n)) = IF 1 <= n THEN n - 1 + 1 ELSE 0
      /\ \A k \in 1..n - 1 + 1 : SubSeq(t, 1, n)[k] = t[1 + k - 1]
  BY <1>1, SubSeqProperties
<1>3. \A k \in 1..n : k \in 1..n - 1 + 1 /\ 1 + k - 1 = k
  OBVIOUS
<1> QED
  BY <1>2, <1>3 DEF Levels

\* Two lists of levels are the same when they are as long and have the same levels.
LEMMA SameLevels ==
    ASSUME NEW s \in Seq(STRING), NEW t \in Seq(STRING), Len(s) = Len(t),
           \A k \in 1..Len(s) : s[k] = t[k]
    PROVE  s = t
OBVIOUS

\* A path begins a topic if it is the topic's first levels.
LEMMA PrefixIsLevels ==
    ASSUME NEW s \in Seq(STRING), NEW t \in Seq(STRING)
    PROVE  IsPrefix(s, t) <=> Len(s) <= Len(t) /\ Levels(t, Len(s)) = s
<1>1. Levels(s, Len(s)) = s
  <2>1. Levels(s, Len(s)) \in Seq(STRING) /\ Len(Levels(s, Len(s))) = Len(s)
        /\ \A k \in 1..Len(s) : Levels(s, Len(s))[k] = s[k]
    BY LevelsAre
  <2> QED
    BY <2>1, SameLevels
<1> QED
  BY <1>1 DEF IsPrefix, Levels

\* Without its last level, n + 1 levels are n.
LEMMA FrontOfLevels ==
    ASSUME NEW t \in Seq(STRING), NEW n \in 1..Len(t)
    PROVE  Front(Levels(t, n)) = Levels(t, n - 1)
<1> DEFINE q == Levels(t, n)
<1>1. q \in Seq(STRING) /\ Len(q) = n /\ \A k \in 1..n : q[k] = t[k]
  BY LevelsAre
<1> HIDE DEF q
<1>2. Front(q) = Levels(q, n - 1)
  BY <1>1 DEF Front, Levels
<1>3. n - 1 \in 0..Len(q) /\ n - 1 \in 0..Len(t)
  BY <1>1
<1>4. /\ Levels(q, n - 1) \in Seq(STRING) /\ Len(Levels(q, n - 1)) = n - 1
      /\ \A k \in 1..n - 1 : Levels(q, n - 1)[k] = q[k]
  BY <1>1, <1>3, LevelsAre
<1>5. /\ Levels(t, n - 1) \in Seq(STRING) /\ Len(Levels(t, n - 1)) = n - 1
      /\ \A k \in 1..n - 1 : Levels(t, n - 1)[k] = t[k]
  BY <1>3, LevelsAre
<1>6. \A k \in 1..n - 1 : Levels(q, n - 1)[k] = Levels(t, n - 1)[k]
  BY <1>1, <1>4, <1>5
<1>7. Levels(q, n - 1) = Levels(t, n - 1)
  BY <1>4, <1>5, <1>6, SameLevels
<1> QED
  BY <1>2, <1>7 DEF q

\* The packets whose topic begins with path.
Under(l, path) == {i \in DOMAIN l : IsPrefix(path, l[i].topic)}

\* The tree has the paths that begin a topic, each with the packets under it.
LEMMA TreeIs ==
    ASSUME NEW l, Packets(l)
    PROVE  LET tree == TopicTree(l)
           IN  \A path :
                  /\ path \in DOMAIN tree <=>
                        \E i \in DOMAIN l : \E n \in 1..Len(l[i].topic) : path = Levels(l[i].topic, n)
                  /\ path \in DOMAIN tree => tree[path] = SumFunctionOnSet(Ones(DOMAIN l), Under(l, path))
<1> DEFINE paths == UNION {{SubSeq(p.topic, 1, n) : n \in 1..Len(p.topic)} : p \in ToSet(l)}
           part(path) == Filter(l, LAMBDA p : IsPrefix(path, p.topic))
           tree == TopicTree(l)
<1>1. tree = [path \in paths |-> Len(part(path))]
  BY DEF TopicTree
<1>2. \A path : part(path) = Sublist(l, Under(l, path))
  BY DEF Filter, Under
<1>3. \A path : Under(l, path) \in SUBSET DOMAIN l
  BY DEF Under
<1> HIDE DEF part
<1>4. \A path : Len(part(path)) = SumFunctionOnSet(Ones(DOMAIN l), Under(l, path))
  BY <1>2, <1>3, PartOfPackets
<1>5. \A path : path \in paths <=>
         \E i \in DOMAIN l : \E n \in 1..Len(l[i].topic) : path = Levels(l[i].topic, n)
  BY DEF ToSet, Levels
<1> HIDE DEF paths, tree
<1>6. DOMAIN tree = paths /\ \A path \in paths : tree[path] = Len(part(path))
  BY <1>1
<1> QED
  BY <1>4, <1>5, <1>6 DEF tree

\* A path counts the packets of the paths one level below it, and its own.
PathAddsUp(l, path) ==
    LET tree == TopicTree(l)
    IN  tree[path] = SumFunction([sub \in {q \in DOMAIN tree : Front(q) = path} |-> tree[sub]])
                       + Len(Filter(l, LAMBDA p : p.topic = path))

\* Every path of the tree adds up.
LEMMA TopicsAddUp ==
    ASSUME NEW l, Packets(l), NEW path \in DOMAIN TopicTree(l)
    PROVE  PathAddsUp(l, path)
<1> DEFINE tree == TopicTree(l)
           T == [i \in DOMAIN l |-> l[i].topic]
           K == {q \in DOMAIN tree : Front(q) = path}
           F == [sub \in K |-> tree[sub]]
           m == Len(path)
           I == {i \in DOMAIN l : m < Len(T[i]) /\ Levels(T[i], m) = path}
           J == {i \in DOMAIN l : T[i] = path}
           key == [i \in I |-> Levels(T[i], m + 1)]
<1>1. \A i \in DOMAIN l : T[i] = l[i].topic /\ T[i] \in Seq(STRING) /\ Len(T[i]) \in Nat
  <2>1. \A i \in DOMAIN l : l[i].topic \in Seq(STRING)
    BY PacketList DEF Packet
  <2> QED
    BY <2>1
<1>2. \A q : /\ q \in DOMAIN tree <=> \E i \in DOMAIN l : \E n \in 1..Len(T[i]) : q = Levels(T[i], n)
             /\ q \in DOMAIN tree => tree[q] = SumFunctionOnSet(Ones(DOMAIN l), Under(l, q))
  <2>1. \A q : /\ q \in DOMAIN tree <=> \E i \in DOMAIN l : \E n \in 1..Len(l[i].topic) : q = Levels(l[i].topic, n)
               /\ q \in DOMAIN tree => tree[q] = SumFunctionOnSet(Ones(DOMAIN l), Under(l, q))
    BY TreeIs
  <2>2. \A i \in DOMAIN l : T[i] = l[i].topic
    BY <1>1
  <2> HIDE DEF tree, T
  <2> QED
    BY <2>1, <2>2
<1>3. \A q : Under(l, q) = {i \in DOMAIN l : IsPrefix(q, T[i])}
  BY <1>1 DEF Under
<1>4. SumFunction(F) = SumFunctionOnSet(F, K)
  BY DEF SumFunction
<1>5. Filter(l, LAMBDA p : p.topic = path) = Sublist(l, J)
  <2>1. Filter(l, LAMBDA p : p.topic = path) = Sublist(l, {i \in DOMAIN l : l[i].topic = path})
    BY DEF Filter
  <2>2. {i \in DOMAIN l : l[i].topic = path} = J
    BY <1>1
  <2> QED
    BY <2>1, <2>2
<1>6. I \in SUBSET DOMAIN l /\ J \in SUBSET DOMAIN l
  OBVIOUS
<1>20. \A q \in K : F[q] = tree[q] /\ q \in DOMAIN tree /\ Front(q) = path
  OBVIOUS
<1>21. \A i \in I : key[i] = Levels(T[i], m + 1)
  OBVIOUS
<1> HIDE DEF T, tree, F, key
<1>7. ASSUME NEW q \in DOMAIN tree PROVE q \in Seq(STRING) /\ Len(q) \in Nat \ {0}
  <2>1. PICK i \in DOMAIN l : \E n \in 1..Len(T[i]) : q = Levels(T[i], n)
    BY <1>2
  <2>0. PICK n \in 1..Len(T[i]) : q = Levels(T[i], n)
    BY <2>1
  <2>2. n \in 0..Len(T[i]) /\ n \in Nat \ {0}
    BY <1>1
  <2> QED
    BY <1>1, <2>0, <2>2, LevelsAre
<1>8. path \in Seq(STRING) /\ m \in Nat /\ path \in DOMAIN tree
  BY <1>7 DEF tree
<1>9. ASSUME NEW q \in K
      PROVE  /\ q \in Seq(STRING) /\ Len(q) = m + 1
             /\ \E i \in I : key[i] = q
  <2>1. PICK i \in DOMAIN l : \E n \in 1..Len(T[i]) : q = Levels(T[i], n)
    BY <1>2
  <2>0. PICK n \in 1..Len(T[i]) : q = Levels(T[i], n)
    BY <2>1
  <2>2. Front(q) = Levels(T[i], n - 1) /\ Front(q) = path
    BY <1>1, <2>0, FrontOfLevels
  <2>3. n \in 0..Len(T[i]) /\ n - 1 \in 0..Len(T[i]) /\ n \in Nat
    BY <1>1
  <2>4. Len(q) = n /\ Len(path) = n - 1 /\ q \in Seq(STRING)
    BY <1>1, <2>0, <2>2, <2>3, LevelsAre
  <2>5. n = m + 1 /\ m = n - 1 /\ m < Len(T[i])
    BY <1>1, <2>3, <2>4
  <2>6. i \in I
    BY <2>2, <2>5
  <2> HIDE DEF m, I
  <2> QED
    BY <1>21, <2>0, <2>4, <2>5, <2>6
<1>10. ASSUME NEW i \in I PROVE key[i] \in K
  <2>1. i \in DOMAIN l /\ m < Len(T[i]) /\ Levels(T[i], m) = path
    OBVIOUS
  <2>2. m + 1 \in 1..Len(T[i]) /\ (m + 1) - 1 = m /\ T[i] \in Seq(STRING)
    BY <1>1, <1>8, <2>1
  <2>3. Front(Levels(T[i], m + 1)) = Levels(T[i], (m + 1) - 1)
    BY <2>2, FrontOfLevels
  <2>4. Levels(T[i], m + 1) \in DOMAIN tree
    BY <1>2, <2>1, <2>2
  <2> HIDE DEF m
  <2>5. Front(Levels(T[i], m + 1)) = path
    BY <2>1, <2>2, <2>3
  <2> QED
    BY <1>21, <2>4, <2>5
<1>11. ASSUME NEW q \in K PROVE Under(l, q) = Class(I, key, q)
  <2>1. q \in Seq(STRING) /\ Len(q) = m + 1 /\ Front(q) = path
    BY <1>9
  <2>2. ASSUME NEW i \in DOMAIN l, IsPrefix(q, T[i]) PROVE i \in I /\ key[i] = q
    <3>1. m + 1 <= Len(T[i]) /\ Levels(T[i], m + 1) = q /\ T[i] \in Seq(STRING)
      BY <1>1, <2>1, <2>2, PrefixIsLevels
    <3>2. m + 1 \in 1..Len(T[i]) /\ (m + 1) - 1 = m /\ m < Len(T[i])
      BY <1>1, <1>8, <3>1
    <3>3. Levels(T[i], (m + 1) - 1) = path
      BY <2>1, <3>1, <3>2, FrontOfLevels
    <3> HIDE DEF m
    <3>4. Levels(T[i], m) = path
      BY <3>2, <3>3
    <3>5. i \in I
      BY <3>2, <3>4
    <3> QED
      BY <1>21, <3>1, <3>5
  <2>3. ASSUME NEW i \in I, key[i] = q PROVE IsPrefix(q, T[i])
    <3>1. i \in DOMAIN l /\ m < Len(T[i]) /\ T[i] \in Seq(STRING) /\ Len(T[i]) \in Nat
      BY <1>1
    <3>2. Levels(T[i], m + 1) = q
      BY <1>21, <2>3
    <3>3. Len(q) <= Len(T[i]) /\ Levels(T[i], Len(q)) = q
      BY <1>8, <2>1, <3>1, <3>2
    <3> QED
      BY <2>1, <3>1, <3>3, PrefixIsLevels
  <2>4. I \in SUBSET DOMAIN l
    BY <1>6
  <2> HIDE DEF I
  <2> QED
    BY <1>3, <2>2, <2>3, <2>4 DEF Class
<1>12. Under(l, path) = I \cup J /\ I \cap J = {}
  <2>1. ASSUME NEW i \in DOMAIN l
        PROVE  /\ IsPrefix(path, T[i]) <=> i \in I \/ i \in J
               /\ ~(i \in I /\ i \in J)
    <3>1. /\ i \in I <=> m < Len(T[i]) /\ Levels(T[i], m) = path
          /\ i \in J <=> T[i] = path
      OBVIOUS
    <3>2. T[i] \in Seq(STRING) /\ Len(T[i]) \in Nat
      BY <1>1
    <3>3. IsPrefix(path, T[i]) <=> m <= Len(T[i]) /\ Levels(T[i], m) = path
      BY <1>8, <3>2, PrefixIsLevels
    <3>4. T[i] = path => m = Len(T[i]) /\ Levels(T[i], m) = path
      <4> SUFFICES ASSUME T[i] = path PROVE Levels(path, m) = path
        OBVIOUS
      <4>1. m \in 0..Len(path)
        BY <1>8
      <4>2. Levels(path, m) \in Seq(STRING) /\ Len(Levels(path, m)) = m /\ \A k \in 1..m : Levels(path, m)[k] = path[k]
        BY <1>8, <4>1, LevelsAre
      <4> QED
        BY <1>8, <4>2, SameLevels
    <3>5. m = Len(T[i]) /\ Levels(T[i], m) = path => T[i] = path
      <4> SUFFICES ASSUME m = Len(T[i]), Levels(T[i], m) = path PROVE T[i] = path
        OBVIOUS
      <4>1. m \in 0..Len(T[i])
        BY <1>8
      <4>2. \A k \in 1..m : Levels(T[i], m)[k] = T[i][k]
        BY <3>2, <4>1, LevelsAre
      <4>3. \A k \in 1..Len(T[i]) : T[i][k] = path[k]
        BY <4>2
      <4> QED
        BY <1>8, <3>2, <4>3, SameLevels
    <3> HIDE DEF I, J, m
    <3> QED
      BY <1>8, <3>1, <3>2, <3>3, <3>4, <3>5
  <2> HIDE DEF I, J
  <2> QED
    BY <1>3, <1>6, <2>1
<1>13. IsFiniteSet(DOMAIN l) /\ \A i \in DOMAIN l : Ones(DOMAIN l)[i] \in Nat
  BY PacketList
<1> HIDE DEF I, J, K, m
<1>14. IsFiniteSet(I) /\ \A i \in I : Ones(DOMAIN l)[i] \in Nat
  BY <1>6, <1>13, FS_Subset
<1>15. IsFiniteSet(K)
  <2>1. [i \in I |-> key[i]] \in Surjection(I, K)
    BY <1>9, <1>10 DEF Surjection
  <2> QED
    BY <1>14, <2>1, FS_Surjection
<1>16. \A q \in K : F[q] = SumFunctionOnSet(Ones(DOMAIN l), Class(I, key, q))
  BY <1>2, <1>11, <1>20
<1>17. SumFunctionOnSet(F, K) = SumFunctionOnSet(Ones(DOMAIN l), I)
  BY <1>10, <1>14, <1>15, <1>16, SumOfClasses
<1>18. SumFunctionOnSet(Ones(DOMAIN l), I \cup J)
         = SumFunctionOnSet(Ones(DOMAIN l), I) + SumFunctionOnSet(Ones(DOMAIN l), J)
  BY <1>6, <1>12, <1>13, SumSplits
<1>19. Len(Sublist(l, J)) = SumFunctionOnSet(Ones(DOMAIN l), J)
  BY <1>6, PartOfPackets
<1>22. tree[path] = SumFunctionOnSet(Ones(DOMAIN l), I \cup J)
  BY <1>2, <1>8, <1>12
<1> QED
  BY <1>4, <1>5, <1>17, <1>18, <1>19, <1>22 DEF PathAddsUp, F, K, tree

\* The columns of the flow table follow the order the user chose.
LEMMA TableInOrder ==
    ASSUME NEW l, Packets(l), NEW order \in TableOrder
    PROVE  LET flows == SortedFlows(PerFlow(l), order)
           IN  \A k \in 2..Len(flows) :
                  IF order.dir = "asc" THEN Column(flows[k - 1], order.key) <= Column(flows[k], order.key)
                  ELSE Column(flows[k - 1], order.key) >= Column(flows[k], order.key)
<1> DEFINE pf == PerFlow(l)
           flows == SortedFlows(pf, order)
           c == Weights(l, order)
<1>1. PICK at : Rises(flows, pf, c, at)
  BY TableRises
<1>2. List(pf) /\ \A k \in DOMAIN pf : Column(pf[k], order.key) \in Nat
  <2>1. order.key \in {"packets", "p99", "last"}
    BY DEF TableOrder
  <2> QED
    BY <2>1, FlowsAre
<1>3. \A k \in DOMAIN pf : c[k] = IF order.dir = "asc" THEN Column(pf[k], order.key) ELSE -Column(pf[k], order.key)
  BY DEF Weights
<1> HIDE DEF pf, flows, c
<1>4. /\ Len(flows) = Len(pf) /\ Len(pf) \in Nat /\ DOMAIN pf = 1..Len(pf)
      /\ \A k \in DOMAIN pf : at[k] \in DOMAIN pf /\ flows[k] = pf[at[k]]
      /\ \A j, k \in DOMAIN pf : j <= k => c[at[j]] <= c[at[k]]
  BY <1>1, <1>2, ListBounds DEF Rises
<1>5. ASSUME NEW k \in 2..Len(flows)
      PROVE  IF order.dir = "asc" THEN Column(flows[k - 1], order.key) <= Column(flows[k], order.key)
             ELSE Column(flows[k - 1], order.key) >= Column(flows[k], order.key)
  <2> DEFINE x == Column(flows[k - 1], order.key)
             y == Column(flows[k], order.key)
  <2>1. k \in DOMAIN pf /\ k - 1 \in DOMAIN pf /\ k - 1 <= k
    BY <1>4
  <2>2. /\ flows[k - 1] = pf[at[k - 1]] /\ flows[k] = pf[at[k]] /\ c[at[k - 1]] <= c[at[k]]
        /\ at[k - 1] \in DOMAIN pf /\ at[k] \in DOMAIN pf
    BY <1>4, <2>1
  <2>3. x \in Nat /\ y \in Nat
    BY <1>2, <2>2
  <2>4. /\ c[at[k - 1]] = IF order.dir = "asc" THEN x ELSE -x
        /\ c[at[k]] = IF order.dir = "asc" THEN y ELSE -y
    BY <1>3, <2>2
  <2> HIDE DEF x, y
  <2>5. IF order.dir = "asc" THEN x <= y ELSE x >= y
    BY <2>2, <2>3, <2>4
  <2> QED
    BY <2>5 DEF x, y
<1> QED
  BY <1>5 DEF flows, pf

\* All of FlowsAddUp, in a state of which the invariant holds.
LEMMA LedgerHolds == ListsInv => FlowsAddUp
<1> SUFFICES ASSUME ListsInv, tab = "perf" PROVE FlowsAddUp
  BY DEF FlowsAddUp
<1> DEFINE flows == SortedFlows(PerFlow(packets), sort)
           between(pair) == Filter(flows, LAMBDA f : <<IpOf(f.src), IpOf(f.dst)>> = pair)
           matrix == PairMat(packets)
           rows == ProtoRows(packets)
           talkers == TopTalkers(packets)
           tree == TopicTree(packets)
<1>1. Packets(packets) /\ sort \in TableOrder
  BY DEF ListsInv, Packets, TableOrder
<1>2. ASSUME NEW pair \in DOMAIN matrix
      PROVE  /\ Total(between(pair), LAMBDA f : f.packets) = matrix[pair].count
             /\ Total(between(pair), LAMBDA f : f.bytes) = matrix[pair].bytes
  BY <1>1, FlowsBetween
<1>3. /\ Total(flows, LAMBDA f : f.bytes) = TotalBytes(packets)
      /\ Total(flows, LAMBDA f : f.latency.n) = Len(packets)
  BY <1>1, FlowsTotal
<1>4. /\ Total(rows, LAMBDA r : r.latency.n) = Len(packets)
      /\ Total(rows, LAMBDA r : r.size.n) = Len(packets)
  BY <1>1, RowsAddUp
<1>5. /\ Len(talkers) < TalkerLimit => Total(talkers, LAMBDA t : t.n) = Len(packets)
      /\ \A k \in 2..Len(talkers) : talkers[k - 1].n >= talkers[k].n
  BY <1>1, TalkersAddUp
<1>6. ASSUME NEW path \in DOMAIN tree
      PROVE  tree[path] = SumFunction([sub \in {q \in DOMAIN tree : Front(q) = path} |-> tree[sub]])
                            + Len(Filter(packets, LAMBDA p : p.topic = path))
  <2>1. PathAddsUp(packets, path)
    BY <1>1, TopicsAddUp
  <2> QED
    BY <2>1 DEF PathAddsUp
<1>7. \A k \in 2..Len(flows) :
         IF sort.dir = "asc" THEN Column(flows[k - 1], sort.key) <= Column(flows[k], sort.key)
         ELSE Column(flows[k - 1], sort.key) >= Column(flows[k], sort.key)
  BY <1>1, TableInOrder
<1>8. Total(flows, LAMBDA f : f.latency.n) = Total(rows, LAMBDA r : r.latency.n)
  BY <1>3, <1>4
<1> HIDE DEF flows, between, matrix, rows, talkers, tree
<1> QED
  BY <1>2, <1>3, <1>4, <1>5, <1>6, <1>7, <1>8
     DEF FlowsAddUp, flows, between, matrix, rows, talkers, tree

\* For any traffic and any order of the table, the flows, the matrix, the protocol rows,
\* the talkers and the topics of perf.jsx and app.jsx divide the same packets.
THEOREM LedgerAddsUp == Spec => []FlowsAddUp
  BY LedgerHolds, ListsInit, ListsStep, PTL DEF Spec

---------------------------------------------------------------------------
(* SheetKeepsTable *)
(* FlattenSeq and the loop of csvToRows are recursive functions; facts about them need  *)
(* induction over sequences.                                                            *)

\* Induction over sequences by their last element.
LEMMA SeqInduction ==
    ASSUME NEW V, NEW T, <<>> \in T,
           \A s \in Seq(V), x \in V : s \in T => Append(s, x) \in T
    PROVE  Seq(V) \subseteq T
<1> DEFINE N == {n \in Nat : \A s \in Seq(V) : Len(s) = n => s \in T}
<1>1. 0 \in N
  <2>1. ASSUME NEW s \in Seq(V), Len(s) = 0 PROVE s = <<>>
    BY <2>1
  <2> QED
    BY <2>1
<1>2. ASSUME NEW n \in Nat, n \in N PROVE n + 1 \in N
  <2>1. ASSUME NEW s \in Seq(V), Len(s) = n + 1 PROVE s \in T
    <3> DEFINE front == SubSeq(s, 1, n)
    <3>1. front \in Seq(V) /\ Len(front) = n /\ s[n + 1] \in V
      BY <2>1
    <3>2. s = Append(front, s[n + 1])
      <4>1. \A i \in 1..n : front[i] = s[i]
        BY <2>1
      <4> HIDE DEF front
      <4> QED
        BY <2>1, <3>1, <4>1
    <3>3. front \in T
      BY <1>2, <3>1
    <3> HIDE DEF front
    <3> QED
      BY <3>1, <3>2, <3>3
  <2> QED
    BY <2>1
<1>3. Nat \subseteq N
  <2> HIDE DEF N
  <2> QED
    BY <1>1, <1>2, Induction
<1> QED
  BY <1>3

\* The recursive function of FlattenSeq, which is a CHOOSE, by name.
FlattenBody(ss, f) ==
    [i \in 1..Len(ss) |-> IF i = 1 THEN ss[i] ELSE f[i - 1] \o ss[i]]

FlattenFun(ss) == CHOOSE f : f = FlattenBody(ss, f)

\* There is one.
LEMMA FlattenExists ==
    ASSUME NEW ss, Len(ss) \in Nat
    PROVE  \E f : f = FlattenBody(ss, f)
<1> DEFINE Upto(n, f) == \A i \in 1..n : f[i] = IF i = 1 THEN ss[i] ELSE f[i - 1] \o ss[i]
           T == {n \in Nat : \E f : Upto(n, f)}
<1>1. 0 \in T
  OBVIOUS
<1>2. ASSUME NEW n \in Nat, n \in T PROVE n + 1 \in T
  <2>1. PICK f : Upto(n, f)
    BY <1>2
  <2> DEFINE v == IF n + 1 = 1 THEN ss[n + 1] ELSE f[n] \o ss[n + 1]
             g == [i \in 1..n + 1 |-> IF i <= n THEN f[i] ELSE v]
  <2>2. ASSUME NEW i \in 1..n + 1
        PROVE  g[i] = IF i = 1 THEN ss[i] ELSE g[i - 1] \o ss[i]
    <3> HIDE DEF v
    <3>1. CASE i = n + 1
      <4>1. g[i] = v /\ (i # 1 => g[i - 1] = f[n])
        BY <3>1
      <4> QED
        BY <3>1, <4>1 DEF v
    <3>2. CASE i \in 1..n
      <4>1. f[i] = IF i = 1 THEN ss[i] ELSE f[i - 1] \o ss[i]
        BY <2>1, <3>2
      <4>2. g[i] = f[i] /\ (i # 1 => g[i - 1] = f[i - 1])
        BY <3>2
      <4> QED
        BY <4>1, <4>2
    <3> QED
      BY <3>1, <3>2
  <2> HIDE DEF g
  <2> QED
    BY <2>2
<1>3. Len(ss) \in T
  <2> HIDE DEF T
  <2> QED
    BY <1>1, <1>2, Induction
<1>4. PICK f : Upto(Len(ss), f)
  BY <1>3
<1> DEFINE h == [i \in 1..Len(ss) |-> f[i]]
<1>5. \A i \in 1..Len(ss) : h[i] = IF i = 1 THEN ss[i] ELSE h[i - 1] \o ss[i]
  <2> SUFFICES ASSUME NEW i \in 1..Len(ss) PROVE h[i] = IF i = 1 THEN ss[i] ELSE h[i - 1] \o ss[i]
    OBVIOUS
  <2>1. f[i] = IF i = 1 THEN ss[i] ELSE f[i - 1] \o ss[i]
    BY <1>4
  <2>2. h[i] = f[i] /\ (i # 1 => h[i - 1] = f[i - 1])
    OBVIOUS
  <2> QED
    BY <2>1, <2>2
<1>6. h = [i \in 1..Len(ss) |-> h[i]]
  OBVIOUS
<1> HIDE DEF h
<1>7. h = FlattenBody(ss, h)
  BY <1>5, <1>6, Zenon DEF FlattenBody
<1> QED
  BY <1>7

\* FlattenSeq takes one sequence after another.
LEMMA FlattenFunIs ==
    ASSUME NEW ss, Len(ss) \in Nat \ {0}
    PROVE  /\ FlattenSeq(ss) = FlattenFun(ss)[Len(ss)]
           /\ \A i \in 1..Len(ss) :
                 FlattenFun(ss)[i] = IF i = 1 THEN ss[i] ELSE FlattenFun(ss)[i - 1] \o ss[i]
<1> DEFINE f == FlattenFun(ss)
<1>1. f = FlattenBody(ss, f)
  BY FlattenExists DEF FlattenFun
<1>2. FlattenSeq(ss) = f[Len(ss)]
  BY DEF FlattenSeq, FlattenFun, FlattenBody
<1> HIDE DEF f
<1>3. f = [i \in 1..Len(ss) |-> IF i = 1 THEN ss[i] ELSE f[i - 1] \o ss[i]]
  BY <1>1, Zenon DEF FlattenBody
<1>4. \A i \in 1..Len(ss) : f[i] = IF i = 1 THEN ss[i] ELSE f[i - 1] \o ss[i]
  BY <1>3, Zenon
<1> QED
  BY <1>2, <1>4, Zenon DEF f

\* Nothing flattened is nothing.
LEMMA FlattenEmpty == FlattenSeq(<<>>) = <<>>
  BY DEF FlattenSeq

\* A sequence more is a part more.
LEMMA FlattenAppend ==
    ASSUME NEW V, NEW ss \in Seq(Seq(V)), NEW s \in Seq(V)
    PROVE  FlattenSeq(Append(ss, s)) = FlattenSeq(ss) \o s
<1> DEFINE t == Append(ss, s)
           n == Len(ss)
           f == FlattenFun(ss)
           g == FlattenFun(t)
           T == {k \in Nat : k + 1 <= n => g[k + 1] = f[k + 1]}
<1>1. /\ t \in Seq(Seq(V)) /\ n \in Nat /\ Len(t) = n + 1 /\ Len(t) \in Nat \ {0} /\ t[n + 1] = s
      /\ \A i \in 1..n : t[i] = ss[i]
  OBVIOUS
<1>2. FlattenSeq(t) = g[n + 1]
  <2> HIDE DEF t, n
  <2> QED
    BY <1>1, FlattenFunIs
<1>3. \A i \in 1..n + 1 : g[i] = IF i = 1 THEN t[i] ELSE g[i - 1] \o t[i]
  <2> HIDE DEF t, n
  <2> QED
    BY <1>1, FlattenFunIs
<1>4. CASE n = 0
  <2>1. ss = <<>> /\ g[1] = t[1] /\ t[1] = s /\ <<>> \o s = s
    BY <1>1, <1>3, <1>4
  <2>2. FlattenSeq(ss) \o s = s
    BY <2>1, FlattenEmpty
  <2> HIDE DEF t, n, g
  <2>3. n + 1 = 1
    BY <1>4
  <2>4. FlattenSeq(t) = s
    BY <1>2, <2>1, <2>3
  <2> QED
    BY <2>2, <2>4 DEF t
<1>5. CASE n # 0
  <2>1. FlattenSeq(ss) = f[n] /\ \A i \in 1..n : f[i] = IF i = 1 THEN ss[i] ELSE f[i - 1] \o ss[i]
    BY <1>1, <1>5, FlattenFunIs
  <2> HIDE DEF t, n, f, g
  <2>2. 0 \in T
    BY <1>1, <1>3, <2>1
  <2>3. ASSUME NEW k \in Nat, k \in T PROVE k + 1 \in T
    <3>1. ASSUME (k + 1) + 1 <= n PROVE g[(k + 1) + 1] = f[(k + 1) + 1]
      <4> DEFINE i == (k + 1) + 1
      <4>1. i \in 1..n /\ i \in 1..n + 1 /\ i # 1 /\ i - 1 = k + 1
        BY <1>1, <3>1
      <4>2. g[k + 1] = f[k + 1]
        BY <1>1, <2>3, <3>1
      <4> HIDE DEF i
      <4> QED
        BY <1>1, <1>3, <2>1, <4>1, <4>2 DEF i
    <3> QED
      BY <3>1
  <2>4. n - 1 \in Nat /\ (n - 1) + 1 = n
    BY <1>1, <1>5
  <2>5. n - 1 \in T
    <3> HIDE DEF T
    <3> QED
      BY <2>2, <2>3, <2>4, Induction
  <2>6. g[n] = f[n]
    BY <1>1, <2>4, <2>5
  <2>7. n + 1 \in 1..n + 1 /\ n + 1 # 1 /\ (n + 1) - 1 = n
    BY <1>1, <1>5
  <2>8. g[n + 1] = g[n] \o t[n + 1]
    BY <1>3, <2>7
  <2> QED
    BY <1>1, <1>2, <2>1, <2>6, <2>8 DEF t
<1> QED
  BY <1>4, <1>5

\* Flattening two lists of sequences, one behind the other.
LEMMA FlattenConcat ==
    ASSUME NEW V, NEW ss \in Seq(Seq(V)), NEW tt \in Seq(Seq(V))
    PROVE  /\ FlattenSeq(ss) \in Seq(V)
           /\ FlattenSeq(ss \o tt) = FlattenSeq(ss) \o FlattenSeq(tt)
<1> DEFINE N == {uu \in Seq(Seq(V)) : FlattenSeq(uu) \in Seq(V)}
           T == {uu \in Seq(Seq(V)) : FlattenSeq(ss \o uu) = FlattenSeq(ss) \o FlattenSeq(uu)}
<1>0. <<>> \in Seq(V) /\ <<>> \in Seq(Seq(V)) /\ ss \o <<>> = ss
  OBVIOUS
<1>1. <<>> \in N
  BY <1>0, FlattenEmpty
<1>2. ASSUME NEW uu \in Seq(Seq(V)), NEW s \in Seq(V), uu \in N PROVE Append(uu, s) \in N
  <2>1. FlattenSeq(uu) \o s \in Seq(V) /\ Append(uu, s) \in Seq(Seq(V))
    BY <1>2
  <2> QED
    BY <2>1, FlattenAppend
<1>3. Seq(Seq(V)) \subseteq N
  <2> HIDE DEF N
  <2> QED
    BY <1>1, <1>2, SeqInduction
<1>4. FlattenSeq(ss) \o <<>> = FlattenSeq(ss)
  BY <1>3
<1>5. <<>> \in T
  BY <1>0, <1>4, FlattenEmpty, Zenon
<1>6. ASSUME NEW uu \in Seq(Seq(V)), NEW s \in Seq(V), uu \in T PROVE Append(uu, s) \in T
  <2>1. /\ ss \o Append(uu, s) = Append(ss \o uu, s) /\ ss \o uu \in Seq(Seq(V))
        /\ Append(uu, s) \in Seq(Seq(V))
    OBVIOUS
  <2>2. FlattenSeq(Append(ss \o uu, s)) = FlattenSeq(ss \o uu) \o s
    BY <2>1, FlattenAppend
  <2>3. FlattenSeq(Append(uu, s)) = FlattenSeq(uu) \o s
    BY FlattenAppend
  <2>4. FlattenSeq(ss) \in Seq(V) /\ FlattenSeq(uu) \in Seq(V)
    BY <1>3
  <2>5. (FlattenSeq(ss) \o FlattenSeq(uu)) \o s = FlattenSeq(ss) \o (FlattenSeq(uu) \o s)
    BY <2>4
  <2> QED
    BY <1>6, <2>1, <2>2, <2>3, <2>5
<1>7. Seq(Seq(V)) \subseteq T
  <2> HIDE DEF T
  <2> QED
    BY <1>5, <1>6, SeqInduction
<1> QED
  BY <1>3, <1>7

\* The recursive function of CsvToRows, by name.
CsvBody(text, f) ==
    [i \in 0..Len(text) |-> IF i = 0 THEN CsvStart ELSE CsvStep(text, f[i - 1], i)]

After(text) == CHOOSE f : f = CsvBody(text, f)

\* There is one.
LEMMA AfterExists ==
    ASSUME NEW text, Len(text) \in Nat
    PROVE  \E f : f = CsvBody(text, f)
<1> DEFINE Upto(n, f) ==
               \A i \in 0..n : f[i] = IF i = 0 THEN CsvStart ELSE CsvStep(text, f[i - 1], i)
           T == {n \in Nat : \E f : Upto(n, f)}
<1>1. 0 \in T
  <2>1. Upto(0, [i \in 0..0 |-> CsvStart])
    OBVIOUS
  <2> HIDE DEF Upto
  <2> QED
    BY <2>1
<1>2. ASSUME NEW n \in Nat, n \in T PROVE n + 1 \in T
  <2>1. PICK f : Upto(n, f)
    BY <1>2
  <2> DEFINE v == CsvStep(text, f[n], n + 1)
             g == [i \in 0..n + 1 |-> IF i <= n THEN f[i] ELSE v]
  <2>2. ASSUME NEW i \in 0..n + 1
        PROVE  g[i] = IF i = 0 THEN CsvStart ELSE CsvStep(text, g[i - 1], i)
    <3> HIDE DEF v
    <3>1. CASE i = n + 1
      <4>1. g[i] = v /\ g[i - 1] = f[n] /\ i # 0
        BY <3>1
      <4> QED
        BY <3>1, <4>1 DEF v
    <3>2. CASE i \in 0..n
      <4>1. f[i] = IF i = 0 THEN CsvStart ELSE CsvStep(text, f[i - 1], i)
        BY <2>1, <3>2
      <4>2. g[i] = f[i] /\ (i # 0 => g[i - 1] = f[i - 1])
        BY <3>2
      <4> QED
        BY <4>1, <4>2
    <3> QED
      BY <3>1, <3>2
  <2> HIDE DEF g
  <2> QED
    BY <2>2
<1>3. Len(text) \in T
  <2> HIDE DEF T
  <2> QED
    BY <1>1, <1>2, Induction
<1>4. PICK f : Upto(Len(text), f)
  BY <1>3
<1> DEFINE h == [i \in 0..Len(text) |-> f[i]]
<1>5. \A i \in 0..Len(text) : h[i] = IF i = 0 THEN CsvStart ELSE CsvStep(text, h[i - 1], i)
  <2> SUFFICES ASSUME NEW i \in 0..Len(text)
               PROVE  h[i] = IF i = 0 THEN CsvStart ELSE CsvStep(text, h[i - 1], i)
    OBVIOUS
  <2>1. f[i] = IF i = 0 THEN CsvStart ELSE CsvStep(text, f[i - 1], i)
    BY <1>4
  <2>2. h[i] = f[i] /\ (i # 0 => h[i - 1] = f[i - 1])
    OBVIOUS
  <2> HIDE DEF h
  <2> QED
    BY <2>1, <2>2
<1>6. h = [i \in 0..Len(text) |-> h[i]]
  OBVIOUS
<1> HIDE DEF h
<1>7. h = CsvBody(text, h)
  BY <1>5, <1>6, Zenon DEF CsvBody
<1> QED
  BY <1>7

\* It starts at CsvStart, goes on by CsvStep, and CsvToRows ends with it.
LEMMA AfterIs ==
    ASSUME NEW text, Len(text) \in Nat
    PROVE  /\ After(text)[0] = CsvStart
           /\ \A i \in 1..Len(text) : After(text)[i] = CsvStep(text, After(text)[i - 1], i)
           /\ CsvToRows(text) =
                LET end == After(text)[Len(text)]
                IN  IF end.cell # <<>> \/ end.row # <<>> THEN EndRow(end).rows
                    ELSE IF end.rows = <<>> THEN <<<<<<Separator("empty")>>>>>> ELSE end.rows
<1> DEFINE f == After(text)
<1>1. f = CsvBody(text, f)
  BY AfterExists DEF After
<1>2. CsvToRows(text) =
        LET end == f[Len(text)]
        IN  IF end.cell # <<>> \/ end.row # <<>> THEN EndRow(end).rows
            ELSE IF end.rows = <<>> THEN <<<<<<Separator("empty")>>>>>> ELSE end.rows
  BY DEF CsvToRows, After, CsvBody
<1> HIDE DEF f
<1>3. f = [i \in 0..Len(text) |-> IF i = 0 THEN CsvStart ELSE CsvStep(text, f[i - 1], i)]
  BY <1>1, Zenon DEF CsvBody
<1>4. \A i \in 0..Len(text) : f[i] = IF i = 0 THEN CsvStart ELSE CsvStep(text, f[i - 1], i)
  BY <1>3, Zenon
<1>5. 0 \in 0..Len(text) /\ \A i \in 1..Len(text) : i \in 0..Len(text) /\ i # 0
  OBVIOUS
<1>6. f[0] = CsvStart
  BY <1>4, <1>5, Zenon
<1>7. \A i \in 1..Len(text) : f[i] = CsvStep(text, f[i - 1], i)
  BY <1>4, <1>5, Zenon
<1> QED
  BY <1>2, <1>6, <1>7, Zenon DEF f

\* The states of the loop: between two tokens of plain text, and within quotes.
Plain(rows, row, cell) ==
    [rows |-> rows, row |-> row, cell |-> cell, quoted |-> FALSE, skip |-> FALSE]
Inside(rows, row, cell) ==
    [rows |-> rows, row |-> row, cell |-> cell, quoted |-> TRUE, skip |-> FALSE]

\* What the loop makes of each token.
LEMMA CsvSteps ==
    ASSUME NEW text, NEW i, NEW rows, NEW row, NEW cell
    PROVE  /\ text[i].is = "value" =>
                 /\ CsvStep(text, Plain(rows, row, cell), i) = Plain(rows, row, Append(cell, text[i]))
                 /\ CsvStep(text, Inside(rows, row, cell), i) = Inside(rows, row, Append(cell, text[i]))
           /\ text[i].is = "quote" =>
                 /\ CsvStep(text, Plain(rows, row, cell), i) = Inside(rows, row, cell)
                 /\ text[i + 1].is # "quote" =>
                       CsvStep(text, Inside(rows, row, cell), i) = Plain(rows, row, cell)
           /\ text[i].is = "comma" =>
                 CsvStep(text, Plain(rows, row, cell), i) = Plain(rows, Append(row, cell), <<>>)
           /\ text[i].is = "newline" =>
                 CsvStep(text, Plain(rows, row, cell), i)
                    = Plain(Append(rows, Append(row, cell)), <<>>, <<>>)
           /\ text[i].is = "return" =>
                 CsvStep(text, Plain(rows, row, cell), i) = Plain(rows, row, cell)
  BY DEF CsvStep, Plain, Inside, EndRow

\* s stands in the text behind its first k tokens.
Stands(text, k, s) ==
    Len(text) \in Nat /\ k + Len(s) <= Len(text) /\ \A i \in 1..Len(s) : text[k + i] = s[i]

\* The elements of two sequences, one behind the other.
LEMMA Joined ==
    ASSUME NEW V, NEW s \in Seq(V), NEW t \in Seq(V)
    PROVE  /\ s \o t \in Seq(V) /\ Len(s \o t) = Len(s) + Len(t)
           /\ Len(s) \in Nat /\ Len(t) \in Nat /\ DOMAIN (s \o t) = 1..Len(s) + Len(t)
           /\ \A i \in 1..Len(s) + Len(t) : (s \o t)[i] = IF i <= Len(s) THEN s[i] ELSE t[i - Len(s)]
  OBVIOUS

\* Each of two parts stands in the text.
LEMMA StandsApart ==
    ASSUME NEW V, NEW a \in Seq(V), NEW b \in Seq(V), NEW text, NEW k \in Nat,
           Stands(text, k, a \o b)
    PROVE  Stands(text, k, a) /\ Stands(text, k + Len(a), b) /\ k + Len(a) \in Nat
<1>1. Len(a \o b) = Len(a) + Len(b) /\ Len(a) \in Nat /\ Len(b) \in Nat
  OBVIOUS
<1>2. \A i \in 1..Len(a) : (a \o b)[i] = a[i] /\ i \in 1..Len(a \o b)
  BY <1>1
<1>3. \A i \in 1..Len(b) : (a \o b)[Len(a) + i] = b[i] /\ Len(a) + i \in 1..Len(a \o b)
  BY <1>1
<1>4. \A i \in 1..Len(a \o b) : text[k + i] = (a \o b)[i]
  BY DEF Stands
<1>5. Len(text) \in Nat /\ k + Len(a \o b) <= Len(text)
  BY DEF Stands
<1> DEFINE c == a \o b
<1> HIDE DEF c
<1>6. \A i \in 1..Len(a) : text[k + i] = a[i]
  BY <1>2, <1>4 DEF c
<1>7. ASSUME NEW i \in 1..Len(b) PROVE text[(k + Len(a)) + i] = b[i]
  <2>1. (k + Len(a)) + i = k + (Len(a) + i)
    BY <1>1
  <2>2. text[k + (Len(a) + i)] = (a \o b)[Len(a) + i]
    BY <1>3, <1>4
  <2> QED
    BY <1>3, <2>1, <2>2
<1>8. k + Len(a) <= Len(text) /\ (k + Len(a)) + Len(b) <= Len(text) /\ k + Len(a) \in Nat
  BY <1>1, <1>5
<1> QED
  BY <1>5, <1>6, <1>7, <1>8 DEF Stands

\* Tokens with the cells of X, as the page writes them and as another writer may.
CsvTokens(X) ==
    {Cell(x) : x \in X} \cup {Separator(name) : name \in {"comma", "newline", "quote", "return"}}

\* What another writer makes of a token.
Quoting(token) ==
    CASE token.is = "value" -> <<Separator("quote"), token, Separator("quote")>>
      [] token.is = "newline" -> <<Separator("return"), token>>
      [] OTHER -> <<token>>

\* The page's text, and that of another writer.
Styles == {"plain", "quoted"}

\* A text in either style.
Written(q, text) ==
    IF q = "quoted" THEN FlattenSeq([i \in DOMAIN text |-> Quoting(text[i])]) ELSE text

\* It writes tokens.
LEMMA QuotingType == \A X : \A t \in CsvTokens(X) : Quoting(t) \in Seq(CsvTokens(X))
<1> SUFFICES ASSUME NEW X, NEW t \in CsvTokens(X) PROVE Quoting(t) \in Seq(CsvTokens(X))
  OBVIOUS
<1>1. Separator("quote") \in CsvTokens(X) /\ Separator("return") \in CsvTokens(X)
  BY DEF CsvTokens
<1> QED
  BY <1>1 DEF Quoting

LEMMA QuotingsType ==
    ASSUME NEW X, NEW a \in Seq(CsvTokens(X))
    PROVE  [i \in DOMAIN a |-> Quoting(a[i])] \in Seq(Seq(CsvTokens(X)))
<1>1. DOMAIN a = 1..Len(a) /\ Len(a) \in Nat /\ \A i \in DOMAIN a : a[i] \in CsvTokens(X)
  OBVIOUS
<1>2. \A i \in DOMAIN a : Quoting(a[i]) \in Seq(CsvTokens(X))
  BY <1>1, QuotingType
<1> QED
  BY <1>1, <1>2

\* What is written of two parts is what is written of each.
LEMMA WrittenParts ==
    ASSUME NEW X, NEW a \in Seq(CsvTokens(X)), NEW b \in Seq(CsvTokens(X)), NEW q \in Styles
    PROVE  /\ Written(q, a) \in Seq(CsvTokens(X))
           /\ Written(q, a \o b) = Written(q, a) \o Written(q, b)
<1> DEFINE Q(t) == [i \in DOMAIN t |-> Quoting(t[i])]
<1>1. a \o b \in Seq(CsvTokens(X))
  OBVIOUS
<1>2. Q(a) \in Seq(Seq(CsvTokens(X))) /\ Q(b) \in Seq(Seq(CsvTokens(X)))
  BY QuotingsType
<1>3. Q(a \o b) = Q(a) \o Q(b)
  <2> DEFINE c == a \o b
             d == Q(a) \o Q(b)
  <2>1. /\ DOMAIN c = 1..Len(a) + Len(b) /\ Len(a) \in Nat /\ Len(b) \in Nat
        /\ DOMAIN a = 1..Len(a) /\ DOMAIN b = 1..Len(b)
        /\ \A i \in 1..Len(a) + Len(b) : c[i] = IF i <= Len(a) THEN a[i] ELSE b[i - Len(a)]
    OBVIOUS
  <2>2. Len(Q(a)) = Len(a) /\ Len(Q(b)) = Len(b)
    BY <2>1
  <2>3. /\ d \in Seq(Seq(CsvTokens(X))) /\ Len(d) = Len(a) + Len(b) /\ DOMAIN d = 1..Len(a) + Len(b)
        /\ \A i \in 1..Len(a) + Len(b) : d[i] = IF i <= Len(a) THEN Q(a)[i] ELSE Q(b)[i - Len(a)]
    <3> DEFINE qa == Q(a)
               qb == Q(b)
    <3> HIDE DEF qa, qb
    <3>1. qa \in Seq(Seq(CsvTokens(X))) /\ qb \in Seq(Seq(CsvTokens(X))) /\ d = qa \o qb
          /\ Len(qa) = Len(a) /\ Len(qb) = Len(b)
      BY <1>2, <2>2 DEF qa, qb
    <3> DEFINE e == qa \o qb
    <3>3. /\ e \in Seq(Seq(CsvTokens(X))) /\ Len(e) = Len(qa) + Len(qb) /\ DOMAIN e = 1..Len(qa) + Len(qb)
          /\ \A i \in 1..Len(qa) + Len(qb) : e[i] = IF i <= Len(qa) THEN qa[i] ELSE qb[i - Len(qa)]
      <4> HIDE DEF d
      <4> QED
        BY <3>1, Joined
    <3>4. d = e
      BY <3>1
    <3> HIDE DEF e
    <3> HIDE DEF d
    <3>2. /\ d \in Seq(Seq(CsvTokens(X))) /\ Len(d) = Len(a) + Len(b) /\ DOMAIN d = 1..Len(a) + Len(b)
          /\ \A i \in 1..Len(a) + Len(b) : d[i] = IF i <= Len(a) THEN qa[i] ELSE qb[i - Len(a)]
      BY <3>1, <3>3, <3>4
    <3> QED
      BY <3>2 DEF qa, qb
  <2>4. \A i \in 1..Len(a) + Len(b) : Q(c)[i] = Quoting(c[i])
    BY <2>1
  <2>5. ASSUME NEW i \in 1..Len(a) + Len(b) PROVE Q(c)[i] = d[i]
    <3>1. CASE i <= Len(a)
      <4>1. i \in DOMAIN a
        BY <2>1, <3>1
      <4>2. Q(a)[i] = Quoting(a[i])
        BY <4>1
      <4>3. c[i] = a[i] /\ d[i] = Q(a)[i]
        BY <2>1, <2>3, <3>1
      <4> HIDE DEF c, d, Q
      <4> QED
        BY <2>4, <4>2, <4>3
    <3>2. CASE ~(i <= Len(a))
      <4>1. i - Len(a) \in DOMAIN b
        BY <2>1, <3>2
      <4>2. Q(b)[i - Len(a)] = Quoting(b[i - Len(a)])
        BY <4>1
      <4>3. c[i] = b[i - Len(a)] /\ d[i] = Q(b)[i - Len(a)]
        BY <2>1, <2>3, <3>2
      <4> HIDE DEF c, d, Q
      <4> QED
        BY <2>4, <4>2, <4>3
    <3> QED
      BY <3>1, <3>2
  <2>6. d = [i \in 1..Len(a) + Len(b) |-> d[i]]
    <3> HIDE DEF d
    <3> QED
      BY <2>3
  <2>7. Q(c) = [i \in 1..Len(a) + Len(b) |-> Quoting(c[i])]
    BY <2>1
  <2> HIDE DEF d, c, Q
  <2>8. Q(c) = d
    BY <2>4, <2>5, <2>6, <2>7
  <2> QED
    BY <2>8 DEF c, d
<1>4. FlattenSeq(Q(a)) \in Seq(CsvTokens(X)) /\ FlattenSeq(Q(a \o b)) = FlattenSeq(Q(a)) \o FlattenSeq(Q(b))
  <2> HIDE DEF Q
  <2> QED
    BY <1>2, <1>3, FlattenConcat
<1> QED
  BY <1>4 DEF Written

\* What is written of one token.
LEMMA WrittenToken ==
    ASSUME NEW X, NEW t \in CsvTokens(X), NEW q \in Styles
    PROVE  Written(q, <<t>>) = IF q = "quoted" THEN Quoting(t) ELSE <<t>>
<1>1. Quoting(t) \in Seq(CsvTokens(X)) /\ <<>> \in Seq(Seq(CsvTokens(X)))
  BY QuotingType
<1>2. FlattenSeq(Append(<<>>, Quoting(t))) = FlattenSeq(<<>>) \o Quoting(t)
  BY <1>1, FlattenAppend
<1>3. <<>> \o Quoting(t) = Quoting(t) /\ Append(<<>>, Quoting(t)) = <<Quoting(t)>>
  BY <1>1
<1>4. [i \in DOMAIN <<t>> |-> Quoting(<<t>>[i])] = <<Quoting(t)>>
  OBVIOUS
<1> QED
  BY <1>2, <1>3, <1>4, FlattenEmpty DEF Written

\* Behind k tokens the loop is between two cells of a line, or at the end of one.
At(text, k, rows, row, cell) == After(text)[k] = Plain(rows, row, cell)

\* A cell read, in quotes or not.
LEMMA ReadCell ==
    ASSUME NEW X, NEW x \in X, NEW q \in Styles, NEW text, NEW k \in Nat, NEW rows, NEW row,
           Stands(text, k, Written(q, <<Cell(x)>>)), At(text, k, rows, row, <<>>),
           text[k + Len(Written(q, <<Cell(x)>>)) + 1].is # "quote"
    PROVE  At(text, k + Len(Written(q, <<Cell(x)>>)), rows, row, <<Cell(x)>>)
<1> DEFINE w == Written(q, <<Cell(x)>>)
<1>1. w = IF q = "quoted" THEN <<Separator("quote"), Cell(x), Separator("quote")>> ELSE <<Cell(x)>>
  <2>1. Cell(x) \in CsvTokens(X) /\ Cell(x).is = "value"
    BY DEF CsvTokens, Cell
  <2> QED
    BY <2>1, WrittenToken DEF Quoting
<1>2. /\ Len(text) \in Nat /\ k + Len(w) <= Len(text)
      /\ \A i \in 1..Len(w) : text[k + i] = w[i]
      /\ text[k + Len(w) + 1].is # "quote"
  BY DEF Stands
<1>3. Separator("quote").is = "quote" /\ Cell(x).is = "value"
  BY DEF Separator, Cell
<1> DEFINE none == <<>>
<1>4. Append(none, Cell(x)) = <<Cell(x)>>
  OBVIOUS
<1>8. At(text, k, rows, row, none)
  OBVIOUS
<1> HIDE DEF w, none
<1>5. \A i \in 1..Len(text) : After(text)[i] = CsvStep(text, After(text)[i - 1], i)
  BY <1>2, AfterIs
<1>6. CASE q # "quoted"
  <2>1. Len(w) = 1 /\ text[k + 1] = Cell(x) /\ k + 1 \in 1..Len(text) /\ (k + 1) - 1 = k
    BY <1>1, <1>2, <1>6
  <2>2. After(text)[k + 1] = CsvStep(text, Plain(rows, row, none), k + 1)
    BY <1>5, <1>8, <2>1 DEF At
  <2>3. text[k + 1].is = "value"
    BY <1>3, <2>1
  <2>4. CsvStep(text, Plain(rows, row, none), k + 1) = Plain(rows, row, Append(none, text[k + 1]))
    BY <2>3, CsvSteps
  <2> QED
    BY <1>4, <2>1, <2>2, <2>4 DEF At, w
<1>7. CASE q = "quoted"
  <2>1. Len(w) = 3
    BY <1>1, <1>7
  <2>2. /\ w[1] = Separator("quote") /\ w[2] = Cell(x) /\ w[3] = Separator("quote")
        /\ 1 \in 1..3 /\ 2 \in 1..3 /\ 3 \in 1..3
    BY <1>1, <1>7
  <2>3. text[k + 1].is = "quote" /\ text[k + 2] = Cell(x) /\ text[k + 3].is = "quote"
    BY <1>2, <1>3, <2>1, <2>2
  <2>4. /\ k + 1 \in 1..Len(text) /\ k + 2 \in 1..Len(text) /\ k + 3 \in 1..Len(text)
        /\ (k + 1) - 1 = k /\ (k + 2) - 1 = k + 1 /\ (k + 3) - 1 = k + 2 /\ k + 3 + 1 = (k + 3) + 1
    BY <1>2, <2>1
  <2>5. After(text)[k + 1] = Inside(rows, row, none)
    <3>1. After(text)[k + 1] = CsvStep(text, Plain(rows, row, none), k + 1)
      BY <1>5, <1>8, <2>4 DEF At
    <3> QED
      BY <2>3, <3>1, CsvSteps
  <2>6. After(text)[k + 2] = Inside(rows, row, Append(none, Cell(x)))
    <3>1. After(text)[k + 2] = CsvStep(text, Inside(rows, row, none), k + 2)
      BY <1>5, <2>4, <2>5
    <3>2. text[k + 2].is = "value"
      BY <1>3, <2>3
    <3>3. CsvStep(text, Inside(rows, row, none), k + 2) = Inside(rows, row, Append(none, text[k + 2]))
      BY <3>2, CsvSteps
    <3> QED
      BY <2>3, <3>1, <3>3
  <2>7. After(text)[k + 3] = Plain(rows, row, <<Cell(x)>>)
    <3>1. After(text)[k + 3] = CsvStep(text, Inside(rows, row, <<Cell(x)>>), k + 3)
      BY <1>4, <1>5, <2>4, <2>6
    <3>2. text[(k + 3) + 1].is # "quote"
      BY <1>2, <2>1
    <3> QED
      BY <2>3, <3>1, <3>2, CsvSteps
  <2> QED
    BY <2>1, <2>7 DEF At, w
<1> QED
  BY <1>6, <1>7

\* A comma ends a cell; it is no quote.
LEMMA ReadComma ==
    ASSUME NEW X, NEW q \in Styles, NEW text, NEW k \in Nat, NEW rows, NEW row, NEW cell,
           Stands(text, k, Written(q, <<Separator("comma")>>))
    PROVE  /\ Len(Written(q, <<Separator("comma")>>)) = 1
           /\ text[k + 1].is # "quote"
           /\ At(text, k, rows, row, cell) => At(text, k + 1, rows, Append(row, cell), <<>>)
<1> DEFINE w == Written(q, <<Separator("comma")>>)
<1>1. w = <<Separator("comma")>>
  <2>1. Separator("comma") \in CsvTokens(X) /\ Separator("comma").is = "comma"
    BY DEF CsvTokens, Separator
  <2> QED
    BY <2>1, WrittenToken DEF Quoting
<1> HIDE DEF w
<1>2. Len(w) = 1 /\ w[1] = Separator("comma")
  BY <1>1
<1>3. Len(text) \in Nat /\ k + 1 \in 1..Len(text) /\ text[k + 1] = Separator("comma") /\ (k + 1) - 1 = k
  <2>1. Stands(text, k, w)
    BY DEF w
  <2> QED
    BY <1>2, <2>1 DEF Stands
<1>4. text[k + 1].is = "comma"
  BY <1>3 DEF Separator
<1>5. ASSUME At(text, k, rows, row, cell) PROVE At(text, k + 1, rows, Append(row, cell), <<>>)
  <2>1. After(text)[k + 1] = CsvStep(text, Plain(rows, row, cell), k + 1)
    BY <1>3, <1>5, AfterIs DEF At
  <2> QED
    BY <1>4, <2>1, CsvSteps DEF At
<1> QED
  BY <1>2, <1>4, <1>5 DEF w

\* A newline ends a line, with a return before it or not.
LEMMA ReadNewline ==
    ASSUME NEW X, NEW q \in Styles, NEW text, NEW k \in Nat, NEW rows, NEW row, NEW cell,
           Stands(text, k, Written(q, <<Separator("newline")>>))
    PROVE  /\ text[k + 1].is # "quote"
           /\ At(text, k, rows, row, cell) =>
                 At(text, k + Len(Written(q, <<Separator("newline")>>)),
                    Append(rows, Append(row, cell)), <<>>, <<>>)
<1> DEFINE w == Written(q, <<Separator("newline")>>)
<1>1. w = IF q = "quoted" THEN <<Separator("return"), Separator("newline")>> ELSE <<Separator("newline")>>
  <2>1. Separator("newline") \in CsvTokens(X) /\ Separator("newline").is = "newline"
    BY DEF CsvTokens, Separator
  <2> QED
    BY <2>1, WrittenToken DEF Quoting
<1>2. Separator("return").is = "return" /\ Separator("newline").is = "newline"
  BY DEF Separator
<1>3. Stands(text, k, w)
  OBVIOUS
<1> HIDE DEF w
<1>4. Len(text) \in Nat /\ \A i \in 1..Len(text) : After(text)[i] = CsvStep(text, After(text)[i - 1], i)
  BY <1>3, AfterIs DEF Stands
<1>5. CASE q # "quoted"
  <2>1. Len(w) = 1 /\ w[1] = Separator("newline")
    BY <1>1, <1>5
  <2>2. k + 1 \in 1..Len(text) /\ text[k + 1].is = "newline" /\ (k + 1) - 1 = k
    BY <1>2, <1>3, <1>4, <2>1 DEF Stands
  <2>3. ASSUME At(text, k, rows, row, cell)
        PROVE  At(text, k + 1, Append(rows, Append(row, cell)), <<>>, <<>>)
    <3>1. After(text)[k + 1] = CsvStep(text, Plain(rows, row, cell), k + 1)
      BY <1>4, <2>2, <2>3 DEF At
    <3> QED
      BY <2>2, <3>1, CsvSteps DEF At
  <2> QED
    BY <2>1, <2>2, <2>3 DEF w
<1>6. CASE q = "quoted"
  <2>1. Len(w) = 2
    BY <1>1, <1>6
  <2>2. w[1] = Separator("return") /\ w[2] = Separator("newline") /\ 1 \in 1..2 /\ 2 \in 1..2
    BY <1>1, <1>6
  <2>3. text[k + 1].is = "return" /\ text[k + 2].is = "newline"
    BY <1>2, <1>3, <2>1, <2>2 DEF Stands
  <2>4. k + 1 \in 1..Len(text) /\ k + 2 \in 1..Len(text) /\ (k + 1) - 1 = k /\ (k + 2) - 1 = k + 1
    BY <1>3, <1>4, <2>1 DEF Stands
  <2>5. ASSUME At(text, k, rows, row, cell)
        PROVE  At(text, k + 2, Append(rows, Append(row, cell)), <<>>, <<>>)
    <3>1. After(text)[k + 1] = CsvStep(text, Plain(rows, row, cell), k + 1)
      BY <1>4, <2>4, <2>5 DEF At
    <3>2. After(text)[k + 1] = Plain(rows, row, cell)
      BY <2>3, <3>1, CsvSteps
    <3>3. After(text)[k + 2] = CsvStep(text, Plain(rows, row, cell), k + 2)
      BY <1>4, <2>4, <3>2
    <3> QED
      BY <2>3, <3>3, CsvSteps DEF At
  <2> QED
    BY <2>1, <2>3, <2>5 DEF w
<1> QED
  BY <1>5, <1>6

\* All but the last element.
LEMMA FrontIs ==
    ASSUME NEW V, NEW s \in Seq(V), Len(s) > 0
    PROVE  /\ Front(s) \in Seq(V) /\ Len(Front(s)) = Len(s) - 1
           /\ \A i \in 1..Len(s) - 1 : Front(s)[i] = s[i]
<1> DEFINE n == Len(s) - 1
<1>1. n \in Int /\ 1 \in Int /\ n >= 0 /\ \A i \in 1..n : s[i] \in V
  OBVIOUS
<1> HIDE DEF n
<1>2. /\ SubSeq(s, 1, n) \in Seq(V) /\ Len(SubSeq(s, 1, n)) = IF 1 <= n THEN n - 1 + 1 ELSE 0
      /\ \A i \in 1..n - 1 + 1 : SubSeq(s, 1, n)[i] = s[1 + i - 1]
  BY <1>1, SubSeqProperties
<1>3. n - 1 + 1 = n /\ (~(1 <= n) => n = 0) /\ \A i \in 1..n : 1 + i - 1 = i
  BY <1>1
<1>4. Front(s) = SubSeq(s, 1, n)
  BY DEF Front, n
<1> QED
  BY <1>2, <1>3, <1>4 DEF n

\* A line of three cells, token by token.
LEMMA LineIs ==
    ASSUME NEW X, NEW a \in X, NEW b \in X, NEW c \in X
    PROVE  /\ CsvLine(<<a, b, c>>) =
                <<Cell(a)>> \o (<<Separator("comma")>> \o (<<Cell(b)>> \o (<<Separator("comma")>>
                  \o (<<Cell(c)>> \o <<Separator("newline")>>))))
           /\ CsvLine(<<a, b, c>>) \in Seq(CsvTokens(X))
<1> DEFINE V == CsvTokens(X)
           C == Separator("comma")
           N == Separator("newline")
           ss == [i \in DOMAIN <<a, b, c>> |-> <<Cell(<<a, b, c>>[i]), C>>]
           pa == <<Cell(a), C>>
           pb == <<Cell(b), C>>
           pc == <<Cell(c), C>>
<1>1. /\ Cell(a) \in V /\ Cell(b) \in V /\ Cell(c) \in V /\ C \in V /\ N \in V
  BY DEF CsvTokens
<1>2. CsvLine(<<a, b, c>>) = Append(Front(FlattenSeq(ss)), N)
  BY DEF CsvLine
<1>3. Len(ss) = 3 /\ ss[1] = pa /\ ss[2] = pb /\ ss[3] = pc
  OBVIOUS
<1>4. FlattenSeq(ss) = (pa \o pb) \o pc
  <2>1. /\ FlattenSeq(ss) = FlattenFun(ss)[3]
        /\ \A i \in 1..3 : FlattenFun(ss)[i] = IF i = 1 THEN ss[i] ELSE FlattenFun(ss)[i - 1] \o ss[i]
    <3> HIDE DEF ss
    <3>1. Len(ss) \in Nat \ {0}
      BY <1>3
    <3>2. /\ FlattenSeq(ss) = FlattenFun(ss)[Len(ss)]
          /\ \A i \in 1..Len(ss) :
                FlattenFun(ss)[i] = IF i = 1 THEN ss[i] ELSE FlattenFun(ss)[i - 1] \o ss[i]
      BY <3>1, FlattenFunIs
    <3> QED
      BY <1>3, <3>2
  <2> HIDE DEF ss, pa, pb, pc
  <2>2. FlattenFun(ss)[1] = pa
    BY <1>3, <2>1
  <2>3. FlattenFun(ss)[2] = FlattenFun(ss)[1] \o pb
    BY <1>3, <2>1
  <2>4. FlattenFun(ss)[3] = FlattenFun(ss)[2] \o pc
    BY <1>3, <2>1
  <2> QED
    BY <2>1, <2>2, <2>3, <2>4
<1> HIDE DEF ss
<1>5. /\ pa \in Seq(V) /\ pb \in Seq(V) /\ pc \in Seq(V) /\ Len(pa) = 2 /\ Len(pb) = 2 /\ Len(pc) = 2
      /\ pa[1] = Cell(a) /\ pa[2] = C /\ pb[1] = Cell(b) /\ pb[2] = C /\ pc[1] = Cell(c) /\ pc[2] = C
  <2> HIDE DEF V, C
  <2> QED
    BY <1>1
<1> DEFINE u == Append(Front((pa \o pb) \o pc), N)
           w == <<Cell(a)>> \o (<<C>> \o (<<Cell(b)>> \o (<<C>> \o (<<Cell(c)>> \o <<N>>))))
<1>6. /\ u \in Seq(V) /\ Len(u) = 6
      /\ u[1] = Cell(a) /\ u[2] = C /\ u[3] = Cell(b) /\ u[4] = C /\ u[5] = Cell(c) /\ u[6] = N
  <2> HIDE DEF V, C, N, pa, pb, pc
  <2> DEFINE pab == pa \o pb
             p == pab \o pc
  <2>1. /\ pab \in Seq(V) /\ Len(pab) = Len(pa) + Len(pb)
        /\ \A i \in 1..Len(pa) + Len(pb) : pab[i] = IF i <= Len(pa) THEN pa[i] ELSE pb[i - Len(pa)]
    <3>1. pa \in Seq(V) /\ pb \in Seq(V)
      BY <1>5
    <3> QED
      BY <3>1, Joined
  <2> HIDE DEF pab
  <2>1a. /\ pab \in Seq(V) /\ Len(pab) = 4
        /\ pab[1] = Cell(a) /\ pab[2] = C /\ pab[3] = Cell(b) /\ pab[4] = C
    BY <1>5, <2>1
  <2>1b. /\ p \in Seq(V) /\ Len(p) = Len(pab) + Len(pc)
         /\ \A i \in 1..Len(pab) + Len(pc) : p[i] = IF i <= Len(pab) THEN pab[i] ELSE pc[i - Len(pab)]
    <3>1. pab \in Seq(V) /\ pc \in Seq(V)
      BY <1>5, <2>1
    <3> QED
      BY <3>1, Joined
  <2> HIDE DEF p
  <2>2. /\ p \in Seq(V) /\ Len(p) = 6
        /\ p[1] = Cell(a) /\ p[2] = C /\ p[3] = Cell(b) /\ p[4] = C /\ p[5] = Cell(c)
    BY <1>5, <2>1a, <2>1b
  <2> DEFINE f == Front(p)
  <2>3. f \in Seq(V) /\ Len(f) = Len(p) - 1 /\ \A i \in 1..Len(p) - 1 : f[i] = p[i]
    <3>1. p \in Seq(V) /\ Len(p) > 0
      BY <2>2
    <3> QED
      BY <3>1, FrontIs
  <2>5. u = Append(f, N)
    BY DEF p, pab
  <2> HIDE DEF u, f
  <2>4. f \in Seq(V) /\ Len(f) = 5 /\ \A i \in 1..5 : f[i] = p[i]
    BY <2>2, <2>3
  <2>6. f[1] = p[1] /\ f[2] = p[2] /\ f[3] = p[3] /\ f[4] = p[4] /\ f[5] = p[5]
    BY <2>4
  <2>7. N \in V
    BY <1>1
  <2>8. u \in Seq(V) /\ Len(u) = 6 /\ u[6] = N /\ \A i \in 1..5 : u[i] = f[i]
    <3>1. \A s \in Seq(V) : \A x \in V :
             /\ Append(s, x) \in Seq(V) /\ Len(Append(s, x)) = Len(s) + 1
             /\ Append(s, x)[Len(s) + 1] = x /\ \A i \in 1..Len(s) : Append(s, x)[i] = s[i]
      OBVIOUS
    <3>2. /\ u \in Seq(V) /\ Len(u) = Len(f) + 1 /\ u[Len(f) + 1] = N
          /\ \A i \in 1..Len(f) : u[i] = f[i]
      BY <2>4, <2>5, <2>7, <3>1, Zenon
    <3> QED
      BY <2>4, <3>2
  <2>9. u[1] = f[1] /\ u[2] = f[2] /\ u[3] = f[3] /\ u[4] = f[4] /\ u[5] = f[5]
    BY <2>8
  <2> QED
    BY <2>2, <2>6, <2>8, <2>9
<1>7. /\ w \in Seq(V) /\ Len(w) = 6
      /\ w[1] = Cell(a) /\ w[2] = C /\ w[3] = Cell(b) /\ w[4] = C /\ w[5] = Cell(c) /\ w[6] = N
  <2>1. \A x \in V : <<x>> \in Seq(V) /\ Len(<<x>>) = 1 /\ <<x>>[1] = x
    OBVIOUS
  <2>2. \A x \in V : \A s \in Seq(V) :
           /\ <<x>> \o s \in Seq(V) /\ Len(<<x>> \o s) = Len(s) + 1 /\ (<<x>> \o s)[1] = x
           /\ \A i \in 2..Len(s) + 1 : (<<x>> \o s)[i] = s[i - 1]
    OBVIOUS
  <2> DEFINE s1 == <<N>>
             s2 == <<Cell(c)>> \o s1
             s3 == <<C>> \o s2
             s4 == <<Cell(b)>> \o s3
             s5 == <<C>> \o s4
  <2> HIDE DEF V, C, N, pa, pb, pc
  <2>3. s1 \in Seq(V) /\ Len(s1) = 1 /\ s1[1] = N
    BY <1>1, <2>1
  <2> HIDE DEF s1
  <2>4. s2 \in Seq(V) /\ Len(s2) = 2 /\ s2[1] = Cell(c) /\ s2[2] = N
    BY <1>1, <2>2, <2>3
  <2> HIDE DEF s2
  <2>5. s3 \in Seq(V) /\ Len(s3) = 3 /\ s3[1] = C /\ s3[2] = Cell(c) /\ s3[3] = N
    <3>1. /\ s3 \in Seq(V) /\ Len(s3) = Len(s2) + 1 /\ s3[1] = C
          /\ \A i \in 2..Len(s2) + 1 : s3[i] = s2[i - 1]
      BY <1>1, <2>2, <2>4
    <3> HIDE DEF s3
    <3> QED
      BY <3>1, <2>4
  <2> HIDE DEF s3
  <2>6. s4 \in Seq(V) /\ Len(s4) = 4 /\ s4[1] = Cell(b) /\ s4[2] = C /\ s4[3] = Cell(c) /\ s4[4] = N
    <3>1. /\ s4 \in Seq(V) /\ Len(s4) = Len(s3) + 1 /\ s4[1] = Cell(b)
          /\ \A i \in 2..Len(s3) + 1 : s4[i] = s3[i - 1]
      BY <1>1, <2>2, <2>5
    <3> HIDE DEF s4
    <3> QED
      BY <3>1, <2>5
  <2> HIDE DEF s4
  <2>7. s5 \in Seq(V) /\ Len(s5) = 5 /\ s5[1] = C /\ s5[2] = Cell(b) /\ s5[3] = C /\ s5[4] = Cell(c) /\ s5[5] = N
    <3>1. /\ s5 \in Seq(V) /\ Len(s5) = Len(s4) + 1 /\ s5[1] = C
          /\ \A i \in 2..Len(s4) + 1 : s5[i] = s4[i - 1]
      BY <1>1, <2>2, <2>6
    <3> HIDE DEF s5
    <3> QED
      BY <3>1, <2>6
  <2> HIDE DEF s5
  <2>8. w = <<Cell(a)>> \o s5
    BY DEF s1, s2, s3, s4, s5
  <2> HIDE DEF w
  <2> QED
    BY <1>1, <2>2, <2>7, <2>8
<1>8. u = w
  <2> HIDE DEF u, w, V, C, N
  <2>1. \A i \in 1..6 : u[i] = w[i]
    <3>1. \A i \in 1..6 : i = 1 \/ i = 2 \/ i = 3 \/ i = 4 \/ i = 5 \/ i = 6
      OBVIOUS
    <3> QED
      BY <1>6, <1>7, <3>1
  <2>2. u = [i \in 1..6 |-> u[i]] /\ w = [i \in 1..6 |-> w[i]]
    BY <1>6, <1>7
  <2> QED
    BY <2>1, <2>2, Zenon
<1>9. CsvLine(<<a, b, c>>) = u
  BY <1>2, <1>4
<1> QED
  BY <1>7, <1>8, <1>9

\* Two parts, written one behind the other.
LEMMA StandsWritten ==
    ASSUME NEW X, NEW s \in Seq(CsvTokens(X)), NEW t \in Seq(CsvTokens(X)), NEW q \in Styles,
           NEW text, NEW k \in Nat, Stands(text, k, Written(q, s \o t))
    PROVE  /\ Stands(text, k, Written(q, s)) /\ Stands(text, k + Len(Written(q, s)), Written(q, t))
           /\ k + Len(Written(q, s)) \in Nat
           /\ k + Len(Written(q, s \o t)) = (k + Len(Written(q, s))) + Len(Written(q, t))
<1> DEFINE a == Written(q, s)
           b == Written(q, t)
<1>1. a \in Seq(CsvTokens(X)) /\ b \in Seq(CsvTokens(X)) /\ Written(q, s \o t) = a \o b
  BY WrittenParts
<1> HIDE DEF a, b
<1>2. Stands(text, k, a \o b)
  BY <1>1
<1>3. Stands(text, k, a) /\ Stands(text, k + Len(a), b) /\ k + Len(a) \in Nat
  BY <1>1, <1>2, StandsApart
<1>4. Len(a \o b) = Len(a) + Len(b) /\ Len(a) \in Nat /\ Len(b) \in Nat
  BY <1>1
<1>5. k + Len(a \o b) = (k + Len(a)) + Len(b)
  BY <1>4
<1> QED
  BY <1>1, <1>3, <1>5 DEF a, b

\* The elements of a sequence with one more.
LEMMA Appended ==
    ASSUME NEW V, NEW s \in Seq(V), NEW x \in V
    PROVE  /\ Append(s, x) \in Seq(V) /\ Len(Append(s, x)) = Len(s) + 1
           /\ Append(s, x)[Len(s) + 1] = x /\ \A i \in 1..Len(s) : Append(s, x)[i] = s[i]
  OBVIOUS

\* A row of three, made by appending.
LEMMA ThreeAppended ==
    ASSUME NEW x, NEW y, NEW z
    PROVE  Append(Append(Append(<<>>, x), y), z) = <<x, y, z>>
<1>1. ASSUME NEW V, NEW b \in Seq(V), x \in V, y \in V, z \in V, Len(b) = 2, b[1] = x, b[2] = y
      PROVE  Append(b, z) = <<x, y, z>>
  <2> DEFINE c == Append(b, z)
  <2>0. b \in Seq(V) /\ z \in V
    BY <1>1
  <2>1. /\ c \in Seq(V) /\ Len(c) = Len(b) + 1 /\ c[Len(b) + 1] = z
        /\ \A i \in 1..Len(b) : c[i] = b[i]
    BY <2>0, Appended
  <2> HIDE DEF c
  <2>2. c = <<x, y, z>>
    BY <1>1, <2>1
  <2> QED
    BY <2>2 DEF c
<1>2. ASSUME NEW V, NEW a \in Seq(V), x \in V, y \in V, Len(a) = 1, a[1] = x
      PROVE  Append(a, y) \in Seq(V) /\ Len(Append(a, y)) = 2 /\ Append(a, y)[1] = x /\ Append(a, y)[2] = y
  <2> DEFINE c == Append(a, y)
  <2>0. a \in Seq(V) /\ y \in V
    BY <1>2
  <2>1. /\ c \in Seq(V) /\ Len(c) = Len(a) + 1 /\ c[Len(a) + 1] = y
        /\ \A i \in 1..Len(a) : c[i] = a[i]
    BY <2>0, Appended
  <2> HIDE DEF c
  <2>2. c \in Seq(V) /\ Len(c) = 2 /\ c[1] = x /\ c[2] = y
    BY <1>2, <2>1
  <2> QED
    BY <2>2 DEF c
<1> DEFINE V == {x, y, z}
           a == <<x>>
           b == Append(a, y)
<1>3. x \in V /\ y \in V /\ z \in V /\ a \in Seq(V) /\ Len(a) = 1 /\ a[1] = x /\ Append(<<>>, x) = a
  OBVIOUS
<1> HIDE DEF V, a
<1>4. b \in Seq(V) /\ Len(b) = 2 /\ b[1] = x /\ b[2] = y
  BY <1>2, <1>3
<1> HIDE DEF b
<1>5. Append(b, z) = <<x, y, z>>
  BY <1>1, <1>3, <1>4
<1> QED
  BY <1>3, <1>5 DEF b

\* A whole line adds its row.
LEMMA ReadLine ==
    ASSUME NEW X, NEW a \in X, NEW b \in X, NEW c \in X, NEW q \in Styles,
           NEW text, NEW k \in Nat, NEW rows,
           Stands(text, k, Written(q, CsvLine(<<a, b, c>>))), At(text, k, rows, <<>>, <<>>)
    PROVE  At(text, k + Len(Written(q, CsvLine(<<a, b, c>>))),
              Append(rows, <<<<Cell(a)>>, <<Cell(b)>>, <<Cell(c)>>>>), <<>>, <<>>)
<1> DEFINE V == CsvTokens(X)
           sa == <<Cell(a)>>
           sb == <<Cell(b)>>
           sc == <<Cell(c)>>
           comma == <<Separator("comma")>>
           newline == <<Separator("newline")>>
           l5 == sc \o newline
           l4 == comma \o l5
           l3 == sb \o l4
           l2 == comma \o l3
           l1 == sa \o l2
           none == <<>>
           k1 == k + Len(Written(q, sa))
           k2 == k1 + Len(Written(q, comma))
           k3 == k2 + Len(Written(q, sb))
           k4 == k3 + Len(Written(q, comma))
           k5 == k4 + Len(Written(q, sc))
           row1 == Append(none, sa)
           row2 == Append(row1, sb)
           row3 == Append(row2, sc)
<1>0. sa \in Seq(V) /\ sb \in Seq(V) /\ sc \in Seq(V) /\ comma \in Seq(V) /\ newline \in Seq(V)
  <2>1. /\ Cell(a) \in V /\ Cell(b) \in V /\ Cell(c) \in V
        /\ Separator("comma") \in V /\ Separator("newline") \in V
    BY DEF CsvTokens
  <2> HIDE DEF V
  <2> QED
    BY <2>1
<1>1. CsvLine(<<a, b, c>>) = l1
  BY LineIs, Zenon
<1>2. Stands(text, k, Written(q, l1)) /\ At(text, k, rows, none, none)
  BY <1>1
<1>3. row3 = <<<<Cell(a)>>, <<Cell(b)>>, <<Cell(c)>>>>
  <2>1. row3 = <<sa, sb, sc>>
    BY ThreeAppended, Zenon
  <2> QED
    BY <2>1
<1>4. l5 \in Seq(V) /\ l4 \in Seq(V) /\ l3 \in Seq(V) /\ l2 \in Seq(V)
  <2> HIDE DEF V, sa, sb, sc, comma, newline
  <2> QED
    BY <1>0
<1> HIDE DEF V, none, row1, row2, row3, sa, sb, sc, comma, newline, l1, l2, l3, l4, l5, k1, k2, k3, k4, k5
<1>5. /\ Stands(text, k, Written(q, sa)) /\ Stands(text, k1, Written(q, l2)) /\ k1 \in Nat
      /\ k + Len(Written(q, l1)) = k1 + Len(Written(q, l2))
  BY <1>0, <1>2, <1>4, StandsWritten DEF V, l1, k1
<1>6. /\ Stands(text, k1, Written(q, comma)) /\ Stands(text, k2, Written(q, l3)) /\ k2 \in Nat
      /\ k1 + Len(Written(q, l2)) = k2 + Len(Written(q, l3))
  BY <1>0, <1>4, <1>5, StandsWritten DEF V, l2, k2
<1>7. /\ Stands(text, k2, Written(q, sb)) /\ Stands(text, k3, Written(q, l4)) /\ k3 \in Nat
      /\ k2 + Len(Written(q, l3)) = k3 + Len(Written(q, l4))
  BY <1>0, <1>4, <1>6, StandsWritten DEF V, l3, k3
<1>8. /\ Stands(text, k3, Written(q, comma)) /\ Stands(text, k4, Written(q, l5)) /\ k4 \in Nat
      /\ k3 + Len(Written(q, l4)) = k4 + Len(Written(q, l5))
  BY <1>0, <1>4, <1>7, StandsWritten DEF V, l4, k4
<1>9. /\ Stands(text, k4, Written(q, sc)) /\ Stands(text, k5, Written(q, newline)) /\ k5 \in Nat
      /\ k4 + Len(Written(q, l5)) = k5 + Len(Written(q, newline))
  BY <1>0, <1>4, <1>8, StandsWritten DEF V, l5, k5
<1>10. /\ text[k1 + 1].is # "quote" /\ k2 = k1 + 1
       /\ At(text, k1, rows, none, sa) => At(text, k2, rows, row1, none)
  <2>1. /\ Len(Written(q, comma)) = 1 /\ text[k1 + 1].is # "quote"
        /\ At(text, k1, rows, none, sa) => At(text, k1 + 1, rows, Append(none, sa), <<>>)
    BY <1>5, <1>6, ReadComma DEF comma
  <2> QED
    BY <2>1 DEF k2, row1, none
<1>11. /\ text[k3 + 1].is # "quote" /\ k4 = k3 + 1
       /\ At(text, k3, rows, row1, sb) => At(text, k4, rows, row2, none)
  <2>1. /\ Len(Written(q, comma)) = 1 /\ text[k3 + 1].is # "quote"
        /\ At(text, k3, rows, row1, sb) => At(text, k3 + 1, rows, Append(row1, sb), <<>>)
    BY <1>7, <1>8, ReadComma DEF comma
  <2> QED
    BY <2>1 DEF k4, row2, none
<1>12. /\ text[k5 + 1].is # "quote"
       /\ At(text, k5, rows, row2, sc) =>
             At(text, k5 + Len(Written(q, newline)), Append(rows, row3), none, none)
  BY <1>9, ReadNewline DEF newline, none, row3
<1>13. At(text, k1, rows, none, sa)
  BY <1>2, <1>5, <1>10, ReadCell DEF k1, sa, none
<1>14. At(text, k3, rows, row1, sb)
  BY <1>6, <1>7, <1>10, <1>11, <1>13, ReadCell DEF k3, sb, none
<1>15. At(text, k5, rows, row2, sc)
  BY <1>8, <1>9, <1>11, <1>12, <1>14, ReadCell DEF k5, sc, none
<1>16. k + Len(Written(q, l1)) = k5 + Len(Written(q, newline))
  BY <1>5, <1>6, <1>7, <1>8, <1>9
<1> QED
  BY <1>1, <1>3, <1>12, <1>15, <1>16 DEF none

\* Rows of three cells, their lines, and what a spreadsheet has of them.
CsvRows(X) == X \X X \X X

LinesOf(rs) == [k \in DOMAIN rs |-> CsvLine(rs[k])]

SheetRow(r) == [i \in DOMAIN r |-> <<Cell(r[i])>>]

Sheet(rs) == [k \in DOMAIN rs |-> SheetRow(rs[k])]

\* The line of a row, and what the spreadsheet has of it.
LEMMA RowIs ==
    ASSUME NEW X, NEW r \in CsvRows(X)
    PROVE  /\ r[1] \in X /\ r[2] \in X /\ r[3] \in X
           /\ CsvLine(r) = CsvLine(<<r[1], r[2], r[3]>>)
           /\ SheetRow(r) = <<<<Cell(r[1])>>, <<Cell(r[2])>>, <<Cell(r[3])>>>>
           /\ CsvLine(r) \in Seq(CsvTokens(X))
<1>1. r[1] \in X /\ r[2] \in X /\ r[3] \in X /\ r = <<r[1], r[2], r[3]>>
  BY DEF CsvRows
<1>2. CsvLine(r) = CsvLine(<<r[1], r[2], r[3]>>)
  BY <1>1, Zenon
<1>3. SheetRow(<<r[1], r[2], r[3]>>) = <<<<Cell(r[1])>>, <<Cell(r[2])>>, <<Cell(r[3])>>>>
  BY DEF SheetRow
<1>4. SheetRow(r) = SheetRow(<<r[1], r[2], r[3]>>)
  BY <1>1, Zenon
<1>5. CsvLine(<<r[1], r[2], r[3]>>) \in Seq(CsvTokens(X))
  BY <1>1, LineIs
<1> QED
  BY <1>1, <1>2, <1>3, <1>4, <1>5, Zenon

\* One row more is one line more and one row of the spreadsheet more.
LEMMA RowsGrow ==
    ASSUME NEW X, NEW rs \in Seq(CsvRows(X)), NEW r \in CsvRows(X)
    PROVE  /\ LinesOf(rs) \in Seq(Seq(CsvTokens(X))) /\ FlattenSeq(LinesOf(rs)) \in Seq(CsvTokens(X))
           /\ LinesOf(Append(rs, r)) = Append(LinesOf(rs), CsvLine(r))
           /\ FlattenSeq(LinesOf(Append(rs, r))) = FlattenSeq(LinesOf(rs)) \o CsvLine(r)
           /\ Sheet(Append(rs, r)) = Append(Sheet(rs), SheetRow(r))
<1> DEFINE V == CsvTokens(X)
           R == CsvRows(X)
           t == Append(rs, r)
<1>1. \A x \in R : CsvLine(x) \in Seq(V)
  BY RowIs
<1> HIDE DEF V, R
<1>2. /\ t \in Seq(R) /\ Len(rs) \in Nat /\ Len(t) = Len(rs) + 1 /\ t[Len(rs) + 1] = r
      /\ DOMAIN rs = 1..Len(rs) /\ DOMAIN t = 1..Len(rs) + 1
      /\ \A i \in 1..Len(rs) : t[i] = rs[i] /\ rs[i] \in R
  BY DEF R
<1>3. LinesOf(rs) \in Seq(Seq(V)) /\ Len(LinesOf(rs)) = Len(rs) /\ \A i \in 1..Len(rs) : LinesOf(rs)[i] = CsvLine(rs[i])
  BY <1>1, <1>2 DEF LinesOf
<1> HIDE DEF t
<1>4. LinesOf(t) = Append(LinesOf(rs), CsvLine(r))
  <2> DEFINE u == Append(LinesOf(rs), CsvLine(r))
  <2>1. CsvLine(r) \in Seq(V)
    BY <1>1 DEF R
  <2>2. /\ u \in Seq(Seq(V)) /\ Len(u) = Len(LinesOf(rs)) + 1 /\ u[Len(LinesOf(rs)) + 1] = CsvLine(r)
        /\ \A i \in 1..Len(LinesOf(rs)) : u[i] = LinesOf(rs)[i]
    BY <1>3, <2>1, Appended, Zenon
  <2> HIDE DEF u
  <2>3. u = [i \in 1..Len(rs) + 1 |-> u[i]]
    BY <1>3, <2>2
  <2>4. LinesOf(t) = [i \in 1..Len(rs) + 1 |-> CsvLine(t[i])]
    BY <1>2 DEF LinesOf
  <2>5. ASSUME NEW i \in 1..Len(rs) + 1 PROVE u[i] = CsvLine(t[i])
    <3>1. CASE i = Len(rs) + 1
      BY <1>2, <1>3, <2>2, <3>1
    <3>2. CASE i # Len(rs) + 1
      <4>1. i \in 1..Len(rs)
        BY <1>2, <3>2
      <4> QED
        BY <1>2, <1>3, <2>2, <4>1
    <3> QED
      BY <3>1, <3>2
  <2>6. LinesOf(t) = u
    BY <2>3, <2>4, <2>5, Zenon
  <2> QED
    BY <2>6 DEF u
<1>5. FlattenSeq(LinesOf(t)) = FlattenSeq(LinesOf(rs)) \o CsvLine(r) /\ FlattenSeq(LinesOf(rs)) \in Seq(V)
  <2>1. CsvLine(r) \in Seq(V)
    BY <1>1 DEF R
  <2> QED
    BY <1>3, <1>4, <2>1, FlattenAppend, FlattenConcat
<1>6. Sheet(t) = Append(Sheet(rs), SheetRow(r))
  <2> DEFINE S == {SheetRow(x) : x \in R}
             u == Append(Sheet(rs), SheetRow(r))
  <2>1. SheetRow(r) \in S
    BY DEF R
  <2>2. Sheet(rs) \in Seq(S) /\ Len(Sheet(rs)) = Len(rs) /\ \A i \in 1..Len(rs) : Sheet(rs)[i] = SheetRow(rs[i])
    BY <1>2 DEF Sheet
  <2> HIDE DEF S
  <2>3. /\ u \in Seq(S) /\ Len(u) = Len(Sheet(rs)) + 1 /\ u[Len(Sheet(rs)) + 1] = SheetRow(r)
        /\ \A i \in 1..Len(Sheet(rs)) : u[i] = Sheet(rs)[i]
    BY <2>1, <2>2, Appended, Zenon
  <2> HIDE DEF u
  <2>4. u = [i \in 1..Len(rs) + 1 |-> u[i]]
    BY <2>2, <2>3
  <2>5. Sheet(t) = [i \in 1..Len(rs) + 1 |-> SheetRow(t[i])]
    BY <1>2 DEF Sheet
  <2>6. ASSUME NEW i \in 1..Len(rs) + 1 PROVE u[i] = SheetRow(t[i])
    <3>1. CASE i = Len(rs) + 1
      BY <1>2, <2>2, <2>3, <3>1
    <3>2. CASE i # Len(rs) + 1
      <4>1. i \in 1..Len(rs)
        BY <1>2, <3>2
      <4> QED
        BY <1>2, <2>2, <2>3, <4>1
    <3> QED
      BY <3>1, <3>2
  <2>7. Sheet(t) = u
    BY <2>4, <2>5, <2>6, Zenon
  <2> QED
    BY <2>7 DEF u
<1> QED
  BY <1>3, <1>4, <1>5, <1>6 DEF V, t

\* Nothing written is nothing, and leaves the loop where it starts.
LEMMA NoRows ==
    /\ FlattenSeq(LinesOf(<<>>)) = <<>> /\ Sheet(<<>>) = <<>>
    /\ \A q \in Styles : Written(q, <<>>) = <<>>
<1>1. LinesOf(<<>>) = <<>> /\ Sheet(<<>>) = <<>> /\ [i \in DOMAIN <<>> |-> Quoting(<<>>[i])] = <<>>
  BY DEF LinesOf, Sheet
<1> QED
  BY <1>1, FlattenEmpty DEF Written

\* The lines of rows, in either style, give the rows.
LEMMA ReadLines ==
    ASSUME NEW X, NEW q \in Styles, NEW rs \in Seq(CsvRows(X)), NEW text,
           Stands(text, 0, Written(q, FlattenSeq(LinesOf(rs))))
    PROVE  At(text, Len(Written(q, FlattenSeq(LinesOf(rs)))), Sheet(rs), <<>>, <<>>)
<1> DEFINE w(r) == Written(q, FlattenSeq(LinesOf(r)))
           T == {r \in Seq(CsvRows(X)) : \A u : Stands(u, 0, w(r)) => At(u, Len(w(r)), Sheet(r), <<>>, <<>>)}
<1>1. <<>> \in T
  <2>1. w(<<>>) = <<>> /\ Sheet(<<>>) = <<>> /\ Len(<<>>) = 0 /\ <<>> \in Seq(CsvRows(X))
    BY NoRows
  <2>2. ASSUME NEW u, Stands(u, 0, w(<<>>)) PROVE At(u, 0, <<>>, <<>>, <<>>)
    <3>1. Len(u) \in Nat
      BY <2>2 DEF Stands
    <3>2. After(u)[0] = CsvStart
      BY <3>1, AfterIs
    <3> QED
      BY <3>2 DEF At, CsvStart, Plain
  <2> HIDE DEF w
  <2> QED
    BY <2>1, <2>2
<1>2. ASSUME NEW r \in Seq(CsvRows(X)), NEW x \in CsvRows(X), r \in T PROVE Append(r, x) \in T
  <2> DEFINE before == FlattenSeq(LinesOf(r))
             line == CsvLine(x)
  <2>1. /\ before \in Seq(CsvTokens(X)) /\ FlattenSeq(LinesOf(Append(r, x))) = before \o line
        /\ Sheet(Append(r, x)) = Append(Sheet(r), SheetRow(x))
    BY RowsGrow
  <2>2. line \in Seq(CsvTokens(X)) /\ Append(r, x) \in Seq(CsvRows(X))
    <3>1. line \in Seq(CsvTokens(X))
      BY RowIs
    <3> HIDE DEF line
    <3> QED
      BY <3>1
  <2>3. ASSUME NEW u, Stands(u, 0, w(Append(r, x)))
        PROVE  At(u, Len(w(Append(r, x))), Sheet(Append(r, x)), <<>>, <<>>)
    <3> DEFINE k == 0 + Len(Written(q, before))
    <3>1. Stands(u, 0, Written(q, before \o line))
      BY <2>1, <2>3
    <3> HIDE DEF before, line
    <3>2. /\ Stands(u, 0, Written(q, before)) /\ Stands(u, k, Written(q, line)) /\ k \in Nat
          /\ 0 + Len(Written(q, before \o line)) = k + Len(Written(q, line))
      BY <2>1, <2>2, <3>1, StandsWritten
    <3>3. /\ Written(q, before) \in Seq(CsvTokens(X)) /\ Written(q, before \o line) \in Seq(CsvTokens(X))
      <4>1. before \o line \in Seq(CsvTokens(X))
        BY <2>1, <2>2
      <4> DEFINE both == before \o line
      <4> HIDE DEF both
      <4>2. Written(q, before) \in Seq(CsvTokens(X))
        BY <2>1, WrittenParts
      <4>3. Written(q, both) \in Seq(CsvTokens(X))
        BY <4>1, WrittenParts DEF both
      <4> QED
        BY <4>2, <4>3 DEF both
    <3>4. k = Len(Written(q, before)) /\ Len(Written(q, before \o line)) = k + Len(Written(q, line))
      BY <3>2, <3>3
    <3> HIDE DEF k
    <3>5. At(u, k, Sheet(r), <<>>, <<>>)
      <4>1. Stands(u, 0, w(r)) => At(u, Len(w(r)), Sheet(r), <<>>, <<>>)
        BY <1>2
      <4> QED
        BY <3>2, <3>4, <4>1 DEF before
    <3>6. At(u, k + Len(Written(q, line)), Append(Sheet(r), SheetRow(x)), <<>>, <<>>)
      <4>1. /\ x[1] \in X /\ x[2] \in X /\ x[3] \in X /\ line = CsvLine(<<x[1], x[2], x[3]>>)
            /\ SheetRow(x) = <<<<Cell(x[1])>>, <<Cell(x[2])>>, <<Cell(x[3])>>>>
        BY RowIs DEF line
      <4> QED
        BY <3>2, <3>5, <4>1, ReadLine
    <3> QED
      BY <2>1, <3>4, <3>6
  <2> HIDE DEF w
  <2> QED
    BY <2>2, <2>3
<1>3. Seq(CsvRows(X)) \subseteq T
  <2> HIDE DEF T
  <2> QED
    BY <1>1, <1>2, SeqInduction
<1> QED
  BY <1>3

\* The loop behind the last token, at the end of a line.
LEMMA ReadAll ==
    ASSUME NEW text, Len(text) \in Nat, NEW rows, rows # <<>>, At(text, Len(text), rows, <<>>, <<>>)
    PROVE  CsvToRows(text) = rows
<1>1. After(text)[Len(text)] = Plain(rows, <<>>, <<>>)
  BY DEF At
<1>2. /\ Plain(rows, <<>>, <<>>).cell = <<>> /\ Plain(rows, <<>>, <<>>).row = <<>>
      /\ Plain(rows, <<>>, <<>>).rows = rows
  BY DEF Plain
<1> QED
  BY <1>1, <1>2, AfterIs

\* A text stands in itself.
LEMMA StandsItself ==
    ASSUME NEW V, NEW s \in Seq(V)
    PROVE  Stands(s, 0, s) /\ Len(s) \in Nat
  BY DEF Stands

\* The page's text of a header and rows.
LEMMA CsvIs ==
    ASSUME NEW X, NEW header \in CsvRows(X), NEW table \in Seq(CsvRows(X))
    PROVE  /\ FlattenSeq(LinesOf(<<header>>)) = CsvLine(header)
           /\ table # <<>> => CsvOf(header, table) = FlattenSeq(LinesOf(<<header>> \o table))
           /\ table = <<>> => CsvOf(header, table)
                                 = FlattenSeq(LinesOf(<<header>>)) \o <<Separator("newline")>>
<1> DEFINE V == CsvTokens(X)
           R == CsvRows(X)
           one == <<header>>
           l == CsvLine(header)
<1>1. <<>> \in Seq(R) /\ one \in Seq(R) /\ Append(<<>>, header) = one /\ one \o table \in Seq(R)
  <2> HIDE DEF R
  <2>1. header \in R /\ table \in Seq(R)
    BY DEF R
  <2> QED
    BY <2>1
<1>2. l \in Seq(V) /\ <<>> \o l = l
  <2>1. l \in Seq(V)
    BY RowIs
  <2> HIDE DEF l
  <2> QED
    BY <2>1
<1>3. FlattenSeq(LinesOf(one)) = l /\ LinesOf(one) = Append(<<>>, l)
  <2>1. LinesOf(<<>>) = <<>>
    BY DEF LinesOf
  <2>2. /\ LinesOf(Append(<<>>, header)) = Append(LinesOf(<<>>), l)
        /\ FlattenSeq(LinesOf(Append(<<>>, header))) = FlattenSeq(LinesOf(<<>>)) \o l
    BY <1>1, RowsGrow
  <2> HIDE DEF l, one
  <2> QED
    BY <1>1, <1>2, <2>1, <2>2, NoRows
<1>4. LinesOf(table) \in Seq(Seq(V)) /\ LinesOf(one) \in Seq(Seq(V))
  BY <1>1, RowsGrow
<1>5. LinesOf(one \o table) = LinesOf(one) \o LinesOf(table)
  <2> DEFINE u == LinesOf(one) \o LinesOf(table)
             b == one \o table
  <2>1. Len(one) = 1 /\ Len(table) \in Nat /\ DOMAIN one = 1..1 /\ DOMAIN table = 1..Len(table)
    OBVIOUS
  <2> HIDE DEF one
  <2>2. /\ b \in Seq(R) /\ Len(b) = Len(one) + Len(table) /\ DOMAIN b = 1..Len(one) + Len(table)
        /\ \A i \in 1..Len(one) + Len(table) : b[i] = IF i <= Len(one) THEN one[i] ELSE table[i - Len(one)]
    <3> HIDE DEF R
    <3>1. table \in Seq(R)
      BY DEF R
    <3> QED
      BY <1>1, <3>1, Joined
  <2>3. /\ Len(LinesOf(one)) = 1 /\ Len(LinesOf(table)) = Len(table)
        /\ \A i \in 1..1 : LinesOf(one)[i] = CsvLine(one[i])
        /\ \A i \in 1..Len(table) : LinesOf(table)[i] = CsvLine(table[i])
    BY <2>1 DEF LinesOf
  <2> HIDE DEF V, b
  <2>4. /\ DOMAIN u = 1..Len(LinesOf(one)) + Len(LinesOf(table)) /\ u \in Seq(Seq(V))
        /\ \A i \in 1..Len(LinesOf(one)) + Len(LinesOf(table)) :
              u[i] = IF i <= Len(LinesOf(one)) THEN LinesOf(one)[i] ELSE LinesOf(table)[i - Len(LinesOf(one))]
    BY <1>4, Joined
  <2> HIDE DEF u
  <2>5. u = [i \in 1..Len(table) + 1 |-> u[i]]
    <3>1. DOMAIN u = 1..Len(table) + 1
      BY <2>1, <2>3, <2>4
    <3> QED
      BY <2>4, <3>1
  <2>6. LinesOf(b) = [i \in 1..Len(table) + 1 |-> CsvLine(b[i])]
    BY <2>1, <2>2 DEF LinesOf
  <2>7. ASSUME NEW i \in 1..Len(table) + 1 PROVE u[i] = CsvLine(b[i])
    <3>1. CASE i = 1
      <4>1. u[1] = LinesOf(one)[1] /\ b[1] = one[1] /\ LinesOf(one)[1] = CsvLine(one[1])
        BY <2>1, <2>2, <2>3, <2>4
      <4> QED
        BY <3>1, <4>1
    <3>2. CASE i # 1
      <4>1. i - 1 \in 1..Len(table) /\ ~(i <= 1) /\ i \in 1..1 + Len(table)
        BY <2>1, <3>2
      <4>2. u[i] = LinesOf(table)[i - 1] /\ b[i] = table[i - 1]
        BY <2>1, <2>2, <2>3, <2>4, <4>1
      <4> QED
        BY <2>3, <4>1, <4>2
    <3> QED
      BY <3>1, <3>2
  <2>8. LinesOf(b) = u
    BY <2>5, <2>6, <2>7, Zenon
  <2> QED
    BY <2>8 DEF b, u
<1>6. FlattenSeq(LinesOf(one \o table)) = l \o FlattenSeq(LinesOf(table))
  <2> HIDE DEF V, one, l
  <2> QED
    BY <1>3, <1>4, <1>5, FlattenConcat
<1>7. CsvOf(header, table) = l \o (IF table = <<>> THEN <<Separator("newline")>> ELSE FlattenSeq(LinesOf(table)))
  BY DEF CsvOf, LinesOf
<1> QED
  BY <1>3, <1>6, <1>7

\* The page's tokenizer gives back what the page, or another writer, wrote.
LEMMA SheetOf ==
    ASSUME NEW X, NEW header \in CsvRows(X), NEW table \in Seq(CsvRows(X)), NEW q \in Styles
    PROVE  CsvToRows(Written(q, CsvOf(header, table)))
              = Sheet(<<header>> \o table) \o (IF table = <<>> THEN <<<<<<>>>>>> ELSE <<>>)
<1> DEFINE V == CsvTokens(X)
           R == CsvRows(X)
           one == <<header>>
           all == one \o table
           text == Written(q, CsvOf(header, table))
<1>1. one \in Seq(R) /\ all \in Seq(R) /\ Len(one) = 1 /\ Len(all) \in Nat \ {0} /\ one \o <<>> = one
  <2> HIDE DEF R
  <2>1. header \in R /\ table \in Seq(R)
    BY DEF R
  <2> QED
    BY <2>1
<1>2. FlattenSeq(LinesOf(one)) \in Seq(V) /\ FlattenSeq(LinesOf(all)) \in Seq(V)
  BY <1>1, RowsGrow
<1>3. ASSUME NEW rs \in Seq(R), Len(rs) # 0
      PROVE  Sheet(rs) # <<>> /\ Sheet(rs) \in Seq({SheetRow(x) : x \in R})
  <2> HIDE DEF R
  <2>1. /\ DOMAIN rs = 1..Len(rs) /\ Len(rs) \in Nat /\ \A i \in DOMAIN rs : rs[i] \in R
    OBVIOUS
  <2>2. Sheet(rs) \in Seq({SheetRow(x) : x \in R}) /\ Len(Sheet(rs)) = Len(rs)
    BY <2>1 DEF Sheet
  <2> QED
    BY <1>3, <2>2
<1>4. CASE table # <<>>
  <2>1. CsvOf(header, table) = FlattenSeq(LinesOf(all))
    BY <1>4, CsvIs
  <2>2. text \in Seq(V)
    <3> DEFINE s == FlattenSeq(LinesOf(all))
    <3> HIDE DEF s
    <3>1. Written(q, s) \in Seq(V)
      BY <1>2, WrittenParts DEF s
    <3> QED
      BY <2>1, <3>1 DEF s
  <2>3. Stands(text, 0, text) /\ Len(text) \in Nat
    <3> HIDE DEF text, V
    <3> QED
      BY <2>2, StandsItself
  <2>4. At(text, Len(text), Sheet(all), <<>>, <<>>)
    <3>1. text = Written(q, FlattenSeq(LinesOf(all)))
      BY <2>1
    <3> HIDE DEF text, all
    <3> QED
      BY <1>1, <2>3, <3>1, ReadLines
  <2>5. Sheet(all) # <<>> /\ Sheet(all) \o <<>> = Sheet(all)
    <3> HIDE DEF all, R
    <3>1. Sheet(all) # <<>> /\ Sheet(all) \in Seq({SheetRow(x) : x \in R})
      BY <1>1, <1>3
    <3> QED
      BY <3>1
  <2> HIDE DEF text, all
  <2>6. CsvToRows(text) = Sheet(all)
    BY <2>3, <2>4, <2>5, ReadAll
  <2> QED
    BY <1>4, <2>5, <2>6 DEF text, all
<1>5. CASE table = <<>>
  <2> DEFINE s == FlattenSeq(LinesOf(one))
             newline == <<Separator("newline")>>
             k == 0 + Len(Written(q, s))
             end == Append(Sheet(one), Append(<<>>, <<>>))
  <2>1. CsvOf(header, table) = s \o newline
    BY <1>5, CsvIs
  <2>2. s \in Seq(V) /\ newline \in Seq(V) /\ s \o newline \in Seq(V)
    <3>1. s \in Seq(V) /\ Separator("newline") \in V
      BY <1>2 DEF CsvTokens
    <3> HIDE DEF s, V
    <3> QED
      BY <3>1
  <2>3. text \in Seq(V)
    <3> DEFINE both == s \o newline
    <3> HIDE DEF both
    <3>1. Written(q, both) \in Seq(V)
      BY <2>2, WrittenParts DEF both
    <3> QED
      BY <2>1, <3>1 DEF both
  <2>4. Stands(text, 0, text) /\ Len(text) \in Nat /\ text = Written(q, s \o newline)
    <3>1. text = Written(q, s \o newline)
      BY <2>1
    <3> HIDE DEF text, V
    <3>2. Stands(text, 0, text) /\ Len(text) \in Nat
      BY <2>3, StandsItself
    <3> QED
      BY <3>1, <3>2
  <2> HIDE DEF text, s, newline, one
  <2>5. /\ Stands(text, 0, Written(q, s)) /\ Stands(text, k, Written(q, newline)) /\ k \in Nat
        /\ 0 + Len(Written(q, s \o newline)) = k + Len(Written(q, newline))
    BY <2>2, <2>4, StandsWritten
  <2>6. At(text, Len(Written(q, s)), Sheet(one), <<>>, <<>>)
    BY <1>1, <2>5, ReadLines DEF s
  <2>7. k = Len(Written(q, s)) /\ Len(text) = k + Len(Written(q, newline))
    <3>1. Written(q, s) \in Seq(V)
      BY <2>2, WrittenParts
    <3>2. Len(Written(q, s)) \in Nat
      BY <3>1
    <3> HIDE DEF V
    <3> QED
      BY <2>4, <2>5, <3>2
  <2> HIDE DEF k
  <2>8. At(text, k + Len(Written(q, newline)), end, <<>>, <<>>)
    BY <2>5, <2>6, <2>7, ReadNewline DEF newline
  <2>9. end # <<>> /\ end = Sheet(one) \o <<<<<<>>>>>>
    <3>1. Sheet(one) \in Seq({SheetRow(x) : x \in R})
      <4> HIDE DEF R
      <4>1. one \in Seq(R) /\ Len(one) # 0
        BY <1>1
      <4> QED
        BY <1>3, <4>1
    <3> DEFINE S == {SheetRow(x) : x \in R} \cup {<<<<>>>>}
    <3>2. Append(<<>>, <<>>) = <<<<>>>>
      OBVIOUS
    <3> DEFINE e == <<<<>>>>
               t == Sheet(one)
    <3>3. t \in Seq(S) /\ e \in S
      BY <3>1
    <3> HIDE DEF S, e, t
    <3>4. Append(t, e) # <<>> /\ Append(t, e) = t \o <<e>>
      BY <3>3
    <3> QED
      BY <3>2, <3>4 DEF e, t
  <2> HIDE DEF end
  <2>10. CsvToRows(text) = end
    BY <2>4, <2>7, <2>8, <2>9, ReadAll
  <2>11. all = one
    BY <1>1, <1>5
  <2> QED
    BY <1>5, <2>9, <2>10, <2>11 DEF text, one
<1> QED
  BY <1>4, <1>5

\* All of SheetKeepsTable, in a state of which the invariant holds.
LEMMA SheetHolds == ListsInv => SheetKeepsTable
<1> DEFINE header == <<-1, -2, -3>>
           flows == PerFlow(packets)
           table == [k \in DOMAIN flows |-> <<flows[k].packets, flows[k].bytes, flows[k].last>>]
           quoted(text) ==
               FlattenSeq([i \in DOMAIN text |->
                   CASE text[i].is = "value" -> <<Separator("quote"), text[i], Separator("quote")>>
                     [] text[i].is = "newline" -> <<Separator("return"), text[i]>>
                     [] OTHER -> <<text[i]>>])
           X == {-1, -2, -3} \cup {flows[k].packets : k \in DOMAIN flows}
                   \cup {flows[k].bytes : k \in DOMAIN flows} \cup {flows[k].last : k \in DOMAIN flows}
           text0 == CsvOf(header, table)
<1> SUFFICES ASSUME ListsInv PROVE SheetKeepsTable
  OBVIOUS
<1>1. DOMAIN flows = 1..Len(flows) /\ Len(flows) \in Nat
  <2>1. Packets(packets)
    BY DEF ListsInv, Packets
  <2>2. List(flows)
    BY <2>1, FlowsAre
  <2> HIDE DEF flows
  <2> QED
    BY <2>2, ListBounds
<1> HIDE DEF flows
<1>2. header \in CsvRows(X) /\ table \in Seq(CsvRows(X))
  <2>1. \A k \in DOMAIN flows : <<flows[k].packets, flows[k].bytes, flows[k].last>> \in CsvRows(X)
    BY DEF CsvRows
  <2>2. header \in CsvRows(X)
    BY DEF CsvRows
  <2> HIDE DEF X
  <2> QED
    BY <1>1, <2>1, <2>2
<1>3. ASSUME NEW q \in Styles
      PROVE  CsvToRows(Written(q, text0))
                = Sheet(<<header>> \o table) \o (IF table = <<>> THEN <<<<<<>>>>>> ELSE <<>>)
  <2> HIDE DEF header, table, X
  <2> QED
    BY <1>2, SheetOf
<1>4. text0 = Written("plain", text0) /\ quoted(text0) = Written("quoted", text0)
  <2> HIDE DEF text0
  <2> QED
    BY DEF Written, Quoting
<1>5. \A text \in {text0, quoted(text0)} :
         CsvToRows(text) = Sheet(<<header>> \o table) \o (IF table = <<>> THEN <<<<<<>>>>>> ELSE <<>>)
  <2> HIDE DEF text0, header, table, quoted
  <2> QED
    BY <1>3, <1>4 DEF Styles
<1>6. SheetKeepsTable <=>
         (tab = "perf" => \A text \in {text0, quoted(text0)} :
            CsvToRows(text) = Sheet(<<header>> \o table) \o (IF table = <<>> THEN <<<<<<>>>>>> ELSE <<>>))
  BY DEF SheetKeepsTable, Sheet, SheetRow, flows
<1> QED
  BY <1>5, <1>6

\* For any traffic, the tokenizer csvToRows of perf.jsx gives back every cell of the flow
\* table's text, as the page writes it and with quoted cells and CRLF.
THEOREM SheetIsTheTable == Spec => []SheetKeepsTable
  BY ListsInit, ListsStep, SheetHolds, PTL DEF Spec

---------------------------------------------------------------------------
(* DrawnApartInside: numbers *)

\* What a quotient is.
LEMMA Quotient ==
    ASSUME NEW a \in Nat, NEW b \in Nat \ {0}
    PROVE  /\ a \div b \in Nat /\ b * (a \div b) <= a /\ a < b * (a \div b) + b
OBVIOUS

\* Without a remainder it is whole.
LEMMA WholeQuotient ==
    ASSUME NEW a \in Nat, NEW b \in Nat \ {0}, a % b = 0
    PROVE  a = b * (a \div b) /\ a \div b \in Nat
OBVIOUS

\* Products grow with their factors.
LEMMA ProductGrows ==
    ASSUME NEW a \in Nat, NEW b \in Nat, NEW k \in Nat
    PROVE  /\ k * a \in Nat
           /\ a <= b => k * a <= k * b
           /\ (a < b /\ k > 0) => k * a < k * b
OBVIOUS

\* A quotient is at most what times the divisor reaches the dividend.
LEMMA QuotientAtMost ==
    ASSUME NEW a \in Nat, NEW b \in Nat \ {0}, NEW q \in Nat, a <= b * q
    PROVE  a \div b \in 0..q
<1> DEFINE d == a \div b
<1>1. d \in Nat /\ b * d <= a
  BY Quotient
<1> HIDE DEF d
<1>2. b * d <= b * q
  <2>1. b * d \in Nat /\ b * q \in Nat
    BY <1>1, ProductGrows
  <2> QED
    BY <1>1, <2>1
<1>3. ~(q < d)
  <2>1. q < d => b * q < b * d
    BY <1>1, ProductGrows
  <2>2. b * d \in Nat /\ b * q \in Nat
    BY <1>1, ProductGrows
  <2> QED
    BY <1>2, <2>1, <2>2
<1> QED
  BY <1>1, <1>3 DEF d

\* Fractions a / b, compared by cross products, are in an order.
LEMMA FractionsOrder ==
    ASSUME NEW a \in Nat, NEW b \in Nat \ {0}, NEW c \in Nat, NEW d \in Nat \ {0},
           NEW e \in Nat, NEW f \in Nat \ {0}, a * d <= c * b, c * f <= e * d
    PROVE  a * f <= e * b
<1>1. (a * d) * f <= (c * b) * f
  BY SMT
<1>2. (c * f) * b <= (e * d) * b
  BY SMT
<1>3. (a * f) * d <= (e * b) * d
  BY <1>1, <1>2
<1> QED
  <2>1. a * f \in Nat /\ e * b \in Nat
    OBVIOUS
  <2> DEFINE x == a * f
             y == e * b
  <2>2. x \in Nat /\ y \in Nat /\ x * d <= y * d
    BY <1>3, <2>1
  <2> HIDE DEF x, y
  <2>3. x <= y
    BY <2>2
  <2> QED
    BY <2>3 DEF x, y

\* A sort by a comparison that is a weak order puts positions in a strict one.
LEMMA WeakStrict ==
    ASSUME NEW D \in SUBSET Int, NEW W, \A x \in D : <<x, x>> \notin W,
           \A x, y, z \in D : <<x, y>> \notin W /\ <<y, z>> \notin W => <<x, z>> \notin W,
           \A x, y \in D : <<x, y>> \in W => <<y, x>> \notin W
    PROVE  Strict(D, {r \in D \X D : <<r[1], r[2]>> \in W \/ (<<r[2], r[1]>> \notin W /\ r[1] < r[2])})
<1> DEFINE R == {r \in D \X D : <<r[1], r[2]>> \in W \/ (<<r[2], r[1]>> \notin W /\ r[1] < r[2])}
<1>1. \A x, y \in D : <<x, y>> \in R <=> (<<x, y>> \in W \/ (<<y, x>> \notin W /\ x < y))
  OBVIOUS
<1> HIDE DEF R
<1>2. \A x, y, z \in D : (x < y /\ y < z => x < z) /\ ~(x < x) /\ (x = y \/ x < y \/ y < x)
  OBVIOUS
<1>3. \A x \in D : <<x, x>> \notin R
  BY <1>1, <1>2
<1>4. \A x, y \in D : x = y \/ <<x, y>> \in R \/ <<y, x>> \in R
  BY <1>1, <1>2
<1>5. ASSUME NEW x \in D, NEW y \in D, NEW z \in D, <<x, y>> \in R, <<y, z>> \in R
      PROVE  <<x, z>> \in R
  <2>1. <<y, x>> \notin W /\ <<z, y>> \notin W
    BY <1>1, <1>5
  <2>2. <<z, x>> \notin W
    BY <2>1
  <2>3. CASE <<x, y>> \in W
    <3>1. <<x, z>> \in W
      BY <2>1, <2>3
    <3> QED
      BY <1>1, <3>1
  <2>4. CASE <<y, z>> \in W
    <3>1. <<x, z>> \in W
      BY <2>1, <2>4
    <3> QED
      BY <1>1, <3>1
  <2>5. CASE <<x, y>> \notin W /\ <<y, z>> \notin W
    <3>1. x < y /\ y < z
      BY <1>1, <1>5, <2>5
    <3> QED
      BY <1>1, <1>2, <2>2, <3>1
  <2> QED
    BY <2>3, <2>4, <2>5
<1> QED
  BY <1>3, <1>4, <1>5 DEF Strict, R

---------------------------------------------------------------------------
(* The sequence diagram *)

\* A column lies within the sequence diagram, with room for a loop beside it.
LEMMA ColumnInside ==
    ASSUME NEW c \in Nat \ {0}, NEW i \in 1..c
    PROVE  ColX(i, c) \in 60..SequenceWidth(c) - 80 /\ SequenceWidth(c) \in Nat
<1> DEFINE w == SequenceWidth(c)
           s == w - 80
<1>1. w \in Nat /\ w >= 80 + c * 120
  BY ViewAssumption DEF SequenceWidth
<1> HIDE DEF w
<1>2. s \in Nat /\ s >= 120 * c /\ s >= 60
  BY <1>1
<1>3. ColX(i, c) = 60 + (s * (2 * i - 1)) \div (2 * c)
  BY DEF ColX, w
<1> HIDE DEF s
<1>4. s * (2 * i - 1) \in Nat /\ 2 * c \in Nat \ {0} /\ s - 60 \in Nat
  <2>1. 2 * i - 1 \in Nat
    OBVIOUS
  <2> QED
    BY <1>2, <2>1, ProductGrows
<1>5. s * (2 * i - 1) <= (2 * c) * (s - 60)
  <2>1. s * (2 * i - 1) <= s * (2 * c - 1)
    BY <1>2, ProductGrows
  <2>2. s * (2 * c - 1) = (2 * c) * s - s
    BY <1>2
  <2>3. (2 * c) * (s - 60) = (2 * c) * s - 120 * c
    BY <1>2
  <2>4. (2 * c) * s \in Nat /\ s * (2 * i - 1) \in Nat /\ c \in Nat /\ s \in Nat
    BY <1>2, <1>4
  <2> DEFINE p == (2 * c) * s
             a == s * (2 * i - 1)
             b == s * (2 * c - 1)
             d == (2 * c) * (s - 60)
  <2>5. a <= b /\ b = p - s /\ d = p - 120 * c /\ p \in Nat /\ a \in Nat
    BY <2>1, <2>2, <2>3, <2>4
  <2> HIDE DEF p, a, b, d
  <2>6. a <= d
    BY <1>2, <2>4, <2>5
  <2> QED
    BY <2>6 DEF a, d
<1>6. (s * (2 * i - 1)) \div (2 * c) \in 0..s - 60
  BY <1>4, <1>5, QuotientAtMost
<1>7. ColX(i, c) \in 60..s
  <2> DEFINE q == (s * (2 * i - 1)) \div (2 * c)
  <2>1. q \in 0..s - 60 /\ ColX(i, c) = 60 + q
    BY <1>3, <1>6
  <2> HIDE DEF q
  <2> QED
    BY <1>2, <2>1
<1> QED
  BY <1>1, <1>7 DEF s, w

\* The messages drawn are packets shown.
LEMMA MessagesAreShown ==
    ASSUME NEW l, Packets(l)
    PROVE  /\ Len(Messages(l)) \in Nat /\ DOMAIN Messages(l) = 1..Len(Messages(l))
           /\ \A k \in DOMAIN Messages(l) : \E i \in DOMAIN l : Messages(l)[k] = l[i]
<1> DEFINE lo == IF Len(l) > MessageLimit THEN Len(l) - MessageLimit + 1 ELSE 1
<1>1. Len(l) \in Nat /\ DOMAIN l = 1..Len(l) /\ lo \in 1..Len(l) + 1
  BY PacketList, MessageAssumption
<1>2. Messages(l) = SubSeq(l, lo, Len(l))
  BY DEF Messages
<1> HIDE DEF lo
<1>3. l \in Seq(Packet)
  BY DEF Packets
<1>4. /\ Messages(l) \in Seq(Packet) /\ Len(Messages(l)) = Len(l) - lo + 1
      /\ \A k \in 1..Len(l) - lo + 1 : Messages(l)[k] = l[lo + k - 1]
  BY <1>1, <1>2, <1>3
<1> DEFINE m == Messages(l)
<1> HIDE DEF m
<1>5. Len(m) \in Nat /\ DOMAIN m = 1..Len(m) /\ Len(m) = Len(l) - lo + 1
  BY <1>1, <1>4 DEF m
<1>6. \A k \in 1..Len(m) : lo + k - 1 \in DOMAIN l /\ m[k] = l[lo + k - 1]
  BY <1>1, <1>4, <1>5 DEF m
<1> QED
  BY <1>5, <1>6 DEF m

\* Every message is an arrow between two columns, within the diagram.
LEMMA ArrowsInside ==
    ASSUME MapInv, ListsInv, tab = "graph", NEW k \in DOMAIN Messages(Drawn)
    PROVE  LET arrow == Arrow(Messages(Drawn), Columns, k)
           IN  /\ {arrow.from, arrow.to} \subseteq 0..SequenceWidth(Len(Columns))
               /\ arrow.y \in 0..SequenceHeight(Messages(Drawn)) - 64 - 40
<1> DEFINE ms == Messages(On)
           cols == Columns
           c == Len(cols)
           w == SequenceWidth(c)
           col(ip) == CHOOSE i \in DOMAIN cols : cols[i] = ip
<1>1. Drawn = On /\ Packets(On)
  BY OnIsDrawn
<1>2. ToSet(cols) = Hosts(On)
  BY ColumnsAre
<1>3. List(cols)
  <2>1. List(Devices)
    BY DevicesAre DEF Devices
  <2>2. \A V : Filter(Devices, LAMBDA ip : ip \in V) = Sublist(Devices, Kept(Devices, V))
    BY DEF Filter, Kept
  <2>3. cols = Sublist(Devices, Kept(Devices, Hosts(Filter(packets, LAMBDA p : p.proto \in showProtos))))
    BY <2>2 DEF Columns, ActiveDevices
  <2> QED
    BY <2>1, <2>3, FilterKeeps
<1>4. c \in Nat /\ DOMAIN cols = 1..c
  BY <1>3, ListBounds
<1>5. Len(ms) \in Nat /\ DOMAIN ms = 1..Len(ms) /\ k \in 1..Len(ms)
  BY <1>1, MessagesAreShown
<1>6. IpOf(ms[k].src) \in ToSet(cols) /\ IpOf(ms[k].dst) \in ToSet(cols)
  <2>1. PICK i \in DOMAIN On : ms[k] = On[i]
    BY <1>1, <1>5, MessagesAreShown
  <2> QED
    BY <1>2, <2>1 DEF Hosts, ToSet
<1> DEFINE a == col(IpOf(ms[k].src))
           b == col(IpOf(ms[k].dst))
           x1 == ColX(a, c)
           x2 == ColX(b, c)
<1>7. a \in 1..c /\ b \in 1..c
  <2> HIDE DEF cols, ms, c
  <2> QED
    BY <1>4, <1>6 DEF ToSet
<1>8. Arrow(ms, cols, k) =
        CASE x1 = x2 -> [from |-> x1, to |-> x1 + 22, y |-> RowY(k)]
          [] x1 < x2 -> [from |-> x1 + 6, to |-> x2 - 6, y |-> RowY(k)]
          [] x1 > x2 -> [from |-> x1 - 6, to |-> x2 + 6, y |-> RowY(k)]
  BY DEF Arrow
<1> HIDE DEF a, b
<1>9. x1 \in 60..w - 80 /\ x2 \in 60..w - 80 /\ w \in Nat
  <2>1. c \in Nat \ {0}
    BY <1>4, <1>7
  <2> HIDE DEF c
  <2> QED
    BY <1>7, <2>1, ColumnInside
<1>10. RowY(k) \in 0..SequenceHeight(ms) - 64 - 40
  <2> HIDE DEF ms
  <2>1. RowY(k) = 28 * k - 2 /\ k \in Int
    BY <1>5 DEF RowY
  <2>2. SequenceHeight(ms) >= 116 + Len(ms) * 28 /\ SequenceHeight(ms) \in Nat
    BY <1>5, ViewAssumption DEF SequenceHeight
  <2> QED
    BY <1>5, <2>1, <2>2
<1> HIDE DEF ms, cols, c, w, x1, x2
<1>11. LET arrow == Arrow(ms, cols, k)
       IN  {arrow.from, arrow.to} \subseteq 0..w /\ arrow.y = RowY(k)
  <2>1. CASE x1 = x2
    <3>1. Arrow(ms, cols, k) = [from |-> x1, to |-> x1 + 22, y |-> RowY(k)]
      BY <1>8, <1>9, <2>1
    <3> QED
      BY <1>9, <3>1
  <2>2. CASE x1 < x2
    <3>1. Arrow(ms, cols, k) = [from |-> x1 + 6, to |-> x2 - 6, y |-> RowY(k)]
      BY <1>8, <1>9, <2>2
    <3> QED
      BY <1>9, <2>2, <3>1
  <2>3. CASE x2 < x1
    <3>1. Arrow(ms, cols, k) = [from |-> x1 - 6, to |-> x2 + 6, y |-> RowY(k)]
      BY <1>8, <1>9, <2>3
    <3> QED
      BY <1>9, <2>3, <3>1
  <2> QED
    BY <1>9, <2>1, <2>2, <2>3
<1> QED
  BY <1>1, <1>10, <1>11 DEF ms, cols, c, w

---------------------------------------------------------------------------
(* The devices of a lane *)

\* A list in which nothing occurs twice.
Once(s) == List(s) /\ \A j, k \in DOMAIN s : s[j] = s[k] => j = k

\* A filtered list of such is one.
LEMMA FilterOnce ==
    ASSUME NEW s, Once(s), NEW V
    PROVE  Once(Sublist(s, Kept(s, V)))
<1> DEFINE I == Kept(s, V)
           l == Sublist(s, I)
<1>1. List(s) /\ I \in SUBSET DOMAIN s
  BY DEF Once, Kept
<1>2. PICK at : Picks(l, s, I, at)
  BY <1>1, SublistPicks
<1> HIDE DEF I, l
<1>3. \A j, k \in DOMAIN l : l[j] = l[k] => j = k
  <2> SUFFICES ASSUME NEW j \in DOMAIN l, NEW k \in DOMAIN l, l[j] = l[k] PROVE j = k
    OBVIOUS
  <2>1. at[j] = at[k] /\ at[j] \in DOMAIN s
    BY <1>1, <1>2 DEF Picks, Once
  <2>2. j \in Int /\ k \in Int /\ at[j] \in Int
    BY <1>1, <1>2, <2>1, ListBounds DEF Picks
  <2>3. ~(at[j] < at[k]) /\ ~(at[k] < at[j])
    BY <2>1, <2>2
  <2>4. ~(j < k) /\ ~(k < j)
    BY <1>2, <2>3 DEF Picks
  <2> QED
    BY <2>2, <2>4
<1> QED
  BY <1>2, <1>3 DEF Once, Picks, l, I

\* So are two of them without a common value, one behind the other.
LEMMA ConcatOnce ==
    ASSUME NEW s, Once(s), NEW t, Once(t), ToSet(s) \cap ToSet(t) = {}
    PROVE  Once(s \o t)
<1> DEFINE u == s \o t
<1>1. List(u)
  BY ListsConcat DEF Once
<1>2. /\ Len(s) \in Nat /\ Len(t) \in Nat /\ DOMAIN s = 1..Len(s) /\ DOMAIN t = 1..Len(t)
      /\ s = [k \in DOMAIN s |-> s[k]] /\ t = [k \in DOMAIN t |-> t[k]]
  BY ListBounds DEF Once
<1>3. /\ DOMAIN u = 1..Len(s) + Len(t)
      /\ \A k \in 1..Len(s) + Len(t) : u[k] = IF k <= Len(s) THEN s[k] ELSE t[k - Len(s)]
  <2> DEFINE V == ToSet(s) \cup ToSet(t)
  <2>1. s \in Seq(V) /\ t \in Seq(V)
    <3>1. (\A k \in DOMAIN s : s[k] \in V) /\ (\A k \in DOMAIN t : t[k] \in V)
      BY DEF ToSet
    <3> HIDE DEF V
    <3> QED
      BY <1>2, <3>1
  <2> HIDE DEF V
  <2> QED
    BY <2>1, Joined
<1> HIDE DEF u
<1>4. \A k \in DOMAIN u : (k \in DOMAIN s /\ u[k] = s[k])
                          \/ (k \notin DOMAIN s /\ k - Len(s) \in DOMAIN t /\ u[k] = t[k - Len(s)])
  BY <1>2, <1>3
<1>5. ASSUME NEW j \in DOMAIN u, NEW k \in DOMAIN u, u[j] = u[k] PROVE j = k
  <2>0. j \in Int /\ k \in Int
    BY <1>2, <1>3
  <2>1. CASE j \in DOMAIN s /\ k \in DOMAIN s
    BY <1>4, <1>5, <2>1 DEF Once
  <2>2. CASE j \notin DOMAIN s /\ k \notin DOMAIN s
    <3>1. j - Len(s) = k - Len(s)
      BY <1>4, <1>5, <2>2 DEF Once
    <3> QED
      BY <1>2, <2>0, <3>1
  <2>3. CASE (j \in DOMAIN s) # (k \in DOMAIN s)
    BY <1>4, <1>5, <2>3 DEF ToSet
  <2> QED
    BY <2>1, <2>2, <2>3
<1> QED
  BY <1>1, <1>5 DEF Once, u

\* No device is listed twice.
LEMMA DevicesOnce ==
    ASSUME NEW dm, NEW d
    PROVE  Once(DevicesFromMap(dm, d))
<1> DEFINE mapped(ips) == Sublist(ips, Kept(ips, DOMAIN dm))
           others == Sublist(mapped(IpOrder), Kept(mapped(IpOrder), Ips \ DOMAIN Preset))
<1>1. Once(IpOrder) /\ Once(PresetOrder) /\ DOMAIN Preset = ToSet(PresetOrder) /\ ToSet(IpOrder) = Ips
  BY HostAssumption DEF Once, List, IsInjective, Ips
<1>2. /\ Once(mapped(IpOrder)) /\ Once(mapped(PresetOrder))
      /\ ToSet(mapped(PresetOrder)) = DOMAIN Preset \cap DOMAIN dm
      /\ ToSet(mapped(IpOrder)) = Ips \cap DOMAIN dm
  <2>1. List(IpOrder) /\ List(PresetOrder)
    BY <1>1 DEF Once
  <2> QED
    BY <1>1, <2>1, FilterOnce, FilterKeeps
<1>3. Once(others) /\ ToSet(others) = ToSet(mapped(IpOrder)) \cap (Ips \ DOMAIN Preset)
  <2>1. List(mapped(IpOrder))
    BY <1>2 DEF Once
  <2> QED
    BY <1>2, <2>1, FilterOnce, FilterKeeps
<1>4. DevicesFromMap(dm, d) = IF d THEN mapped(PresetOrder) \o others ELSE mapped(IpOrder)
  <2>1. ASSUME NEW ips PROVE Filter(ips, LAMBDA ip : ip \in DOMAIN dm) = mapped(ips)
    BY DEF Filter, Kept
  <2> DEFINE m == mapped(IpOrder)
  <2>2. \A i \in DOMAIN m : m[i] \in Ips
    BY <1>2 DEF ToSet
  <2> HIDE DEF m
  <2>3. {i \in DOMAIN m : m[i] \notin DOMAIN Preset} = Kept(m, Ips \ DOMAIN Preset)
    BY <2>2 DEF Kept
  <2>4. Filter(m, LAMBDA ip : ip \notin DOMAIN Preset) = Sublist(m, Kept(m, Ips \ DOMAIN Preset))
    BY <2>3 DEF Filter
  <2> QED
    BY <2>1, <2>4 DEF DevicesFromMap, m, Filter, Kept
<1> HIDE DEF mapped, others
<1>5. Once(mapped(PresetOrder) \o others)
  <2>1. ToSet(mapped(PresetOrder)) \cap ToSet(others) = {}
    BY <1>2, <1>3
  <2> QED
    BY <1>2, <1>3, <2>1, ConcatOnce
<1> QED
  BY <1>2, <1>4, <1>5

\* A list of different addresses is not longer than that of all.
LEMMA OnceFits ==
    ASSUME NEW s, Once(s), ToSet(s) \subseteq Ips
    PROVE  Len(s) \in 0..Len(IpOrder) /\ DOMAIN s = 1..Len(s)
<1>1. Len(s) \in Nat /\ DOMAIN s = 1..Len(s) /\ s = [k \in DOMAIN s |-> s[k]]
  BY ListBounds DEF Once
<1>2. s \in Injection(1..Len(s), Ips)
  <2>1. \A k \in 1..Len(s) : s[k] \in Ips
    BY <1>1 DEF ToSet
  <2>2. s \in [1..Len(s) -> Ips]
    BY <1>1, <2>1
  <2> QED
    BY <1>1, <2>2 DEF Injection, IsInjective, Once
<1>3. Len(s) <= Cardinality(Ips) /\ Cardinality(Ips) \in Nat
  <2>1. Cardinality(1..Len(s)) = Len(s)
    BY <1>1, FS_Interval
  <2>2. Cardinality(1..Len(s)) <= Cardinality(Ips)
    BY <1>2, IpsFinite, FS_Injection
  <2> QED
    BY <2>1, <2>2, IpsFinite, FS_CardinalityType
<1>4. Len(IpOrder) \in Nat /\ Cardinality(Ips) <= Len(IpOrder)
  <2>1. Len(IpOrder) \in Nat /\ DOMAIN IpOrder = 1..Len(IpOrder) /\ IpOrder \in [1..Len(IpOrder) -> Ips]
    BY HostAssumption
  <2>2. \A ip \in Ips : \E k \in 1..Len(IpOrder) : IpOrder[k] = ip
    BY <2>1 DEF Ips, ToSet
  <2>3. IpOrder \in Surjection(1..Len(IpOrder), Ips)
    BY <2>1, <2>2 DEF Surjection
  <2> QED
    BY <2>1, <2>3, FS_Interval, FS_Surjection
<1> QED
  BY <1>1, <1>3, <1>4

\* The places of a lane lie within the view and rise.
LEMMA PlaceInside ==
    ASSUME NEW n \in 1..Len(IpOrder), NEW i \in 1..n
    PROVE  /\ Place(i, n) \in 56 * Unit..(Height - 40) * Unit /\ Place(i, n) \in Nat
           /\ \A j \in 1..n : i < j => Place(i, n) < Place(j, n)
<1> DEFINE q == Unit \div (2 * n)
           h == Height - 96
           f(j) == (2 * j - 1) * q
<1>0. Len(IpOrder) \in Nat /\ n \in Nat \ {0} /\ i \in Nat
  BY HostAssumption
<1>1. Unit = (2 * n) * q /\ q \in Nat \ {0} /\ Unit \in Nat /\ h \in Nat \ {0} /\ Height \in Nat
  <2>1. Unit % (2 * n) = 0 /\ Unit \in Nat \ {0} /\ 2 * n \in Nat \ {0} /\ h \in Nat \ {0} /\ Height \in Nat
    BY <1>0, ViewAssumption
  <2>2. Unit = (2 * n) * q /\ q \in Nat
    BY <2>1, WholeQuotient
  <2>3. q # 0
    BY <2>1, <2>2
  <2> QED
    BY <2>1, <2>2, <2>3
<1>2. \A j : Place(j, n) = 56 * Unit + h * f(j)
  BY DEF Place
<1> HIDE DEF q, h
<1>3. \A j \in 1..n : f(j) \in Nat /\ f(j) <= Unit
  <2> TAKE j \in 1..n
  <2>1. 2 * j - 1 \in Nat /\ 2 * j - 1 <= 2 * n /\ 2 * n \in Nat
    BY <1>0
  <2>2. q * (2 * j - 1) \in Nat /\ q * (2 * j - 1) <= q * (2 * n)
    BY <1>1, <2>1, ProductGrows
  <2> QED
    BY <1>0, <1>1, <2>1, <2>2
<1>4. \A j \in 1..n : i < j => f(i) < f(j)
  <2> SUFFICES ASSUME NEW j \in 1..n, i < j PROVE f(i) < f(j)
    OBVIOUS
  <2>1. 2 * i - 1 \in Nat /\ 2 * j - 1 \in Nat /\ 2 * i - 1 < 2 * j - 1
    BY <1>0
  <2>2. q * (2 * i - 1) < q * (2 * j - 1)
    BY <1>1, <2>1, ProductGrows
  <2> QED
    BY <1>1, <2>1, <2>2
<1> HIDE DEF f
<1>5. h * f(i) \in Nat /\ h * f(i) <= h * Unit
  BY <1>1, <1>3, ProductGrows
<1>6. \A j \in 1..n : i < j => h * f(i) < h * f(j) /\ h * f(j) \in Nat
  BY <1>1, <1>3, <1>4, ProductGrows
<1>7. 56 * Unit + h * Unit = (Height - 40) * Unit
  BY <1>1 DEF h
<1> DEFINE b == 56 * Unit
           t == (Height - 40) * Unit
           x == h * f(i)
<1>8. b \in Nat /\ t \in Int /\ x \in Nat /\ b + x <= t
  <2>1. h * Unit \in Nat /\ b \in Nat /\ t \in Int
    BY <1>1
  <2> DEFINE y == h * Unit
  <2>2. y \in Nat /\ b + y = t /\ x <= y /\ x \in Nat
    BY <1>5, <1>7, <2>1
  <2> HIDE DEF x, y, b, t
  <2> QED
    BY <2>1, <2>2
<1>9. Place(i, n) = b + x
  BY <1>2
<1>10. Place(i, n) \in b..t /\ Place(i, n) \in Nat
  <2> HIDE DEF b, t, x
  <2> QED
    BY <1>8, <1>9
<1>11. \A j \in 1..n : i < j => Place(i, n) < Place(j, n)
  <2> SUFFICES ASSUME NEW j \in 1..n, i < j PROVE Place(i, n) < Place(j, n)
    OBVIOUS
  <2> DEFINE y == h * f(j)
  <2>1. x < y /\ y \in Nat /\ Place(j, n) = b + y
    BY <1>2, <1>6
  <2> HIDE DEF b, t, x, y
  <2> QED
    BY <1>8, <1>9, <2>1
<1> QED
  BY <1>10, <1>11

\* A list in an order that a strict order of its positions gives has the same values.
LEMMA ArrangedOnce ==
    ASSUME NEW s, Once(s), NEW R, Strict(DOMAIN s, R)
    PROVE  Once(Arranged(s, R)) /\ ToSet(Arranged(s, R)) = ToSet(s)
<1> DEFINE at == InOrder(DOMAIN s, R)
           l == Arranged(s, R)
<1>0. /\ IsFiniteSet(DOMAIN s) /\ Len(s) \in Nat
      /\ DOMAIN s = 1..Len(s) /\ Cardinality(DOMAIN s) = Len(s)
  BY ListBounds DEF Once
<1>1. Follows(at, DOMAIN s, R)
  BY <1>0, InOrderFollows
<1>2. l = [k \in 1..Len(s) |-> s[at[k]]]
  BY <1>0 DEF Arranged
<1> HIDE DEF at, l
<1>3. List(l) /\ DOMAIN l = 1..Len(s)
  <2>1. l = [k \in 1..Len(s) |-> l[k]]
    BY <1>2
  <2> QED
    BY <1>0, <2>1, ListMade
<1>4. \A k \in 1..Len(s) : at[k] \in DOMAIN s /\ l[k] = s[at[k]]
  BY <1>0, <1>1, <1>2 DEF Follows
<1>5. \A i \in DOMAIN s : \E k \in 1..Len(s) : at[k] = i
  BY <1>0, <1>1 DEF Follows
<1>6. \A j, k \in 1..Len(s) : at[j] = at[k] => j = k
  <2> SUFFICES ASSUME NEW j \in 1..Len(s), NEW k \in 1..Len(s), at[j] = at[k] PROVE j = k
    OBVIOUS
  <2>1. <<at[j], at[k]>> \notin R /\ <<at[k], at[j]>> \notin R
    BY <1>4 DEF Strict
  <2>2. ~(j < k) /\ ~(k < j)
    BY <1>0, <1>1, <2>1 DEF Follows
  <2> QED
    BY <1>0, <2>2
<1>7. \A j, k \in DOMAIN l : l[j] = l[k] => j = k
  BY <1>3, <1>4, <1>6 DEF Once
<1>8. ToSet(l) = ToSet(s)
  <2>1. \A k \in DOMAIN l : \E i \in DOMAIN s : l[k] = s[i]
    BY <1>3, <1>4
  <2>2. \A i \in DOMAIN s : \E k \in DOMAIN l : l[k] = s[i]
    <3> TAKE i \in DOMAIN s
    <3>1. PICK k \in 1..Len(s) : at[k] = i
      BY <1>5
    <3> QED
      BY <1>3, <1>4, <3>1
  <2> QED
    BY <2>1, <2>2 DEF ToSet
<1> QED
  BY <1>3, <1>7, <1>8 DEF Once, l

\* The devices of a lane.
InLane(dm, ds, g) == {ip \in ToSet(ds) : dm[ip].group = g}

\* Each is listed once.
LEMMA MembersAre ==
    ASSUME NEW dm, NEW ds, Once(ds), NEW g
    PROVE  Once(Members(ds, dm, g)) /\ ToSet(Members(ds, dm, g)) = InLane(dm, ds, g)
<1>1. Members(ds, dm, g) = Sublist(ds, Kept(ds, InLane(dm, ds, g)))
  <2>1. Members(ds, dm, g) = Sublist(ds, {i \in DOMAIN ds : dm[ds[i]].group = g})
    BY DEF Members, Filter
  <2>2. \A i \in DOMAIN ds : ds[i] \in InLane(dm, ds, g) <=> dm[ds[i]].group = g
    BY DEF InLane, ToSet
  <2>3. {i \in DOMAIN ds : dm[ds[i]].group = g} = Kept(ds, InLane(dm, ds, g))
    BY <2>2 DEF Kept
  <2> QED
    BY <2>1, <2>3
<1>2. InLane(dm, ds, g) \subseteq ToSet(ds)
  BY DEF InLane
<1> DEFINE V == InLane(dm, ds, g)
<1>3. Once(Sublist(ds, Kept(ds, V))) /\ ToSet(Sublist(ds, Kept(ds, V))) = ToSet(ds) \cap V
  BY FilterOnce, FilterKeeps DEF Once
<1>4. ToSet(ds) \cap V = V
  BY <1>2
<1> HIDE DEF V
<1> QED
  BY <1>1, <1>3, <1>4 DEF V

\* The devices in the lanes of L are placed, within the view, and apart in their lane.
PlacedWell(pos, dm, ds, L) ==
    /\ DOMAIN pos = {ip \in ToSet(ds) : dm[ip].group \in L}
    /\ \A ip \in DOMAIN pos : pos[ip] \in 56 * Unit..(Height - 40) * Unit /\ pos[ip] \in Nat
    /\ \A a, b \in DOMAIN pos : a # b /\ dm[a].group = dm[b].group => pos[a] # pos[b]

\* Placing the members of a lane, in any order, keeps that and adds the lane.
LEMMA PlacedKeeps ==
    ASSUME NEW pos, NEW dm, NEW ds, NEW L, PlacedWell(pos, dm, ds, L), ToSet(ds) \subseteq Ips,
           NEW m, Once(m), NEW g, ToSet(m) = InLane(dm, ds, g)
    PROVE  PlacedWell(Placed(pos, m), dm, ds, L \cup {g})
<1> DEFINE n == Len(m)
           at(ip) == CHOOSE i \in DOMAIN m : m[i] = ip
           new == Placed(pos, m)
<1>1. n \in 0..Len(IpOrder) /\ DOMAIN m = 1..n
  BY OnceFits DEF InLane
<1>2. \A ip : Contains(m, ip) <=> ip \in ToSet(m)
  BY <1>1 DEF Contains, ToSet
<1>3. \A ip \in ToSet(m) : at(ip) \in 1..n /\ m[at(ip)] = ip
  BY <1>1 DEF ToSet
<1>4. /\ DOMAIN new = DOMAIN pos \cup ToSet(m)
      /\ \A ip \in ToSet(m) : new[ip] = Place(at(ip), n)
      /\ \A ip \in DOMAIN pos \ ToSet(m) : new[ip] = pos[ip]
  BY <1>2 DEF Placed
<1> HIDE DEF n, at, new
<1>5. n # 0 => n \in 1..Len(IpOrder)
  <2>1. Len(IpOrder) \in Nat
    BY HostAssumption
  <2> QED
    BY <1>1, <2>1
<1>6. \A ip \in ToSet(m) : n \in 1..Len(IpOrder) /\ new[ip] \in 56 * Unit..(Height - 40) * Unit /\ new[ip] \in Nat
  <2> TAKE ip \in ToSet(m)
  <2>1. at(ip) \in 1..n
    BY <1>3
  <2>2. n \in 1..Len(IpOrder)
    BY <1>1, <1>5, <2>1
  <2> QED
    BY <1>4, <2>1, <2>2, PlaceInside
<1>7. \A a, b \in ToSet(m) : a # b => new[a] # new[b]
  <2> SUFFICES ASSUME NEW a \in ToSet(m), NEW b \in ToSet(m), a # b PROVE new[a] # new[b]
    OBVIOUS
  <2>1. at(a) \in 1..n /\ at(b) \in 1..n /\ at(a) # at(b) /\ n \in 1..Len(IpOrder)
    BY <1>3, <1>6
  <2> DEFINE i == at(a)
             j == at(b)
  <2>2. new[a] = Place(i, n) /\ new[b] = Place(j, n)
    BY <1>4
  <2>3. i \in 1..n /\ j \in 1..n /\ i # j /\ n \in 1..Len(IpOrder)
    BY <2>1
  <2> HIDE DEF i, j
  <2>4. Place(i, n) \in Nat /\ Place(j, n) \in Nat
    BY <2>3, PlaceInside
  <2>5. i < j => Place(i, n) < Place(j, n)
    BY <2>3, PlaceInside
  <2>6. j < i => Place(j, n) < Place(i, n)
    BY <2>3, PlaceInside
  <2>7. i < j \/ j < i
    BY <2>3
  <2> QED
    BY <2>2, <2>4, <2>5, <2>6, <2>7
<1>8. DOMAIN new = {ip \in ToSet(ds) : dm[ip].group \in L \cup {g}}
  BY <1>4 DEF PlacedWell, InLane
<1>9. \A a, b \in DOMAIN new : a # b /\ dm[a].group = dm[b].group => new[a] # new[b]
  <2> SUFFICES ASSUME NEW a \in DOMAIN new, NEW b \in DOMAIN new, a # b, dm[a].group = dm[b].group
               PROVE  new[a] # new[b]
    OBVIOUS
  <2>1. a \in ToSet(m) <=> b \in ToSet(m)
    BY <1>8 DEF InLane
  <2>2. CASE a \in ToSet(m)
    BY <1>7, <2>1, <2>2
  <2>3. CASE a \notin ToSet(m)
    <3>1. a \in DOMAIN pos \ ToSet(m) /\ b \in DOMAIN pos \ ToSet(m)
      BY <1>4, <2>1, <2>3
    <3> QED
      BY <1>4, <3>1 DEF PlacedWell
  <2> QED
    BY <2>2, <2>3
<1>10. \A ip \in DOMAIN new : new[ip] \in 56 * Unit..(Height - 40) * Unit /\ new[ip] \in Nat
  <2> SUFFICES ASSUME NEW ip \in DOMAIN new
               PROVE  new[ip] \in 56 * Unit..(Height - 40) * Unit /\ new[ip] \in Nat
    OBVIOUS
  <2>1. ip \in ToSet(m) \/ ip \in DOMAIN pos \ ToSet(m)
    BY <1>4
  <2> QED
    BY <1>4, <1>6, <2>1 DEF PlacedWell
<1> QED
  BY <1>8, <1>9, <1>10 DEF PlacedWell, new

\* The neighbourhood of a device is a fraction.
Fraction(x) == x[1] \in Nat /\ x[2] \in Nat \ {0}

\* Places that all devices of the edges have, and edges that count a packet each.
EdgesPlaced(edges, pos) ==
    /\ List(edges)
    /\ \A k \in DOMAIN edges : /\ edges[k].count \in Nat \ {0}
                               /\ edges[k].src \in DOMAIN pos /\ edges[k].dst \in DOMAIN pos
    /\ \A ip \in DOMAIN pos : pos[ip] \in Nat

\* Then the weights of a device's neighbours are not all nought.
LEMMA NeighbourhoodIs ==
    ASSUME NEW edges, NEW pos, EdgesPlaced(edges, pos), NEW ip \in DOMAIN pos
    PROVE  Fraction(Neighbourhood(ip, edges, pos))
<1> DEFINE I == {k \in DOMAIN edges : ip \in {edges[k].src, edges[k].dst}}
           mine == Sublist(edges, I)
           other(e) == IF e.src = ip THEN e.dst ELSE e.src
           D == DOMAIN mine
           F == [k \in D |-> pos[other(mine[k])] * mine[k].count]
           G == [k \in D |-> mine[k].count]
           x == Neighbourhood(ip, edges, pos)
<1>1. x = IF mine = <<>> THEN <<pos[ip], 1>>
          ELSE <<SumFunctionOnSet(F, D), SumFunctionOnSet(G, D)>>
  BY DEF Neighbourhood, Filter, Total, SumFunction
<1>2. List(edges) /\ I \in SUBSET DOMAIN edges
  BY DEF EdgesPlaced
<1>3. List(mine) /\ \A k \in D : \E i \in I : mine[k] = edges[i]
  BY <1>2, SublistKeeps
<1>4. \A k \in D : /\ mine[k].count \in Nat \ {0}
                   /\ mine[k].src \in DOMAIN pos /\ mine[k].dst \in DOMAIN pos
  BY <1>2, <1>3 DEF EdgesPlaced
<1> HIDE DEF I, mine
<1>5. IsFiniteSet(D) /\ Len(mine) \in Nat /\ D = 1..Len(mine) /\ (mine # <<>> => 1 \in D)
  <2>1. IsFiniteSet(D) /\ Len(mine) \in Nat /\ D = 1..Len(mine)
    BY <1>3, ListBounds
  <2>2. mine # <<>> => Len(mine) # 0
    BY <1>3 DEF List
  <2> QED
    BY <2>1, <2>2
<1>6. \A k \in D : F[k] \in Nat /\ G[k] \in Nat \ {0}
  <2> TAKE k \in D
  <2>1. other(mine[k]) \in DOMAIN pos
    BY <1>4
  <2> DEFINE y == pos[other(mine[k])]
             c == mine[k].count
  <2>2. y \in Nat /\ c \in Nat \ {0}
    BY <1>4, <2>1 DEF EdgesPlaced
  <2>3. F[k] = y * c /\ G[k] = c
    OBVIOUS
  <2> HIDE DEF y, c, F, G
  <2> QED
    BY <2>2, <2>3
<1> HIDE DEF F, G
<1>7. SumFunctionOnSet(F, D) \in Nat /\ SumFunctionOnSet(G, D) \in Nat
  BY <1>5, <1>6, SumIsNat
<1>8. mine # <<>> => SumFunctionOnSet(G, D) # 0
  <2> SUFFICES ASSUME mine # <<>> PROVE SumFunctionOnSet(G, D) # 0
    OBVIOUS
  <2>1. 1 \in D /\ \A k \in D : G[k] \in Nat
    BY <1>5, <1>6
  <2>2. SumFunctionOnSet(G, D) = G[1] + SumFunctionOnSet(G, D \ {1})
    BY <1>5, <2>1, SumTakes
  <2>3. IsFiniteSet(D \ {1})
    BY <1>5, FS_RemoveElement
  <2>4. SumFunctionOnSet(G, D \ {1}) \in Nat
    BY <2>1, <2>3, SumIsNat
  <2>5. G[1] \in Nat \ {0}
    BY <1>6, <2>1
  <2> QED
    BY <2>2, <2>4, <2>5
<1>9. pos[ip] \in Nat
  BY DEF EdgesPlaced
<1> HIDE DEF x, D
<1>10. CASE mine = <<>>
  BY <1>1, <1>9, <1>10 DEF Fraction, x
<1>11. CASE mine # <<>>
  BY <1>1, <1>7, <1>8, <1>11 DEF Fraction, x
<1> QED
  BY <1>10, <1>11 DEF x

\* A ranked lane has the devices of the lane, each once.
LEMMA RankedOnce ==
    ASSUME NEW m, Once(m), NEW edges, NEW pos, NEW stats,
           \A ip \in ToSet(m) : Fraction(Neighbourhood(ip, edges, pos))
    PROVE  Once(Ranked(m, edges, stats, pos)) /\ ToSet(Ranked(m, edges, stats, pos)) = ToSet(m)
<1> DEFINE D == DOMAIN m
           x(i) == Neighbourhood(m[i], edges, pos)
           p(i) == x(i)[1]
           q(i) == x(i)[2]
           B == {i \in D : Busy(stats, m[i])}
           W == {r \in D \X D : \/ r[1] \in B /\ r[2] \notin B
                                \/ /\ r[1] \in B <=> r[2] \in B
                                   /\ p(r[1]) * q(r[2]) < p(r[2]) * q(r[1])}
           R == {r \in D \X D : <<r[1], r[2]>> \in W \/ (<<r[2], r[1]>> \notin W /\ r[1] < r[2])}
           ahead(a, b) ==
               LET s == Neighbourhood(a, edges, pos)
                   t == Neighbourhood(b, edges, pos)
               IN  IF Busy(stats, a) # Busy(stats, b) THEN Busy(stats, a)
                   ELSE s[1] * t[2] < t[1] * s[2]
           before == {r \in D \X D : \/ ahead(m[r[1]], m[r[2]])
                                     \/ ~ahead(m[r[2]], m[r[1]]) /\ r[1] < r[2]}
<1>1. Ranked(m, edges, stats, pos) = Arranged(m, before)
  BY DEF Ranked, Sorted, Arranged
<1>2. D \in SUBSET Int
  BY ListBounds DEF Once
<1>3. \A i \in D : p(i) \in Nat /\ q(i) \in Nat \ {0}
  BY DEF ToSet, Fraction
<1>4. \A i, j \in D : ahead(m[i], m[j]) <=> <<i, j>> \in W
  <2> TAKE i, j \in D
  <2>1. (i \in B <=> Busy(stats, m[i])) /\ (j \in B <=> Busy(stats, m[j]))
    BY Zenon
  <2>2. ahead(m[i], m[j]) <=> (IF Busy(stats, m[i]) # Busy(stats, m[j]) THEN Busy(stats, m[i])
                               ELSE p(i) * q(j) < p(j) * q(i))
    BY Zenon
  <2>3. <<i, j>> \in W <=> (\/ i \in B /\ j \notin B
                            \/ (i \in B <=> j \in B) /\ p(i) * q(j) < p(j) * q(i))
    OBVIOUS
  <2> DEFINE u == Busy(stats, m[i])
             v == Busy(stats, m[j])
  <2>4. u \in BOOLEAN /\ v \in BOOLEAN
    BY DEF Busy
  <2> HIDE DEF u, v, ahead, W, B, p, q
  <2>5. (u # v) <=> ~(u <=> v)
    BY <2>4
  <2> QED
    BY <2>1, <2>2, <2>3, <2>5, Zenon DEF u, v
<1>5. before = R
  <2>1. \A i, j \in D : <<i, j>> \in before <=> <<i, j>> \in R
    <3> TAKE i, j \in D
    <3>1. <<i, j>> \in before <=> ahead(m[i], m[j]) \/ (~ahead(m[j], m[i]) /\ i < j)
      OBVIOUS
    <3>2. <<i, j>> \in R <=> <<i, j>> \in W \/ (<<j, i>> \notin W /\ i < j)
      OBVIOUS
    <3> HIDE DEF ahead, W, before, R
    <3> QED
      BY <1>4, <3>1, <3>2, Zenon
  <2>2. before \in SUBSET (D \X D) /\ R \in SUBSET (D \X D)
    OBVIOUS
  <2> HIDE DEF before, R
  <2> QED
    BY <2>1, <2>2
<1>6. Strict(D, R)
  <2>0. \A i, j \in D : <<i, j>> \in W <=> (\/ i \in B /\ j \notin B
                                            \/ (i \in B <=> j \in B) /\ p(i) * q(j) < p(j) * q(i))
    OBVIOUS
  <2> DEFINE c(i, j) == p(i) * q(j)
  <2>1. \A i, j \in D : c(i, j) \in Nat
    BY <1>3, ProductGrows
  <2>2. \A i, j, k \in D : c(i, j) <= c(j, i) /\ c(j, k) <= c(k, j) => c(i, k) <= c(k, i)
    <3> SUFFICES ASSUME NEW i \in D, NEW j \in D, NEW k \in D,
                        c(i, j) <= c(j, i), c(j, k) <= c(k, j)
                 PROVE  c(i, k) <= c(k, i)
      OBVIOUS
    <3>1. /\ p(i) \in Nat /\ p(j) \in Nat /\ p(k) \in Nat
          /\ q(i) \in Nat \ {0} /\ q(j) \in Nat \ {0} /\ q(k) \in Nat \ {0}
      BY <1>3
    <3> HIDE DEF p, q
    <3> QED
      BY <3>1, FractionsOrder
  <2>3. \A i, j \in D : <<i, j>> \in W <=> (\/ i \in B /\ j \notin B
                                            \/ (i \in B <=> j \in B) /\ c(i, j) < c(j, i))
    BY <2>0
  <2> HIDE DEF W, B, c
  <2>4. \A i, j \in D : (c(i, j) < c(j, i) <=> ~(c(j, i) <= c(i, j))) /\ ~(c(i, i) < c(i, i))
    BY <2>1
  <2>5. \A i \in D : <<i, i>> \notin W
    BY <2>3, <2>4
  <2>6. \A i, j \in D : <<i, j>> \in W => <<j, i>> \notin W
    <3>1. \A i, j \in D : ~(c(i, j) < c(j, i) /\ c(j, i) < c(i, j))
      BY <2>1
    <3> QED
      BY <2>3, <3>1
  <2>7. \A i, j, k \in D : <<i, j>> \notin W /\ <<j, k>> \notin W => <<i, k>> \notin W
    <3> TAKE i, j, k \in D
    <3>1. c(k, j) <= c(j, k) /\ c(j, i) <= c(i, j) => c(k, i) <= c(i, k)
      BY <2>2
    <3> QED
      BY <2>3, <2>4, <3>1
  <2> HIDE DEF D
  <2> QED
    BY <1>2, <2>5, <2>6, <2>7, WeakStrict
<1> HIDE DEF R, before
<1> QED
  BY <1>1, <1>5, <1>6, ArrangedOnce

\* The lane placed in the k-th step, and what the step makes of the places: at first
\* lanes are placed as listed, then as ranked.
LaneAt(ds, dm, k) == Members(ds, dm, GroupOrder[1 + ((k - 1) % Len(GroupOrder))])

LaneStep(how, ds, dm, es, st, pos, k) ==
    Placed(pos, IF how = "listed" THEN LaneAt(ds, dm, k)
                ELSE Ranked(LaneAt(ds, dm, k), es, st, pos))

StepsBody(how, ds, dm, es, st, n, start, f) ==
    [k \in 0..n |-> IF k = 0 THEN start ELSE LaneStep(how, ds, dm, es, st, f[k - 1], k)]

Steps(how, ds, dm, es, st, n, start) ==
    CHOOSE f : f = StepsBody(how, ds, dm, es, st, n, start, f)

\* The steps are a recursive function; there is one.
LEMMA StepsExist ==
    ASSUME NEW how, NEW ds, NEW dm, NEW es, NEW st, NEW n \in Nat, NEW start
    PROVE  \E f : f = StepsBody(how, ds, dm, es, st, n, start, f)
<1> DEFINE step(pos, k) == LaneStep(how, ds, dm, es, st, pos, k)
           Upto(j, f) == \A i \in 0..j : f[i] = IF i = 0 THEN start ELSE step(f[i - 1], i)
           T == {j \in Nat : \E f : Upto(j, f)}
<1> HIDE DEF step
<1>1. 0 \in T
  <2>1. Upto(0, [i \in 0..0 |-> start])
    OBVIOUS
  <2> HIDE DEF Upto
  <2> QED
    BY <2>1
<1>2. ASSUME NEW j \in Nat, j \in T PROVE j + 1 \in T
  <2>1. PICK f : Upto(j, f)
    BY <1>2
  <2> DEFINE v == step(f[j], j + 1)
             g == [i \in 0..j + 1 |-> IF i <= j THEN f[i] ELSE v]
  <2>2. ASSUME NEW i \in 0..j + 1
        PROVE  g[i] = IF i = 0 THEN start ELSE step(g[i - 1], i)
    <3> HIDE DEF v
    <3>1. CASE i = j + 1
      <4>1. g[i] = v /\ g[i - 1] = f[j] /\ i # 0
        BY <3>1
      <4> QED
        BY <3>1, <4>1 DEF v
    <3>2. CASE i \in 0..j
      <4>1. f[i] = IF i = 0 THEN start ELSE step(f[i - 1], i)
        BY <2>1, <3>2
      <4>2. g[i] = f[i] /\ (i # 0 => g[i - 1] = f[i - 1])
        BY <3>2
      <4> QED
        BY <4>1, <4>2
    <3> QED
      BY <3>1, <3>2
  <2> HIDE DEF g
  <2> QED
    BY <2>2
<1>3. n \in T
  <2> HIDE DEF T
  <2> QED
    BY <1>1, <1>2, Induction
<1>4. PICK f : Upto(n, f)
  BY <1>3
<1> DEFINE h == [i \in 0..n |-> f[i]]
<1>5. \A i \in 0..n : h[i] = IF i = 0 THEN start ELSE step(h[i - 1], i)
  <2> SUFFICES ASSUME NEW i \in 0..n
               PROVE  h[i] = IF i = 0 THEN start ELSE step(h[i - 1], i)
    OBVIOUS
  <2>1. f[i] = IF i = 0 THEN start ELSE step(f[i - 1], i)
    BY <1>4
  <2>2. h[i] = f[i] /\ (i # 0 => h[i - 1] = f[i - 1])
    OBVIOUS
  <2> HIDE DEF h
  <2> QED
    BY <2>1, <2>2
<1>6. h = [i \in 0..n |-> h[i]]
  OBVIOUS
<1> HIDE DEF h
<1>7. h = StepsBody(how, ds, dm, es, st, n, start, h)
  BY <1>5, <1>6, Zenon DEF StepsBody, step
<1> QED
  BY <1>7

\* They begin with the places at the start, and go on lane by lane.
LEMMA StepsAre ==
    ASSUME NEW how, NEW ds, NEW dm, NEW es, NEW st, NEW n \in Nat, NEW start
    PROVE  LET f == Steps(how, ds, dm, es, st, n, start)
           IN  f[0] = start /\ \A k \in 1..n : f[k] = LaneStep(how, ds, dm, es, st, f[k - 1], k)
<1> DEFINE f == Steps(how, ds, dm, es, st, n, start)
<1>1. f = StepsBody(how, ds, dm, es, st, n, start, f)
  BY StepsExist DEF Steps
<1> HIDE DEF f
<1>2. f = [k \in 0..n |-> IF k = 0 THEN start ELSE LaneStep(how, ds, dm, es, st, f[k - 1], k)]
  BY <1>1, Zenon DEF StepsBody
<1>3. \A k \in 0..n : f[k] = IF k = 0 THEN start ELSE LaneStep(how, ds, dm, es, st, f[k - 1], k)
  BY <1>2, Zenon
<1>4. 0 \in 0..n /\ \A k \in 1..n : k \in 0..n /\ k # 0
  OBVIOUS
<1>5. f[0] = start
  BY <1>3, <1>4, Zenon
<1>6. \A k \in 1..n : f[k] = LaneStep(how, ds, dm, es, st, f[k - 1], k)
  BY <1>3, <1>4, Zenon
<1> QED
  BY <1>5, <1>6, Zenon DEF f

\* Positions are five steps of the one kind and fifteen of the other.
LEMMA PositionsAre ==
    ASSUME NEW ds, NEW dm, NEW es, NEW st
    PROVE  LET listed == Steps("listed", ds, dm, es, st, Len(GroupOrder), [ip \in {} |-> 0])
               ranked == Steps("ranked", ds, dm, es, st, 3 * Len(GroupOrder), listed[Len(GroupOrder)])
           IN  Positions(ds, dm, es, st) = ranked[3 * Len(GroupOrder)]
BY DEF Positions, Steps, StepsBody, LaneStep, LaneAt

\* Edges between listed devices that count a packet each.
EdgesFit(es, ds) ==
    /\ List(es)
    /\ \A k \in DOMAIN es : /\ es[k].count \in Nat \ {0}
                            /\ es[k].src \in ToSet(ds) /\ es[k].dst \in ToSet(ds)

\* Whatever the order of lanes and passes, all devices end up placed, each within the
\* view and away from the others of its lane.
LEMMA AllPlaced ==
    ASSUME NEW ds, Once(ds), ToSet(ds) \subseteq Ips,
           NEW dm, \A ip \in ToSet(ds) : dm[ip].group \in Groups,
           NEW es, EdgesFit(es, ds), NEW st
    PROVE  PlacedWell(Positions(ds, dm, es, st), dm, ds, Groups)
<1> DEFINE n == Len(GroupOrder)
           empty == [ip \in {} |-> 0]
           listed == Steps("listed", ds, dm, es, st, n, empty)
           ranked == Steps("ranked", ds, dm, es, st, 3 * n, listed[n])
           lanes(k) == {GroupOrder[j] : j \in 1..k}
<1>0. n = 5 /\ DOMAIN GroupOrder = 1..5 /\ lanes(5) = Groups
      /\ \A k \in 1..5 : GroupOrder[k] \in Groups
  BY DEF GroupOrder, Groups
<1>1. Positions(ds, dm, es, st) = ranked[3 * n]
  BY PositionsAre
<1>2. /\ listed[0] = empty
      /\ \A k \in 1..n : listed[k] = LaneStep("listed", ds, dm, es, st, listed[k - 1], k)
  <2>1. n \in Nat
    BY <1>0
  <2> HIDE DEF n, empty
  <2> QED
    BY <2>1, StepsAre
<1>3. /\ ranked[0] = listed[n]
      /\ \A k \in 1..3 * n : ranked[k] = LaneStep("ranked", ds, dm, es, st, ranked[k - 1], k)
  <2>1. 3 * n \in Nat
    BY <1>0
  <2> DEFINE m == 3 * n
             start == listed[n]
  <2>2. m \in Nat
    BY <2>1
  <2> HIDE DEF n, listed, m, start
  <2>3. LET f == Steps("ranked", ds, dm, es, st, m, start)
        IN  f[0] = start /\ \A k \in 1..m : f[k] = LaneStep("ranked", ds, dm, es, st, f[k - 1], k)
    BY <2>2, StepsAre
  <2> QED
    BY <2>3 DEF m, start
<1> HIDE DEF listed, ranked, n
<1>4. PlacedWell(listed[5], dm, ds, Groups)
  <2> DEFINE T == {k \in Nat : k <= 5 => PlacedWell(listed[k], dm, ds, lanes(k))}
  <2>1. 0 \in T
    <3>1. PlacedWell(empty, dm, ds, {})
      BY DEF PlacedWell
    <3>2. lanes(0) = {}
      OBVIOUS
    <3> QED
      BY <1>2, <3>1, <3>2
  <2>2. ASSUME NEW k \in Nat, k \in T PROVE k + 1 \in T
    <3> SUFFICES ASSUME k + 1 <= 5 PROVE PlacedWell(listed[k + 1], dm, ds, lanes(k + 1))
      OBVIOUS
    <3> DEFINE g == GroupOrder[k + 1]
               m == Members(ds, dm, g)
    <3>1. PlacedWell(listed[k], dm, ds, lanes(k))
      BY <2>2
    <3>2. LaneAt(ds, dm, k + 1) = m
      <4>1. k + 1 \in 1..5 /\ (k + 1) - 1 = k /\ k % 5 = k
        OBVIOUS
      <4>2. 1 + (((k + 1) - 1) % n) = k + 1
        BY <1>0, <4>1
      <4> QED
        BY <4>2 DEF LaneAt, n
    <3>3. Once(m) /\ ToSet(m) = InLane(dm, ds, g)
      BY MembersAre
    <3>4. listed[k + 1] = Placed(listed[k], m)
      <4>1. k + 1 \in 1..n /\ (k + 1) - 1 = k
        BY <1>0
      <4>2. listed[k + 1] = LaneStep("listed", ds, dm, es, st, listed[(k + 1) - 1], k + 1)
        BY <1>2, <4>1
      <4> HIDE DEF m
      <4> QED
        BY <3>2, <4>1, <4>2 DEF LaneStep
    <3>5. lanes(k + 1) = lanes(k) \cup {g}
      <4>1. \A j : j \in 1..k + 1 <=> (j \in 1..k \/ j = k + 1)
        OBVIOUS
      <4> QED
        BY <4>1
    <3> HIDE DEF g, m, lanes
    <3> QED
      BY <3>1, <3>3, <3>4, <3>5, PlacedKeeps
  <2>3. 5 \in T
    <3> HIDE DEF T
    <3> QED
      BY <2>1, <2>2, Induction
  <2> HIDE DEF lanes
  <2> QED
    BY <1>0, <2>3
<1>5. PlacedWell(ranked[15], dm, ds, Groups)
  <2> DEFINE T == {k \in Nat : k <= 15 => PlacedWell(ranked[k], dm, ds, Groups)}
  <2>1. 0 \in T
    BY <1>0, <1>3, <1>4
  <2>2. ASSUME NEW k \in Nat, k \in T PROVE k + 1 \in T
    <3> SUFFICES ASSUME k + 1 <= 15 PROVE PlacedWell(ranked[k + 1], dm, ds, Groups)
      OBVIOUS
    <3> DEFINE g == GroupOrder[1 + (((k + 1) - 1) % n)]
               m == Members(ds, dm, g)
               pos == ranked[k]
               r == Ranked(m, es, st, pos)
    <3>1. PlacedWell(pos, dm, ds, Groups)
      BY <2>2
    <3>2. LaneAt(ds, dm, k + 1) = m
      BY DEF LaneAt, n
    <3>3. g \in Groups
      <4>1. (((k + 1) - 1) % n) \in 0..4
        BY <1>0
      <4>2. 1 + (((k + 1) - 1) % n) \in 1..5
        BY <4>1
      <4> QED
        BY <1>0, <4>2
    <3> HIDE DEF g, m
    <3>4. Once(m) /\ ToSet(m) = InLane(dm, ds, g)
      BY MembersAre DEF m
    <3>5. ranked[k + 1] = Placed(pos, r)
      <4>1. k + 1 \in 1..3 * n /\ (k + 1) - 1 = k
        BY <1>0
      <4>2. ranked[k + 1] = LaneStep("ranked", ds, dm, es, st, ranked[(k + 1) - 1], k + 1)
        BY <1>3, <4>1
      <4> QED
        BY <3>2, <4>1, <4>2 DEF LaneStep
    <3>6. DOMAIN pos = ToSet(ds)
      BY <3>1 DEF PlacedWell
    <3>7. EdgesPlaced(es, pos)
      BY <3>1, <3>6 DEF EdgesPlaced, EdgesFit, PlacedWell
    <3>8. \A ip \in ToSet(m) : Fraction(Neighbourhood(ip, es, pos))
      <4>1. ToSet(m) \subseteq DOMAIN pos
        BY <3>4, <3>6 DEF InLane
      <4> HIDE DEF pos
      <4> QED
        BY <3>7, <4>1, NeighbourhoodIs
    <3>9. Once(r) /\ ToSet(r) = InLane(dm, ds, g)
      <4> HIDE DEF pos
      <4> QED
        BY <3>4, <3>8, RankedOnce
    <3>10. Groups \cup {g} = Groups
      BY <3>3
    <3> HIDE DEF pos, r
    <3> QED
      BY <3>1, <3>5, <3>9, <3>10, PlacedKeeps
  <2> HIDE DEF T
  <2>3. 15 \in T
    BY <2>1, <2>2, Induction
  <2> QED
    BY <2>3 DEF T
<1> QED
  BY <1>0, <1>1, <1>5

---------------------------------------------------------------------------
(* The curves of a lane *)

\* The edges drawn are between listed devices, count a packet each, and differ in
\* source, destination or protocol.
LEMMA DrawnEdgesFit ==
    ASSUME NEW l, Packets(l), NEW ds, Hosts(l) \subseteq ToSet(ds)
    PROVE  /\ EdgesFit(Edges(l), ds)
           /\ \A k \in DOMAIN Edges(l) : Edges(l)[k].proto \in Protos
           /\ \A j, k \in DOMAIN Edges(l) :
                 /\ Edges(l)[j].src = Edges(l)[k].src /\ Edges(l)[j].dst = Edges(l)[k].dst
                 /\ Edges(l)[j].proto = Edges(l)[k].proto
                 => j = k
<1> DEFINE es == Edges(l)
           ks == EdgeKeys(l)
           keys == Distinct(ks)
           class(k) == Class(DOMAIN ks, ks, keys[k])
<1>1. DOMAIN ks = DOMAIN l /\ \A i \in DOMAIN l : ks[i] = <<<<IpOf(l[i].src), IpOf(l[i].dst)>>, l[i].proto>>
  BY DEF EdgeKeys, PairOf
<1>2. List(ks)
  <2>1. Len(l) \in Nat /\ DOMAIN l = 1..Len(l)
    BY PacketList
  <2>2. ks = [i \in 1..Len(l) |-> ks[i]]
    BY <2>1 DEF EdgeKeys
  <2> QED
    BY <2>1, <2>2, ListMade
<1>3. /\ List(es) /\ DOMAIN es = DOMAIN keys
      /\ \A k \in DOMAIN keys :
            /\ es[k].src = keys[k][1][1] /\ es[k].dst = keys[k][1][2]
            /\ es[k].count = SumFunctionOnSet(Ones(DOMAIN l), class(k))
  BY EdgesAre
<1>4. \A k \in DOMAIN keys : es[k].proto = keys[k][2]
  BY DEF Edges, EdgeKeys
<1>5. /\ \A k \in DOMAIN keys : \E i \in DOMAIN l : keys[k] = ks[i]
      /\ \A j, k \in DOMAIN keys : keys[j] = keys[k] => j = k
  BY <1>1, <1>2, DistinctKeeps
<1> HIDE DEF es, ks, keys
<1>6. ASSUME NEW k \in DOMAIN keys
      PROVE  /\ es[k].count \in Nat \ {0} /\ es[k].src \in ToSet(ds) /\ es[k].dst \in ToSet(ds)
             /\ es[k].proto \in Protos /\ keys[k] = <<<<es[k].src, es[k].dst>>, es[k].proto>>
  <2>1. PICK i \in DOMAIN l : keys[k] = ks[i]
    BY <1>5
  <2>2. keys[k] = <<<<IpOf(l[i].src), IpOf(l[i].dst)>>, l[i].proto>>
    BY <1>1, <2>1
  <2>3. /\ es[k].src = IpOf(l[i].src) /\ es[k].dst = IpOf(l[i].dst) /\ es[k].proto = l[i].proto
    BY <1>3, <1>4, <2>2
  <2>4. IpOf(l[i].src) \in Hosts(l) /\ IpOf(l[i].dst) \in Hosts(l)
    BY DEF Hosts, ToSet
  <2>5. l[i].proto \in Protos
    <3>1. l[i] \in Packet
      BY PacketList
    <3> QED
      BY <3>1 DEF Packet
  <2>6. es[k].count \in Nat \ {0}
    <3> DEFINE C == class(k)
    <3>1. C \in SUBSET DOMAIN l /\ i \in C
      BY <1>1, <2>1 DEF Class
    <3>2. IsFiniteSet(DOMAIN l)
      BY PacketList
    <3> HIDE DEF C
    <3>3. SumFunctionOnSet(Ones(DOMAIN l), C) = Cardinality(C) /\ IsFiniteSet(C) /\ Cardinality(C) \in Nat
      BY <3>1, <3>2, CountIsSum
    <3>4. Cardinality(C) # 0
      BY <3>1, <3>3, FS_EmptySet
    <3> QED
      BY <1>3, <3>3, <3>4 DEF C
  <2> QED
    BY <2>2, <2>3, <2>4, <2>5, <2>6
<1>7. EdgesFit(es, ds)
  BY <1>3, <1>6 DEF EdgesFit
<1>8. ASSUME NEW j \in DOMAIN keys, NEW k \in DOMAIN keys, es[j].src = es[k].src,
             es[j].dst = es[k].dst, es[j].proto = es[k].proto
      PROVE  j = k
  <2>1. keys[j] = keys[k]
    BY <1>6, <1>8
  <2> QED
    BY <1>5, <2>1
<1>9. \A k \in DOMAIN es : es[k].proto \in Protos
  BY <1>3, <1>6
<1>10. \A j, k \in DOMAIN es :
          es[j].src = es[k].src /\ es[j].dst = es[k].dst /\ es[j].proto = es[k].proto => j = k
  BY <1>3, <1>8, Zenon
<1> QED
  BY <1>7, <1>9, <1>10, Zenon DEF es

\* Protocols have ranks of their own.
LEMMA RanksOfProtos ==
    /\ \A p \in Protos : RankOf(p) \in 1..3
    /\ \A p, q \in Protos : RankOf(p) = RankOf(q) => p = q
<1>1. \A p \in Protos : \E i \in DOMAIN ProtoOrder : ProtoOrder[i] = p
  BY DEF Protos, ToSet
<1>2. \A p \in Protos : RankOf(p) \in DOMAIN ProtoOrder /\ ProtoOrder[RankOf(p)] = p
  BY <1>1 DEF RankOf
<1>3. DOMAIN ProtoOrder = 1..3
  BY DEF ProtoOrder
<1> HIDE DEF RankOf
<1> QED
  BY <1>2, <1>3

\* As long as the limit allows as many, slots are not cut.
LEMMA SlotsFit ==
    ASSUME NEW n \in Nat, n <= 2 * (SlotLimit \div 7) + 1, NEW i \in 1..n
    PROVE  Slot(i, n) = (2 * (i - 1) - (n - 1)) * 7
BY ViewAssumption DEF Slot, Clamp

\* The edges of one lane have different slots, in the order of the middles and then of
\* the protocols.
LEMMA SlotsRise ==
    ASSUME NEW es, List(es), NEW dm, NEW pos,
           \A k \in DOMAIN es : /\ pos[es[k].src] \in Nat /\ pos[es[k].dst] \in Nat
                                /\ es[k].proto \in Protos,
           NEW i \in DOMAIN es, NEW j \in DOMAIN es, i # j, LaneOf(es[j], dm) = LaneOf(es[i], dm),
           Cardinality({k \in DOMAIN es : LaneOf(es[k], dm) = LaneOf(es[i], dm)})
              <= 2 * (SlotLimit \div 7) + 1
    PROVE  LET slots == RouteSlots(es, dm, pos)
           IN  /\ slots[i] \in Int /\ slots[j] \in Int /\ slots[i] # slots[j]
               /\ es[i].src = es[j].src /\ es[i].dst = es[j].dst
                  /\ RankOf(es[i].proto) < RankOf(es[j].proto) => slots[i] < slots[j]
<1> DEFINE D == DOMAIN es
           middle(k) == pos[es[k].src] + pos[es[k].dst]
           rank(k) == RankOf(es[k].proto)
           before(a, b) == \/ middle(a) < middle(b)
                           \/ /\ middle(a) = middle(b)
                              /\ \/ rank(a) < rank(b)
                                 \/ es[a].proto = es[b].proto /\ a < b
           lane(k) == {m \in D : LaneOf(es[m], dm) = LaneOf(es[k], dm)}
           S == lane(i)
           R == {r \in D \X D : before(r[1], r[2])}
           n == Cardinality(S)
           place(k) == Cardinality({m \in S : <<m, k>> \in R}) + 1
           slots == RouteSlots(es, dm, pos)
<1>1. D \in SUBSET Int /\ IsFiniteSet(D)
  BY ListBounds
<1>2. \A k \in D : middle(k) \in Nat /\ rank(k) \in 1..3
  BY RanksOfProtos
<1>3. \A a, b \in D : es[a].proto = es[b].proto <=> rank(a) = rank(b)
  BY RanksOfProtos
<1>4. \A a, b \in D : <<a, b>> \in R <=> before(a, b)
  BY Zenon
<1>5. \A a, b \in D : before(a, b) <=> \/ middle(a) < middle(b)
                                       \/ /\ middle(a) = middle(b)
                                          /\ \/ rank(a) < rank(b)
                                             \/ rank(a) = rank(b) /\ a < b
  BY <1>3, Zenon
<1>6. S \in SUBSET D /\ i \in S /\ j \in S /\ lane(j) = S
  OBVIOUS
<1>7. slots = [k \in D |-> Slot(1 + Cardinality({m \in lane(k) : before(m, k)}), Cardinality(lane(k)))]
  BY DEF RouteSlots
<1> HIDE DEF middle, rank, before, slots, lane, R
<1>8. Strict(S, R)
  <2> HIDE DEF S
  <2>0. \A k \in S : k \in Int /\ middle(k) \in Nat /\ rank(k) \in Nat
    BY <1>1, <1>2, <1>6
  <2>1. \A a, b \in S : <<a, b>> \in R <=> \/ middle(a) < middle(b)
                                           \/ /\ middle(a) = middle(b)
                                              /\ \/ rank(a) < rank(b)
                                                 \/ rank(a) = rank(b) /\ a < b
    BY <1>4, <1>5, <1>6
  <2>2. \A a \in S : <<a, a>> \notin R
    BY <2>0, <2>1
  <2>3. \A a, b \in S : a = b \/ <<a, b>> \in R \/ <<b, a>> \in R
    <3> TAKE a, b \in S
    <3>1. a \in Int /\ b \in Int /\ middle(a) \in Nat /\ middle(b) \in Nat /\ rank(a) \in Nat /\ rank(b) \in Nat
      BY <2>0
    <3> QED
      BY <2>1, <3>1
  <2>4. \A a, b, c \in S : <<a, b>> \in R /\ <<b, c>> \in R => <<a, c>> \in R
    BY <2>0, <2>1
  <2> QED
    BY <2>2, <2>3, <2>4 DEF Strict
<1>9. /\ IsFiniteSet(S) /\ n \in Nat
      /\ \A k \in S : place(k) \in 1..n
      /\ \A a, b \in S : <<a, b>> \in R => place(a) < place(b)
  <2>1. IsFiniteSet(S)
    BY <1>1, <1>6, FS_Subset
  <2> HIDE DEF S
  <2> QED
    BY <1>8, <2>1, RanksRise
<1>10. \A k \in {i, j} : slots[k] = Slot(place(k), n)
  <2> TAKE k \in {i, j}
  <2>1. lane(k) = S /\ k \in D
    BY <1>6
  <2>2. {m \in S : before(m, k)} = {m \in S : <<m, k>> \in R}
    BY <1>4, <1>6, <2>1
  <2>3. slots[k] = Slot(1 + Cardinality({m \in S : before(m, k)}), n)
    BY <1>7, <2>1
  <2> DEFINE c == Cardinality({m \in S : <<m, k>> \in R})
  <2>4. slots[k] = Slot(1 + c, n) /\ place(k) = c + 1
    BY <2>2, <2>3
  <2>5. c + 1 \in 1..n
    BY <1>6, <1>9
  <2>6. 1 + c = c + 1
    <3>1. {m \in S : <<m, k>> \in R} \in SUBSET S
      OBVIOUS
    <3>2. c \in Nat
      BY <1>9, <3>1, FS_Subset, FS_CardinalityType
    <3> HIDE DEF c
    <3> QED
      BY <3>2
  <2> QED
    BY <2>4, <2>6
<1>11. n <= 2 * (SlotLimit \div 7) + 1
  BY DEF lane
<1> HIDE DEF S, n, place
<1>12. \A k \in {i, j} : place(k) \in 1..n /\ slots[k] = (2 * (place(k) - 1) - (n - 1)) * 7
  BY <1>6, <1>9, <1>10, <1>11, SlotsFit
<1>13. slots[i] \in Int /\ slots[j] \in Int
  BY <1>9, <1>12
<1>14. place(i) < place(j) \/ place(j) < place(i)
  BY <1>6, <1>8, <1>9 DEF Strict
<1>15. place(i) < place(j) => slots[i] < slots[j]
  BY <1>9, <1>12
<1>16. place(j) < place(i) => slots[j] < slots[i]
  BY <1>9, <1>12
<1>17. es[i].src = es[j].src /\ es[i].dst = es[j].dst /\ rank(i) < rank(j) => slots[i] < slots[j]
  <2> SUFFICES ASSUME es[i].src = es[j].src, es[i].dst = es[j].dst, rank(i) < rank(j)
               PROVE  slots[i] < slots[j]
    OBVIOUS
  <2>1. middle(i) = middle(j)
    BY DEF middle
  <2>2. <<i, j>> \in R
    BY <1>4, <1>5, <2>1
  <2> QED
    BY <1>6, <1>9, <1>15, <2>2
<1> QED
  BY <1>13, <1>14, <1>15, <1>16, <1>17 DEF slots, rank

\* Lanes are within the view.
LEMMA LanesInside ==
    ASSUME NEW g \in Groups
    PROVE  LaneX(g) \in 0..Width
<1>1. Width \in Nat
  BY ViewAssumption
<1>2. g = "plcs" \/ g = "control" \/ g = "brokers" \/ g = "edge" \/ g = "sensors"
  BY DEF Groups
<1>3. \A p \in {12, 32, 55, 75, 92} : (Width * p) \div 100 \in 0..Width
  BY <1>1
<1>4. CASE g = "plcs"
  BY <1>3, <1>4 DEF LaneX
<1>5. CASE g = "control"
  BY <1>3, <1>5 DEF LaneX
<1>6. CASE g = "brokers"
  BY <1>3, <1>6 DEF LaneX
<1>7. CASE g = "edge"
  BY <1>3, <1>7 DEF LaneX
<1>8. CASE g = "sensors"
  BY <1>3, <1>8 DEF LaneX
<1> QED
  BY <1>2, <1>4, <1>5, <1>6, <1>7, <1>8

\* Every device of the map is in a lane: its preset's, or that of its role.
LEMMA GroupsKnown ==
    ASSUME MapInv, NEW ip \in DOMAIN devMap
    PROVE  devMap[ip].group \in Groups
<1>1. PICK ps : MadeFrom(ps)
  BY DEF MapInv
<1>2. devMap = BuildDeviceMap(ps, overrides, demo)
  BY <1>1 DEF MadeFrom
<1>3. \A role : GroupForRole(role) \in Groups
  BY DEF GroupForRole, Groups
<1>4. \A x, y, z : Device(x, y, z).group \in Groups
  BY <1>3 DEF Device
<1>5. \A x, y : Overridden(x, y).group \in Groups
  BY <1>4 DEF Overridden
<1> DEFINE presets == IF demo THEN DOMAIN Preset ELSE {}
           base == IF ip \in presets THEN Preset[ip]
                   ELSE IF ip \in Hosts(ps)
                   THEN Device(LabelFromIp, InferRole(FirstKnownPort(ps, ip)), "auto")
                   ELSE Device(LabelFromIp, "edge", "")
<1>6. devMap[ip] = IF ip \in DOMAIN overrides THEN Overridden(base, overrides[ip]) ELSE base
  BY <1>2 DEF BuildDeviceMap
<1>7. base.group \in Groups
  <2>1. CASE ip \in presets
    BY <2>1, PresetAssumption
  <2>2. CASE ip \notin presets
    BY <1>4, <2>2
  <2> QED
    BY <2>1, <2>2
<1> HIDE DEF base
<1> QED
  BY <1>5, <1>6, <1>7

\* The topology: devices within the view and apart in their lanes, and the curves of a
\* lane apart as long as the limit of their shift allows.
LEMMA TopologyApart ==
    ASSUME MapInv, ListsInv, tab = "graph"
    PROVE  LET edges == DrawnEdges
               slots == RouteSlots(edges, devMap, Places)
               lane(i) == {j \in DOMAIN edges : LaneOf(edges[j], devMap) = LaneOf(edges[i], devMap)}
           IN  /\ DOMAIN Places = DOMAIN devMap
               /\ \A ip \in DOMAIN Places :
                     LaneX(devMap[ip].group) \in 0..Width /\ Places[ip] \in 56 * Unit..(Height - 40) * Unit
               /\ \A a, b \in DOMAIN devMap :
                     a # b /\ devMap[a].group = devMap[b].group => Places[a] # Places[b]
               /\ \A i \in DOMAIN edges : \A j \in lane(i) \ {i} :
                     Cardinality(lane(i)) <= 2 * (SlotLimit \div 7) + 1 =>
                        /\ slots[i] # slots[j]
                        /\ edges[i].src = edges[j].src /\ edges[i].dst = edges[j].dst =>
                              CurveShift(edges[i], slots[i]) # CurveShift(edges[j], slots[j])
<1> DEFINE edges == DrawnEdges
           places == Places
           slots == RouteSlots(edges, devMap, places)
           lane(i) == {j \in DOMAIN edges : LaneOf(edges[j], devMap) = LaneOf(edges[i], devMap)}
<1>1. edges = Edges(On) /\ Packets(On) /\ Hosts(On) \subseteq DOMAIN devMap
  BY OnIsDrawn DEF DrawnEdges
<1>2. ToSet(Devices) = DOMAIN devMap /\ DOMAIN devMap \subseteq Ips
  BY ColumnsAre, MapKnowsHosts
<1>3. Once(Devices)
  BY DevicesOnce DEF Devices
<1>4. /\ EdgesFit(edges, Devices)
      /\ \A k \in DOMAIN edges : edges[k].proto \in Protos
      /\ \A j, k \in DOMAIN edges :
            edges[j].src = edges[k].src /\ edges[j].dst = edges[k].dst /\ edges[j].proto = edges[k].proto
            => j = k
  BY <1>1, <1>2, DrawnEdgesFit
<1>5. PlacedWell(places, devMap, Devices, Groups)
  <2>1. \A ip \in ToSet(Devices) : devMap[ip].group \in Groups
    BY <1>2, GroupsKnown
  <2>2. places = Positions(Devices, devMap, edges, Stats)
    BY DEF Places
  <2> HIDE DEF edges, places
  <2> QED
    BY <1>2, <1>3, <1>4, <2>1, <2>2, AllPlaced
<1> HIDE DEF edges, places
<1>6. DOMAIN places = DOMAIN devMap
  BY <1>2, <1>5, GroupsKnown DEF PlacedWell
<1>7. \A ip \in DOMAIN places :
         LaneX(devMap[ip].group) \in 0..Width /\ places[ip] \in 56 * Unit..(Height - 40) * Unit
  BY <1>5, <1>6, GroupsKnown, LanesInside DEF PlacedWell
<1>8. \A a, b \in DOMAIN devMap :
         a # b /\ devMap[a].group = devMap[b].group => places[a] # places[b]
  BY <1>5, <1>6 DEF PlacedWell
<1>9. /\ List(edges)
      /\ \A k \in DOMAIN edges : /\ places[edges[k].src] \in Nat /\ places[edges[k].dst] \in Nat
                                 /\ edges[k].proto \in Protos
  BY <1>2, <1>4, <1>5, <1>6 DEF EdgesFit, PlacedWell
<1>10. ASSUME NEW i \in DOMAIN edges, NEW j \in lane(i) \ {i},
              Cardinality(lane(i)) <= 2 * (SlotLimit \div 7) + 1
       PROVE  /\ slots[i] # slots[j]
              /\ edges[i].src = edges[j].src /\ edges[i].dst = edges[j].dst =>
                    CurveShift(edges[i], slots[i]) # CurveShift(edges[j], slots[j])
  <2>1. /\ j \in DOMAIN edges /\ i # j
        /\ LaneOf(edges[j], devMap) = LaneOf(edges[i], devMap)
        /\ LaneOf(edges[i], devMap) = LaneOf(edges[j], devMap)
    OBVIOUS
  <2>2. Cardinality({k \in DOMAIN edges : LaneOf(edges[k], devMap) = LaneOf(edges[i], devMap)})
           <= 2 * (SlotLimit \div 7) + 1
    BY <1>10
  <2>3. Cardinality({k \in DOMAIN edges : LaneOf(edges[k], devMap) = LaneOf(edges[j], devMap)})
           <= 2 * (SlotLimit \div 7) + 1
    BY <2>1, <2>2
  <2> DEFINE p == RankOf(edges[i].proto)
             q == RankOf(edges[j].proto)
  <2>4. /\ slots[i] \in Int /\ slots[j] \in Int /\ slots[i] # slots[j]
        /\ edges[i].src = edges[j].src /\ edges[i].dst = edges[j].dst /\ p < q => slots[i] < slots[j]
    BY <1>9, <2>1, <2>2, SlotsRise
  <2>5. edges[i].src = edges[j].src /\ edges[i].dst = edges[j].dst /\ q < p => slots[j] < slots[i]
    <3>1. j # i
      BY <2>1
    <3> QED
      BY <1>9, <2>1, <2>3, <3>1, SlotsRise
  <2>6. p \in 1..3 /\ q \in 1..3
    BY <1>9, <2>1, RanksOfProtos
  <2>7. edges[i].src = edges[j].src /\ edges[i].dst = edges[j].dst => p # q
    BY <1>4, <1>9, <2>1, RanksOfProtos
  <2>8. /\ CurveShift(edges[i], slots[i]) = 2 * (16 * (p - 2)) + slots[i]
        /\ CurveShift(edges[j], slots[j]) = 2 * (16 * (q - 2)) + slots[j]
    BY DEF CurveShift
  <2> HIDE DEF p, q, slots
  <2> QED
    BY <2>4, <2>5, <2>6, <2>7, <2>8
<1> QED
  BY <1>6, <1>7, <1>8, <1>10 DEF edges, places

---------------------------------------------------------------------------
(* The numbers of a chart *)

\* A set of numbers up to b has a greatest.
LEMMA MaxIs ==
    ASSUME NEW S \in SUBSET Nat, S # {}, NEW b \in Nat, \A x \in S : x <= b
    PROVE  Max(S) \in S /\ Max(S) \in Nat /\ \A y \in S : y <= Max(S)
<1> DEFINE T == {n \in Nat : (\E x \in S : x + n >= b) => \E m \in S : \A y \in S : m >= y}
<1>1. 0 \in T
  OBVIOUS
<1>2. \A n \in Nat : n \in T => n + 1 \in T
  <2> SUFFICES ASSUME NEW n \in T, NEW x \in S, x + (n + 1) >= b
               PROVE  \E m \in S : \A y \in S : m >= y
    OBVIOUS
  <2>1. CASE \A y \in S : x >= y
    BY <2>1
  <2>2. CASE ~ \A y \in S : x >= y
    <3>1. PICK y \in S : ~(x >= y)
      BY <2>2
    <3>2. y + n >= b
      BY <3>1
    <3> QED
      BY <3>2
  <2> QED
    BY <2>1, <2>2
<1> HIDE DEF T
<1>3. b \in T
  BY <1>1, <1>2, Induction
<1>4. \E x \in S : x + b >= b
  <2>1. PICK x \in S : TRUE
    OBVIOUS
  <2>2. x \in Nat
    OBVIOUS
  <2>3. x + b >= b
    BY <2>2
  <2> QED
    BY <2>3
<1>5. \E m \in S : \A y \in S : m >= y
  BY <1>3, <1>4 DEF T
<1>6. Max(S) \in S /\ \A y \in S : Max(S) >= y
  BY <1>5 DEF Max
<1> QED
  BY <1>6

\* A set of numbers has a least.
LEMMA MinIs ==
    ASSUME NEW S \in SUBSET Nat, S # {}
    PROVE  Min(S) \in S /\ Min(S) \in Nat /\ \A y \in S : Min(S) <= y
<1> DEFINE T == {n \in Nat : (\E x \in S : x <= n) => \E m \in S : \A y \in S : m <= y}
<1>1. 0 \in T
  OBVIOUS
<1>2. \A n \in Nat : n \in T => n + 1 \in T
  <2> SUFFICES ASSUME NEW n \in T, NEW x \in S, x <= n + 1
               PROVE  \E m \in S : \A y \in S : m <= y
    OBVIOUS
  <2>1. CASE \A y \in S : x <= y
    BY <2>1
  <2>2. CASE ~ \A y \in S : x <= y
    <3>1. PICK y \in S : ~(x <= y)
      BY <2>2
    <3>2. y <= n
      BY <3>1
    <3> QED
      BY <3>2
  <2> QED
    BY <2>1, <2>2
<1> HIDE DEF T
<1>3. PICK x \in S : TRUE
  OBVIOUS
<1>4. x \in T
  BY <1>1, <1>2, Induction
<1>5. \E m \in S : \A y \in S : m <= y
  BY <1>4 DEF T
<1>6. Min(S) \in S /\ \A y \in S : Min(S) <= y
  BY <1>5 DEF Min
<1> QED
  BY <1>6

\* The domain of a chart is at least 1 and holds the numbers drawn on it.
LEMMA MaxWithOne ==
    ASSUME NEW S \in SUBSET Nat, NEW b \in Nat, \A x \in S : x <= b
    PROVE  Max({1} \cup S) \in Nat \ {0} /\ \A y \in S : y <= Max({1} \cup S)
<1> DEFINE U == {1} \cup S
<1>1. U \in SUBSET Nat /\ U # {} /\ b + 1 \in Nat /\ \A x \in U : x <= b + 1
  OBVIOUS
<1> HIDE DEF U
<1>2. Max(U) \in Nat /\ \A y \in U : y <= Max(U)
  BY <1>1, MaxIs
<1>3. 1 \in U /\ \A y \in S : y \in U
  BY DEF U
<1> QED
  BY <1>2, <1>3 DEF U

\* A few numbers have a bound.
LEMMA ThreeBounded ==
    ASSUME NEW f, \A k \in 1..3 : f[k] \in Nat
    PROVE  \E b \in Nat : \A k \in 1..3 : f[k] <= b
<1>1. f[1] \in Nat /\ f[2] \in Nat /\ f[3] \in Nat
  OBVIOUS
<1> DEFINE b == f[1] + f[2] + f[3]
<1>2. b \in Nat /\ f[1] <= b /\ f[2] <= b /\ f[3] <= b
  BY <1>1
<1>3. \A k \in 1..3 : k = 1 \/ k = 2 \/ k = 3
  OBVIOUS
<1> HIDE DEF b
<1> QED
  BY <1>2, <1>3

\* The lesser of two numbers, and the greater.
LEMMA TwoNumbers ==
    ASSUME NEW a \in Int, NEW b \in Int
    PROVE  /\ Min({a, b}) = IF a > b THEN b ELSE a
           /\ Max({a, b}) = IF a > b THEN a ELSE b
BY DEF Min, Max

\* Every number has a root, rounded down.
LEMMA RootIs ==
    ASSUME NEW x \in Nat
    PROVE  IntSqrt(x) \in Nat
<1> DEFINE root(y, r) == r \in 0..y /\ r * r <= y /\ (r + 1) * (r + 1) > y
           T == {n \in Nat : \E r \in 0..n : root(n, r)}
<1>1. 0 \in T
  OBVIOUS
<1>2. \A n \in Nat : n \in T => n + 1 \in T
  <2> SUFFICES ASSUME NEW n \in Nat, \E r \in 0..n : root(n, r)
               PROVE  \E t \in 0..n + 1 : root(n + 1, t)
    <3> HIDE DEF root
    <3>1. \A n \in Nat : n + 1 \in Nat
      OBVIOUS
    <3> QED
      BY <3>1, Zenon
  <2>0. PICK r \in 0..n : root(n, r)
    OBVIOUS
  <2>1. (r + 1) * (r + 1) \in Nat /\ r \in Nat
    <3>1. r + 1 \in Nat /\ r \in Nat
      BY <2>0
    <3>2. \A y \in Nat : y * y \in Nat
      OBVIOUS
    <3> QED
      BY <3>1, <3>2, Zenon
  <2>2. CASE (r + 1) * (r + 1) > n + 1
    <3>1. root(n + 1, r)
      <4> DEFINE p == r * r
                 q == (r + 1) * (r + 1)
      <4>1. p \in Nat /\ p <= n /\ q > n + 1
        BY <2>0, <2>2, ProductGrows
      <4> HIDE DEF p, q
      <4>2. p <= n + 1 /\ r \in 0..n + 1
        BY <4>1
      <4> QED
        BY <4>1, <4>2 DEF p, q
    <3> QED
      BY <3>1
  <2>3. CASE ~((r + 1) * (r + 1) > n + 1)
    <3>1. (r + 1) * (r + 1) <= n + 1
      BY <2>1, <2>3
    <3>2. (r + 2) * (r + 2) = (r + 1) * (r + 1) + 2 * r + 3
      BY <2>1
    <3>3. r + 1 \in 0..n + 1
      OBVIOUS
    <3>4. (r + 2) * (r + 2) > n + 1
      <4> DEFINE q == (r + 1) * (r + 1)
                 p == (r + 2) * (r + 2)
      <4>1. q \in Nat /\ q > n /\ p = q + 2 * r + 3
        BY <2>0, <2>1, <3>2
      <4> HIDE DEF p, q
      <4>2. p > n + 1
        BY <2>1, <4>1
      <4> QED
        BY <4>2 DEF p
    <3>5. (r + 1) + 1 = r + 2
      BY <2>1
    <3>6. root(n + 1, r + 1)
      BY <3>1, <3>3, <3>4, <3>5
    <3> QED
      BY <3>6
  <2> QED
    BY <2>2, <2>3
<1> HIDE DEF T
<1>3. x \in T
  BY <1>1, <1>2, Induction
<1>4. \E r \in 0..x : r * r <= x /\ (r + 1) * (r + 1) > x
  BY <1>3 DEF T
<1>5. IntSqrt(x) \in 0..x
  BY <1>4 DEF IntSqrt
<1> QED
  BY <1>5

\* What a chart needs of a summary: numbers, the mean and the percentiles up to the
\* greatest, the percentiles up to the p99.
Drawable(st) ==
    /\ st.n \in Nat /\ st.mean \in Nat /\ st.stddev \in Nat /\ st.max \in Nat
    /\ st.p50 \in Nat /\ st.p95 \in Nat /\ st.p99 \in Nat
    /\ st.mean <= st.max /\ st.p50 <= st.p99 /\ st.p95 <= st.p99 /\ st.p99 <= st.max

\* A rank of a percentile, counted from 1.
LEMMA RankOfPick ==
    ASSUME NEW n \in Nat \ {0}, NEW p \in 0..99
    PROVE  LET k == (n * p) \div 100
           IN  1 + (IF k < n - 1 THEN k ELSE n - 1) = k + 1 /\ k + 1 \in 1..n /\ k \in Nat
<1> DEFINE m == n * p
<1>1. m \in Nat /\ m < n * 100
  OBVIOUS
<1> HIDE DEF m
<1> DEFINE k == m \div 100
<1>2. k \in Nat /\ 100 * k <= m
  BY <1>1
<1> HIDE DEF k
<1>3. k < n
  BY <1>1, <1>2
<1>4. 1 + (IF k < n - 1 THEN k ELSE n - 1) = k + 1 /\ k + 1 \in 1..n
  BY <1>2, <1>3
<1> QED
  BY <1>2, <1>4 DEF k, m

\* A greater percentile has a rank that is no less.
LEMMA RanksOfPicks ==
    ASSUME NEW n \in Nat \ {0}, NEW p \in 0..99, NEW q \in 0..99, p <= q
    PROVE  (n * p) \div 100 <= (n * q) \div 100
<1> DEFINE a == n * p
           b == n * q
<1>1. a \in Nat /\ b \in Nat /\ a <= b
  BY ProductGrows
<1> HIDE DEF a, b
<1>2. a \div 100 <= b \div 100
  BY <1>1
<1> QED
  BY <1>2 DEF a, b

\* A summary of samples can be drawn.
LEMMA SummaryDrawable ==
    ASSUME NEW s, Samples(s)
    PROVE  Drawable(Summary(s))
<1>1. CASE s = <<>>
  <2>1. Summary(s) = EmptyStats
    BY <1>1 DEF Summary
  <2>2. Drawable(EmptyStats)
    BY DEF EmptyStats, Drawable
  <2> QED
    BY <2>1, <2>2, Zenon
<1>2. CASE s # <<>>
  <2> DEFINE a == Ascending(s)
             n == Len(a)
             mean == Total(a, LAMBDA x : x) \div n
             squares == Total(a, LAMBDA x : (x - mean) * (x - mean))
             dev == IntSqrt(squares \div n)
  <2>1. Summary(s) = [n |-> n, min |-> a[1], max |-> a[n], mean |-> mean, stddev |-> dev,
                      p50 |-> Pick(a, 50), p90 |-> Pick(a, 90), p95 |-> Pick(a, 95), p99 |-> Pick(a, 99)]
    BY <1>2, Zenon DEF Summary
  <2>2. n = Len(s) /\ Len(s) \in Nat /\ DOMAIN s = 1..Len(s) /\ Len(s) > 0 /\ DOMAIN a = DOMAIN s
        /\ IsFiniteSet(DOMAIN s)
    BY <1>2, AscendingRises, ListBounds DEF Rises, Samples, List
  <2>3. \A k \in 1..n : a[k] \in Nat
    BY <2>2, RankOfSample
  <2>4. \A j, k \in 1..n : j <= k => a[j] <= a[k]
    <3>1. PICK at : Rises(a, s, s, at)
      BY AscendingRises
    <3>2. \A j, k \in DOMAIN s : j <= k => a[j] <= a[k]
      BY <3>1 DEF Rises
    <3>3. DOMAIN s = 1..n
      BY <2>2
    <3> QED
      BY <3>2, <3>3, Zenon
  <2>5. mean \in a[1]..a[n]
    BY <1>2, MeanBetween
  <2> HIDE DEF a, mean
  <2>6. mean \in Nat /\ mean <= a[n] /\ a[n] \in Nat
    <3>1. a[1] \in Nat /\ a[n] \in Nat
      BY <2>2, <2>3
    <3> QED
      BY <2>5, <3>1
  <2>7. squares \in Nat
    <3> DEFINE F == [k \in DOMAIN a |-> (a[k] - mean) * (a[k] - mean)]
    <3>1. squares = SumFunctionOnSet(F, DOMAIN a)
      BY DEF Total, SumFunction
    <3>2. \A k \in DOMAIN a : F[k] \in Nat
      <4>1. \A x \in Int : x * x \in Nat
        OBVIOUS
      <4>2. \A k \in DOMAIN a : a[k] - mean \in Int
        BY <2>2, <2>3, <2>6
      <4>3. \A k \in DOMAIN a : (a[k] - mean) * (a[k] - mean) \in Nat
        BY <4>1, <4>2, Zenon
      <4> QED
        BY <4>3
    <3> HIDE DEF F, squares
    <3> QED
      BY <2>2, <3>1, <3>2, SumIsNat
  <2> HIDE DEF squares
  <2>8. dev \in Nat
    <3>1. squares \div n \in Nat
      BY <2>2, <2>7
    <3> QED
      BY <3>1, RootIs
  <2> HIDE DEF dev, n
  <2>9. \A p \in 0..99 : Pick(a, p) = a[(n * p) \div 100 + 1] /\ (n * p) \div 100 + 1 \in 1..n
                         /\ (n * p) \div 100 \in Nat
    <3> TAKE p \in 0..99
    <3> DEFINE k == (n * p) \div 100
    <3>1. Pick(a, p) = a[1 + (IF k < n - 1 THEN k ELSE n - 1)]
      BY DEF Pick, n
    <3>2. 1 + (IF k < n - 1 THEN k ELSE n - 1) = k + 1 /\ k + 1 \in 1..n /\ k \in Nat
      BY <2>2, RankOfPick
    <3> HIDE DEF k
    <3>3. Pick(a, p) = a[k + 1]
      BY <3>1, <3>2, Zenon
    <3> QED
      BY <3>2, <3>3 DEF k
  <2>10. \A p, q \in 0..99 : p <= q => Pick(a, p) <= Pick(a, q)
    <3> SUFFICES ASSUME NEW p \in 0..99, NEW q \in 0..99, p <= q PROVE Pick(a, p) <= Pick(a, q)
      OBVIOUS
    <3> DEFINE j == (n * p) \div 100
               k == (n * q) \div 100
    <3>1. j <= k
      <4>1. n \in Nat \ {0}
        BY <2>2
      <4> QED
        BY <4>1, RanksOfPicks, Zenon
    <3>2. /\ Pick(a, p) = a[j + 1] /\ Pick(a, q) = a[k + 1] /\ j + 1 \in 1..n /\ k + 1 \in 1..n
          /\ j \in Nat /\ k \in Nat
      BY <2>9
    <3> HIDE DEF j, k
    <3>3. j + 1 <= k + 1
      BY <3>1, <3>2
    <3> QED
      BY <2>4, <3>2, <3>3
  <2>11. \A p \in 0..99 : Pick(a, p) \in Nat /\ Pick(a, p) <= a[n]
    <3> TAKE p \in 0..99
    <3> DEFINE k == (n * p) \div 100 + 1
    <3>1. Pick(a, p) = a[k] /\ k \in 1..n
      BY <2>9
    <3> HIDE DEF k
    <3>2. k <= n /\ n \in 1..n
      BY <2>2, <3>1
    <3> QED
      BY <2>3, <2>4, <3>1, <3>2
  <2>12. 50 \in 0..99 /\ 95 \in 0..99 /\ 99 \in 0..99 /\ 50 <= 99 /\ 95 <= 99
    OBVIOUS
  <2>13. /\ Pick(a, 50) \in Nat /\ Pick(a, 95) \in Nat /\ Pick(a, 99) \in Nat /\ Pick(a, 99) <= a[n]
         /\ Pick(a, 50) <= Pick(a, 99) /\ Pick(a, 95) <= Pick(a, 99)
    BY <2>10, <2>11, <2>12, Zenon
  <2>14. n \in Nat
    BY <2>2
  <2> QED
    BY <2>1, <2>6, <2>8, <2>13, <2>14 DEF Drawable
<1> QED
  BY <1>1, <1>2

---------------------------------------------------------------------------
(* The times of the packets, and the rows of the statistics *)

\* Packets arrive in the order of their times, which are those of the arrivals so far.
TimesInv ==
    /\ \A i \in DOMAIN packets : packets[i].ts <= arrivals
    /\ \A i, j \in DOMAIN packets : i <= j => packets[i].ts <= packets[j].ts

\* TimesInv holds at first, and every step keeps it.
LEMMA TimesInit == Init => TimesInv
BY DEF Init, TimesInv

LEMMA TimesStep == ListsInv /\ TimesInv /\ [Next]_vars => TimesInv'
<1> SUFFICES ASSUME ListsInv, TimesInv, [Next]_vars PROVE TimesInv'
  OBVIOUS
<1>1. CASE Arrive
  <2>1. PICK p \in Traffic :
           LET next == Append(packets, [p EXCEPT !.ts = arrivals])
           IN  SetPackets(IF Len(next) > MaxPackets THEN Tail(next) ELSE next)
    BY <1>1 DEF Arrive
  <2> DEFINE q == [p EXCEPT !.ts = arrivals]
             next == Append(packets, q)
             new == IF Len(next) > MaxPackets THEN Tail(next) ELSE next
             n == Len(packets)
  <2>2. q \in Packet /\ q.ts = arrivals /\ arrivals \in Nat
    BY <2>1, TrafficAssumption DEF ListsInv, Packet
  <2> HIDE DEF q
  <2>3. packets \in Seq(Packet) /\ n \in Nat /\ DOMAIN packets = 1..n
    BY DEF ListsInv
  <2>4. /\ next \in Seq(Packet) /\ Len(next) = n + 1 /\ next[n + 1] = q
        /\ \A i \in 1..n : next[i] = packets[i]
    BY <2>2, <2>3
  <2> HIDE DEF next, n
  <2>5. \A i \in 1..n + 1 : next[i].ts <= arrivals /\ next[i].ts \in Nat
    <3> TAKE i \in 1..n + 1
    <3>1. CASE i = n + 1
      BY <2>2, <2>4, <3>1
    <3>2. CASE i # n + 1
      <4>1. i \in 1..n
        BY <2>3, <3>2
      <4>2. packets[i].ts <= arrivals
        BY <2>3, <4>1 DEF TimesInv
      <4>3. packets[i].ts \in Nat
        <5>1. packets[i] \in Packet
          BY <2>3, <4>1
        <5> QED
          BY <5>1 DEF Packet
      <4> QED
        BY <2>4, <4>1, <4>2, <4>3
    <3> QED
      BY <3>1, <3>2
  <2>6. \A i, j \in 1..n + 1 : i <= j => next[i].ts <= next[j].ts
    <3> SUFFICES ASSUME NEW i \in 1..n + 1, NEW j \in 1..n + 1, i <= j PROVE next[i].ts <= next[j].ts
      OBVIOUS
    <3>1. CASE j = n + 1
      BY <2>2, <2>4, <2>5, <3>1
    <3>2. CASE j # n + 1
      <4>1. i \in 1..n /\ j \in 1..n
        BY <2>3, <3>2
      <4>2. packets[i].ts <= packets[j].ts
        BY <2>3, <4>1 DEF TimesInv
      <4> QED
        BY <2>4, <4>1, <4>2
    <3> QED
      BY <3>1, <3>2
  <2>7. \/ new = next
        \/ /\ new \in Seq(Packet) /\ DOMAIN new = 1..n
           /\ \A i \in 1..n : new[i] = next[i + 1]
    <3>1. Tail(next) \in Seq(Packet) /\ DOMAIN Tail(next) = 1..n
          /\ \A i \in 1..n : Tail(next)[i] = next[i + 1]
      BY <2>3, <2>4
    <3> QED
      BY <3>1
  <2>8. packets' = new /\ arrivals' = arrivals + 1
    BY <1>1, <2>1 DEF SetPackets, q, next, Arrive
  <2> HIDE DEF new
  <2>9. \A i \in 1..n + 1 : next[i].ts <= arrivals + 1
    BY <2>2, <2>5
  <2>10. CASE new = next
    <3>1. DOMAIN new = 1..n + 1
      BY <2>4, <2>10
    <3> QED
      BY <2>6, <2>8, <2>9, <2>10, <3>1 DEF TimesInv
  <2>11. CASE DOMAIN new = 1..n /\ \A i \in 1..n : new[i] = next[i + 1]
    <3>1. \A i \in 1..n : i + 1 \in 1..n + 1
      BY <2>3
    <3>2. \A i, j \in 1..n : i <= j => i + 1 <= j + 1
      BY <2>3
    <3>3. \A i \in 1..n : new[i].ts <= arrivals + 1
      BY <2>9, <2>11, <3>1
    <3>4. \A i, j \in 1..n : i <= j => new[i].ts <= new[j].ts
      BY <2>6, <2>11, <3>1, <3>2, Zenon
    <3> QED
      BY <2>8, <2>11, <3>3, <3>4 DEF TimesInv
  <2> QED
    BY <2>7, <2>10, <2>11
<1>2. CASE OnClear
  BY <1>2 DEF OnClear, SetPackets, TimesInv
<1>3. CASE UNCHANGED <<packets, arrivals>>
  BY <1>3 DEF TimesInv
<1>4. CASE ToggleProto \/ EditField \/ ResetRow \/ ClearAll \/ ShowTab \/ SortFlows \/ UNCHANGED vars
  <2>1. UNCHANGED <<packets, arrivals>>
    BY <1>4 DEF ToggleProto, EditField, ResetRow, ClearAll, ShowTab, SortFlows, vars, UpdateOverrides
  <2> QED
    BY <1>3, <2>1
<1> QED
  BY <1>1, <1>2, <1>4 DEF Next

\* What a chart needs of a protocol's row.
RowDrawable(r) ==
    /\ Drawable(r.latency) /\ Drawable(r.iat) /\ Drawable(r.size)
    /\ \A pt \in ToSet(r.cdf) :
          pt[1] \in Nat /\ pt[1] <= r.latency.max /\ pt[2] \in 1..r.latency.n

\* A CDF stays within the samples it was made of.
LEMMA CdfDrawable ==
    ASSUME NEW s, Samples(s), s # <<>>
    PROVE  \A pt \in ToSet(Cdf(s)) :
              pt[1] \in Nat /\ pt[1] <= Summary(s).max /\ pt[2] \in 1..Summary(s).n
<1> DEFINE a == Ascending(s)
           n == Len(s)
<1>1. n \in Nat /\ DOMAIN s = 1..n /\ n > 0 /\ Len(a) = n
  BY AscendingRises, ListBounds DEF Rises, Samples, List
<1>2. Summary(s).max = a[n] /\ Summary(s).n = n
  <2> DEFINE m == Len(a)
             mean == Total(a, LAMBDA x : x) \div m
             dev == IntSqrt(Total(a, LAMBDA x : (x - mean) * (x - mean)) \div m)
  <2>1. Summary(s) = [n |-> m, min |-> a[1], max |-> a[m], mean |-> mean, stddev |-> dev,
                      p50 |-> Pick(a, 50), p90 |-> Pick(a, 90), p95 |-> Pick(a, 95), p99 |-> Pick(a, 99)]
    BY Zenon DEF Summary
  <2> HIDE DEF mean, dev
  <2>2. Summary(s).max = a[m] /\ Summary(s).n = m
    BY <2>1
  <2> QED
    BY <1>1, <2>2
<1>3. \A k \in DOMAIN s : a[k] \in Nat
  BY RankOfSample
<1>4. \A j, k \in DOMAIN s : j <= k => a[j] <= a[k]
  BY AscendingRises DEF Rises
<1>5. RanksUp(Cdf(s), s)
  BY CdfRanks
<1> HIDE DEF a, n
<1> TAKE pt \in ToSet(Cdf(s))
<1>6. pt[2] \in DOMAIN s /\ pt[1] = a[pt[2]]
  <2>1. PICK k \in DOMAIN Cdf(s) : pt = Cdf(s)[k]
    BY DEF ToSet
  <2> QED
    BY <1>5, <2>1 DEF RanksUp, a
<1>7. n \in DOMAIN s /\ pt[2] <= n
  BY <1>1, <1>6
<1> QED
  BY <1>1, <1>2, <1>3, <1>4, <1>6, <1>7

\* A protocol with packets has a row that can be drawn, and its last packet a time.
LEMMA FoundDrawable ==
    ASSUME ListsInv, TimesInv, NEW proto \in DOMAIN PerProto(packets)
    PROVE  /\ RowDrawable(PerProto(packets)[proto])
           /\ Last(Of(packets, proto)).ts \in Nat /\ Last(Of(packets, proto)).ts <= arrivals
<1> DEFINE I == {i \in DOMAIN packets : packets[i].proto = proto}
           ps == Of(packets, proto)
           n == Len(ps)
           iat == [i \in 1..n - 1 |-> ps[i + 1].ts - ps[i].ts]
           row == PerProto(packets)[proto]
<1>1. proto \in {p.proto : p \in ToSet(packets)}
  BY DEF PerProto
<1>2. Packets(packets) /\ I \in SUBSET DOMAIN packets
  BY DEF ListsInv, Packets
<1>3. ps = Sublist(packets, I)
  BY DEF Of, Filter
<1>4. Packets(ps) /\ ps # <<>> /\ n \in Nat /\ DOMAIN ps = 1..n /\ n > 0
  <2>1. Packets(ps) /\ ps # <<>>
    BY <1>1, OfIsPart
  <2> QED
    BY <2>1 DEF Packets
<1>5. PICK at : Picks(ps, packets, I, at)
  BY <1>2, <1>3, PacketList, SublistPicks
<1> HIDE DEF ps, n
<1>6. /\ \A k \in 1..n : at[k] \in I /\ ps[k] = packets[at[k]]
      /\ \A j, k \in 1..n : j < k => at[j] < at[k]
  BY <1>4, <1>5 DEF Picks
<1>7. \A k \in 1..n : ps[k].ts \in Nat /\ ps[k].ts <= arrivals
  <2> TAKE k \in 1..n
  <2>1. at[k] \in DOMAIN packets /\ ps[k] = packets[at[k]]
    BY <1>6
  <2>2. packets[at[k]].ts <= arrivals
    BY <2>1 DEF TimesInv
  <2>3. packets[at[k]] \in Packet
    BY <1>2, <2>1, PacketList
  <2>4. packets[at[k]].ts \in Nat
    BY <2>3 DEF Packet
  <2> QED
    BY <2>1, <2>2, <2>4
<1>8. \A j, k \in 1..n : j < k => ps[j].ts <= ps[k].ts
  <2> SUFFICES ASSUME NEW j \in 1..n, NEW k \in 1..n, j < k PROVE ps[j].ts <= ps[k].ts
    OBVIOUS
  <2>1. at[j] \in DOMAIN packets /\ at[k] \in DOMAIN packets /\ at[j] < at[k]
    BY <1>6
  <2>2. at[j] <= at[k]
    <3>1. DOMAIN packets = 1..Len(packets) /\ Len(packets) \in Nat
      BY <1>2, PacketList
    <3> QED
      BY <2>1, <3>1
  <2>3. packets[at[j]].ts <= packets[at[k]].ts
    BY <2>1, <2>2 DEF TimesInv
  <2> QED
    BY <1>6, <2>3
<1>9. Samples(iat)
  <2>1. n - 1 \in Nat
    BY <1>4
  <2>2. iat = [i \in 1..n - 1 |-> iat[i]]
    OBVIOUS
  <2>3. \A i \in 1..n - 1 : iat[i] \in Nat
    <3> TAKE i \in 1..n - 1
    <3>1. i \in 1..n /\ i + 1 \in 1..n /\ i < i + 1
      BY <1>4
    <3>2. ps[i].ts <= ps[i + 1].ts /\ ps[i].ts \in Nat /\ ps[i + 1].ts \in Nat
      BY <1>7, <1>8, <3>1
    <3> QED
      BY <3>2
  <2> HIDE DEF iat
  <2>4. List(iat) /\ DOMAIN iat = 1..n - 1
    BY <2>1, <2>2, ListMade
  <2> QED
    BY <2>3, <2>4 DEF Samples
<1>10. /\ row.latency = Summary(Latencies(ps)) /\ row.iat = Summary(iat)
       /\ row.size = Summary(Sizes(ps)) /\ row.cdf = Cdf(Latencies(ps))
  BY <1>1 DEF PerProto, Sizes, ps, n
<1> HIDE DEF iat, row
<1>11. Samples(Latencies(ps)) /\ Latencies(ps) # <<>> /\ Samples(Sizes(ps))
  BY <1>4, PacketSamples
<1>12. Drawable(row.latency) /\ Drawable(row.iat) /\ Drawable(row.size)
  BY <1>9, <1>10, <1>11, SummaryDrawable
<1>13. \A pt \in ToSet(row.cdf) :
          pt[1] \in Nat /\ pt[1] <= row.latency.max /\ pt[2] \in 1..row.latency.n
  BY <1>10, <1>11, CdfDrawable
<1>14. Last(ps) = ps[n] /\ n \in 1..n
  BY <1>4 DEF Last, n
<1> QED
  BY <1>7, <1>12, <1>13, <1>14 DEF RowDrawable, ps, row

\* Every row can be drawn, with or without packets.
LEMMA RowsDrawable ==
    ASSUME ListsInv, TimesInv
    PROVE  /\ DOMAIN ProtoRows(packets) = 1..3
           /\ \A k \in 1..3 : RowDrawable(ProtoRows(packets)[k])
           /\ \A proto \in DOMAIN PerProto(packets) :
                 \E k \in 1..3 : PerProto(packets)[proto] = ProtoRows(packets)[k]
<1> DEFINE found == PerProto(packets)
           rows == ProtoRows(packets)
           none == [latency |-> EmptyStats, iat |-> EmptyStats, size |-> EmptyStats, cdf |-> <<>>]
<1>1. DOMAIN ProtoOrder = 1..3
  BY DEF ProtoOrder
<1>2. /\ DOMAIN rows = 1..3
      /\ \A k \in 1..3 : rows[k] = IF ProtoOrder[k] \in DOMAIN found THEN found[ProtoOrder[k]] ELSE none
  BY <1>1 DEF ProtoRows
<1>3. RowDrawable(none)
  <2>1. ToSet(none.cdf) = {}
    BY DEF ToSet
  <2>2. Drawable(EmptyStats)
    BY DEF Drawable, EmptyStats
  <2>3. none.latency = EmptyStats /\ none.iat = EmptyStats /\ none.size = EmptyStats
    OBVIOUS
  <2> HIDE DEF none
  <2> QED
    BY <2>1, <2>2, <2>3, Zenon DEF RowDrawable
<1>4. \A proto \in DOMAIN found : RowDrawable(found[proto])
  BY FoundDrawable
<1>5. \A proto \in DOMAIN found : \E k \in 1..3 : ProtoOrder[k] = proto
  <2> TAKE proto \in DOMAIN found
  <2>1. PICK i \in DOMAIN packets : packets[i].proto = proto
    BY DEF PerProto, ToSet
  <2>2. packets[i] \in Packet
    BY DEF ListsInv
  <2>3. proto \in Protos
    BY <2>1, <2>2 DEF Packet
  <2> QED
    BY <1>1, <2>3 DEF Protos, ToSet
<1> HIDE DEF found, rows, none
<1>6. \A k \in 1..3 : RowDrawable(rows[k])
  BY <1>2, <1>3, <1>4
<1>7. \A proto \in DOMAIN found : \E k \in 1..3 : found[proto] = rows[k]
  <2> TAKE proto \in DOMAIN found
  <2>1. PICK k \in 1..3 : ProtoOrder[k] = proto
    BY <1>5
  <2> QED
    BY <1>2, <2>1
<1> QED
  BY <1>2, <1>6, <1>7 DEF found, rows

---------------------------------------------------------------------------
(* The charts *)

\* A number of the domain is drawn within the plot.
LEMMA ScalesInside ==
    ASSUME NEW lo \in Nat, NEW hi \in Nat, NEW v \in Nat, lo <= v, v <= hi
    PROVE  /\ XScale(v, lo, hi) \in 0..PlotW
           /\ lo < hi => YScale(v, lo, hi) \in 0..PlotH
<1>1. CASE hi = lo
  BY <1>1 DEF XScale, PlotW
<1>2. CASE hi # lo
  <2> DEFINE a == v - lo
             b == hi - lo
  <2>1. a \in Nat /\ b \in Nat \ {0} /\ a <= b
    BY <1>2
  <2> HIDE DEF a, b
  <2>2. a * 662 \in Nat /\ a * 662 <= b * 662 /\ a * 184 \in Nat /\ a * 184 <= b * 184
    BY <2>1
  <2>3. (a * 662) \div b \in 0..662 /\ (a * 184) \div b \in 0..184
    BY <2>1, <2>2, QuotientAtMost
  <2>4. XScale(v, lo, hi) = (a * 662) \div b /\ YScale(v, lo, hi) = 184 - (a * 184) \div b
    BY <1>2 DEF XScale, YScale, PlotW, PlotH, a, b
  <2> DEFINE q == (a * 184) \div b
  <2>5. q \in 0..184
    BY <2>3
  <2> HIDE DEF q
  <2>6. 184 - q \in 0..184
    BY <2>5
  <2> QED
    BY <2>3, <2>4, <2>6 DEF PlotW, PlotH, q
<1> QED
  BY <1>1, <1>2

\* A share of the whole is up to a hundred units.
LEMMA PercentInside ==
    ASSUME NEW max \in Nat \ {0}, NEW v \in Nat
    PROVE  /\ Percent(v, max) \in Nat /\ max * Percent(v, max) <= 100 * v
           /\ v <= max => Percent(v, max) \in 0..100
<1> DEFINE a == 100 * v
<1>1. a \in Nat /\ (v <= max => a <= max * 100)
  OBVIOUS
<1>2. Percent(v, max) = a \div max
  BY DEF Percent
<1> HIDE DEF a
<1>3. a \div max \in Nat /\ max * (a \div max) <= a
  BY <1>1, Quotient
<1>4. v <= max => a \div max \in 0..100
  BY <1>1, QuotientAtMost
<1> QED
  BY <1>2, <1>3, <1>4 DEF a

\* The points of the CDFs lie in the plot.
LEMMA CdfInside ==
    ASSUME NEW rows, DOMAIN rows = 1..3, \A k \in 1..3 : RowDrawable(rows[k]),
           NEW pt \in CdfDrawn(rows)
    PROVE  pt[1] \in 0..PlotW /\ pt[2] \in 0..PlotH
<1> DEFINE S == UNION {{p[1] : p \in ToSet(r.cdf)} : r \in ToSet(rows)}
           m == XMax(rows)
<1>1. \A r \in ToSet(rows) : \E k \in 1..3 : r = rows[k]
  BY DEF ToSet
<1>2. \A k \in 1..3 : rows[k].latency.max \in Nat
  BY DEF RowDrawable, Drawable
<1>3. PICK b \in Nat : \A k \in 1..3 : rows[k].latency.max <= b
  <2> DEFINE f == [k \in 1..3 |-> rows[k].latency.max]
  <2>1. \A k \in 1..3 : f[k] \in Nat /\ f[k] = rows[k].latency.max
    BY <1>2
  <2> HIDE DEF f
  <2>2. PICK b \in Nat : \A k \in 1..3 : f[k] <= b
    BY <2>1, ThreeBounded
  <2> QED
    BY <2>1, <2>2
<1>4. \A r \in ToSet(rows) : \A p \in ToSet(r.cdf) :
         p[1] \in Nat /\ p[1] <= b /\ p[2] \in 1..r.latency.n /\ r.latency.n \in Nat
  <2> SUFFICES ASSUME NEW k \in 1..3, NEW p \in ToSet(rows[k].cdf)
               PROVE  p[1] \in Nat /\ p[1] <= b /\ p[2] \in 1..rows[k].latency.n /\ rows[k].latency.n \in Nat
    BY <1>1
  <2>1. p[1] \in Nat /\ p[1] <= rows[k].latency.max /\ p[2] \in 1..rows[k].latency.n
    BY DEF RowDrawable
  <2>2. rows[k].latency.n \in Nat /\ rows[k].latency.max \in Nat /\ rows[k].latency.max <= b
    BY <1>2, <1>3 DEF RowDrawable, Drawable
  <2> QED
    BY <2>1, <2>2
<1>5. S \in SUBSET Nat /\ \A x \in S : x <= b
  BY <1>4
<1>6. m \in Nat \ {0} /\ \A y \in S : y <= m
  <2>1. m = Max({1} \cup S)
    BY DEF XMax
  <2> HIDE DEF S, m
  <2> QED
    BY <1>5, <2>1, MaxWithOne
<1>7. PICK r \in ToSet(rows) : \E p \in ToSet(r.cdf) :
         pt = <<XScale(20 * p[1], 0, 21 * m), YScale(p[2], 0, r.latency.n)>>
  BY DEF CdfDrawn
<1>8. PICK p \in ToSet(r.cdf) :
         pt = <<XScale(20 * p[1], 0, 21 * m), YScale(p[2], 0, r.latency.n)>>
  BY <1>7
<1>9. p[1] \in S
  OBVIOUS
<1> HIDE DEF S, m
<1>10. 20 * p[1] \in Nat /\ 21 * m \in Nat /\ 0 <= 20 * p[1] /\ 20 * p[1] <= 21 * m
  BY <1>4, <1>6, <1>9
<1>11. p[2] \in Nat /\ r.latency.n \in Nat /\ 0 <= p[2] /\ p[2] <= r.latency.n /\ 0 < r.latency.n
  BY <1>4
<1>12. XScale(20 * p[1], 0, 21 * m) \in 0..PlotW
  BY <1>10, ScalesInside
<1>13. YScale(p[2], 0, r.latency.n) \in 0..PlotH
  BY <1>11, ScalesInside
<1> QED
  BY <1>12, <1>13, <1>8

\* The points of the time series lie in the plot.
LEMMA TimesInside ==
    ASSUME ListsInv, TimesInv, NEW pt \in TimeSeriesDrawn(packets)
    PROVE  pt[1] \in 0..PlotW /\ pt[2] \in 0..PlotH
<1> DEFINE found == PerProto(packets)
           lastTs(proto) == Last(Of(packets, proto)).ts
           times == {lastTs(proto) : proto \in DOMAIN found}
           p99s == {found[proto].latency.p99 : proto \in DOMAIN found}
           yMax == Max({1} \cup p99s)
<1>1. PICK proto \in DOMAIN found :
         \E v \in {found[proto].latency.p50, found[proto].latency.p95, found[proto].latency.p99} :
            pt = <<XScale(lastTs(proto), Min(times), Max(times)), YScale(25 * v, 0, 28 * yMax)>>
  BY DEF TimeSeriesDrawn
<1>2. PICK v \in {found[proto].latency.p50, found[proto].latency.p95, found[proto].latency.p99} :
         pt = <<XScale(lastTs(proto), Min(times), Max(times)), YScale(25 * v, 0, 28 * yMax)>>
  BY <1>1
<1>3. arrivals \in Nat
  BY DEF ListsInv
<1>4. \A q \in DOMAIN found : lastTs(q) \in Nat /\ lastTs(q) <= arrivals /\ RowDrawable(found[q])
  BY FoundDrawable
<1> HIDE DEF found, lastTs
<1>5. times \in SUBSET Nat /\ lastTs(proto) \in times /\ times # {} /\ \A x \in times : x <= arrivals
  BY <1>4
<1> HIDE DEF times
<1>6. /\ Min(times) \in Nat /\ Max(times) \in Nat /\ lastTs(proto) \in Nat
      /\ Min(times) <= lastTs(proto) /\ lastTs(proto) <= Max(times)
  BY <1>3, <1>4, <1>5, MinIs, MaxIs
<1>7. XScale(lastTs(proto), Min(times), Max(times)) \in 0..PlotW
  BY <1>6, ScalesInside
<1>8. PICK b \in Nat : \A x \in p99s : x <= b
  <2> DEFINE rows == ProtoRows(packets)
             f == [k \in 1..3 |-> rows[k].latency.p99]
  <2>1. /\ \A k \in 1..3 : RowDrawable(rows[k])
        /\ \A q \in DOMAIN found : \E k \in 1..3 : found[q] = rows[k]
    BY RowsDrawable DEF found
  <2> HIDE DEF rows
  <2>2. \A k \in 1..3 : f[k] \in Nat /\ f[k] = rows[k].latency.p99
    BY <2>1 DEF RowDrawable, Drawable
  <2> HIDE DEF f
  <2>3. PICK b \in Nat : \A k \in 1..3 : f[k] <= b
    BY <2>2, ThreeBounded
  <2>4. \A q \in DOMAIN found : found[q].latency.p99 <= b
    BY <2>1, <2>2, <2>3
  <2> QED
    BY <2>4
<1>9. \A q \in DOMAIN found : Drawable(found[q].latency)
  BY <1>4 DEF RowDrawable
<1>10. p99s \in SUBSET Nat /\ found[proto].latency.p99 \in p99s
  BY <1>9 DEF Drawable
<1> HIDE DEF p99s
<1>11. yMax \in Nat \ {0} /\ found[proto].latency.p99 <= yMax
  BY <1>8, <1>10, MaxWithOne
<1> HIDE DEF yMax
<1>12. v \in Nat /\ v <= found[proto].latency.p99 /\ found[proto].latency.p99 \in Nat
  BY <1>2, <1>9 DEF Drawable
<1>13. 25 * v \in Nat /\ 28 * yMax \in Nat /\ 0 <= 25 * v /\ 25 * v <= 28 * yMax /\ 0 < 28 * yMax
  BY <1>11, <1>12
<1>14. YScale(25 * v, 0, 28 * yMax) \in 0..PlotH
  BY <1>13, ScalesInside
<1> QED
  BY <1>2, <1>7, <1>14

\* The full length of a bar is at least 1 and no less than the number of any row.
LEMMA BarTop ==
    ASSUME NEW f, \A k \in 1..3 : f[k] \in Nat, NEW S, S = {f[k] : k \in 1..3}
    PROVE  Max({1} \cup S) \in Nat \ {0} /\ \A k \in 1..3 : f[k] <= Max({1} \cup S)
<1>1. PICK b \in Nat : \A k \in 1..3 : f[k] <= b
  BY ThreeBounded
<1>2. S \in SUBSET Nat /\ \A x \in S : x <= b
  BY <1>1
<1>3. \A k \in 1..3 : f[k] \in S
  OBVIOUS
<1> QED
  BY <1>1, <1>2, <1>3, MaxWithOne

\* A bar within its hundred units.
Fits(bar) == bar[1] >= 0 /\ bar[2] >= 0 /\ bar[1] + bar[2] <= 100

\* The bars of the protocol comparison fit.
LEMMA ComparisonFits ==
    ASSUME NEW rows, DOMAIN rows = 1..3, \A k \in 1..3 : RowDrawable(rows[k]),
           NEW bar \in ComparisonBars(rows)
    PROVE  Fits(bar)
<1> DEFINE f == [k \in 1..3 |-> rows[k].latency.p99]
           S == {r.latency.p99 : r \in ToSet(rows)}
           max == Max({1} \cup S)
           cut(v) == Min({100, Percent(v, max)})
<1>1. \A k \in 1..3 : f[k] = rows[k].latency.p99 /\ f[k] \in Nat
  BY DEF RowDrawable, Drawable
<1>2. S = {f[k] : k \in 1..3}
  BY DEF ToSet
<1> HIDE DEF f, S
<1>3. max \in Nat \ {0}
  BY <1>1, <1>2, BarTop
<1>4. PICK r \in ToSet(rows) :
         bar \in {<<0, cut(r.latency.mean)>>, <<0, cut(r.latency.p95)>>, <<0, cut(r.latency.p99)>>}
  BY DEF ComparisonBars, S
<1> HIDE DEF max
<1>5. r.latency.mean \in Nat /\ r.latency.p95 \in Nat /\ r.latency.p99 \in Nat
  BY DEF ToSet, RowDrawable, Drawable
<1>6. \A v \in Nat : cut(v) \in 0..100
  <2> TAKE v \in Nat
  <2> DEFINE q == Percent(v, max)
  <2>1. q \in Nat
    BY <1>3, PercentInside
  <2> HIDE DEF q
  <2>2. Min({100, q}) = IF 100 > q THEN q ELSE 100
    BY <2>1, TwoNumbers
  <2>3. Min({100, q}) \in 0..100
    BY <2>1, <2>2
  <2> QED
    BY <2>3 DEF q
<1> HIDE DEF cut
<1>7. \E v \in Nat : bar = <<0, cut(v)>>
  BY <1>4, <1>5
<1> QED
  BY <1>6, <1>7 DEF Fits

\* The bars and the marks of the sizes fit.
LEMMA SizesFit ==
    ASSUME NEW rows, DOMAIN rows = 1..3, \A k \in 1..3 : RowDrawable(rows[k]),
           NEW bar \in SizeBars(rows)
    PROVE  Fits(bar)
<1> DEFINE f == [k \in 1..3 |-> rows[k].size.max]
           S == {r.size.max : r \in ToSet(rows)}
           max == Max({1} \cup S)
<1>1. \A k \in 1..3 : f[k] = rows[k].size.max /\ f[k] \in Nat
  BY DEF RowDrawable, Drawable
<1>2. S = {f[k] : k \in 1..3}
  BY DEF ToSet
<1> HIDE DEF f, S
<1>3. max \in Nat \ {0} /\ \A k \in 1..3 : f[k] <= max
  BY <1>1, <1>2, BarTop
<1>4. PICK r \in ToSet(rows) :
         bar \in {<<0, Percent(r.size.p95, max)>>, <<Percent(r.size.mean, max), 0>>,
                  <<Percent(r.size.p50, max), 0>>}
  BY DEF SizeBars, S
<1> HIDE DEF max
<1>5. PICK k \in 1..3 : r = rows[k]
  BY DEF ToSet
<1>6. r.size.mean \in Nat /\ r.size.p95 \in Nat /\ r.size.p50 \in Nat
      /\ r.size.mean <= max /\ r.size.p95 <= max /\ r.size.p50 <= max
  <2>1. Drawable(r.size) /\ r.size.max <= max
    BY <1>1, <1>3, <1>5 DEF RowDrawable
  <2> QED
    BY <1>3, <2>1 DEF Drawable
<1>7. \A v \in Nat : v <= max => Percent(v, max) \in 0..100
  BY <1>3, PercentInside
<1>8. \E q \in 0..100 : bar = <<0, q>> \/ bar = <<q, 0>>
  BY <1>4, <1>6, <1>7
<1> QED
  BY <1>8 DEF Fits

\* The mean of the gaps fits, and the band of a standard deviation around it.
LEMMA GapsFit ==
    ASSUME NEW rows, DOMAIN rows = 1..3, \A k \in 1..3 : RowDrawable(rows[k]),
           NEW bar \in IatBars(rows)
    PROVE  Fits(bar)
<1> DEFINE f == [k \in 1..3 |-> rows[k].iat.max]
           S == {r.iat.max : r \in ToSet(rows)}
           max == Max({1} \cup S)
           left(r) == Max({0, r.iat.mean - r.iat.stddev})
           right(r) == Min({max, r.iat.mean + r.iat.stddev})
<1>1. \A k \in 1..3 : f[k] = rows[k].iat.max /\ f[k] \in Nat
  BY DEF RowDrawable, Drawable
<1>2. S = {f[k] : k \in 1..3}
  BY DEF ToSet
<1> HIDE DEF f, S
<1>3. max \in Nat \ {0} /\ \A k \in 1..3 : f[k] <= max
  BY <1>1, <1>2, BarTop
<1>4. PICK r \in ToSet(rows) :
         bar \in {<<0, Percent(r.iat.mean, max)>>,
                  <<Percent(left(r), max), Percent(right(r) - left(r), max)>>}
  BY DEF IatBars, S
<1> HIDE DEF max
<1>5. PICK k \in 1..3 : r = rows[k]
  BY DEF ToSet
<1>6. Drawable(r.iat) /\ r.iat.max <= max
  BY <1>1, <1>3, <1>5 DEF RowDrawable
<1> DEFINE mean == r.iat.mean
           dev == r.iat.stddev
           a == left(r)
           b == right(r)
<1>7. mean \in Nat /\ dev \in Nat /\ mean <= max
  BY <1>3, <1>6 DEF Drawable
<1>8. a \in Nat /\ b \in Nat /\ a <= b /\ b <= max
  <2>1. a = Max({0, mean - dev}) /\ b = Min({max, mean + dev})
    OBVIOUS
  <2> HIDE DEF mean, dev, a, b
  <2>2. mean - dev \in Int /\ mean + dev \in Int
    BY <1>7
  <2>3. /\ a = IF 0 > mean - dev THEN 0 ELSE mean - dev
        /\ b = IF max > mean + dev THEN mean + dev ELSE max
    <3> DEFINE x == mean - dev
               y == mean + dev
    <3>1. x \in Int /\ y \in Int /\ 0 \in Int /\ max \in Int
      BY <1>3, <2>2
    <3>2. a = Max({0, x}) /\ b = Min({max, y})
      BY <2>1
    <3> HIDE DEF x, y
    <3>3. Max({0, x}) = IF 0 > x THEN 0 ELSE x
      BY <3>1, TwoNumbers
    <3>4. Min({max, y}) = IF max > y THEN y ELSE max
      BY <3>1, TwoNumbers
    <3> QED
      BY <3>2, <3>3, <3>4, Zenon DEF x, y
  <2> QED
    BY <1>3, <1>7, <2>3
<1>9. CASE bar = <<0, Percent(mean, max)>>
  <2>1. Percent(mean, max) \in 0..100
    BY <1>3, <1>7, PercentInside
  <2> QED
    BY <1>9, <2>1 DEF Fits
<1>10. CASE bar = <<Percent(a, max), Percent(b - a, max)>>
  <2> DEFINE p == Percent(a, max)
             q == Percent(b - a, max)
  <2> HIDE DEF a, b
  <2>1. b - a \in Nat
    BY <1>8
  <2>2. p \in Nat /\ max * p <= 100 * a /\ q \in Nat /\ max * q <= 100 * (b - a)
    BY <1>3, <1>8, <2>1, PercentInside
  <2> HIDE DEF p, q
  <2>3. max * p + max * q = max * (p + q) /\ max * p \in Nat /\ max * q \in Nat /\ max * (p + q) \in Nat
    BY <1>3, <2>2
  <2>4. max * (p + q) <= 100 * max
    <3> DEFINE x == max * p
               y == max * q
               z == max * (p + q)
    <3>1. x \in Nat /\ y \in Nat /\ z = x + y /\ x <= 100 * a /\ y <= 100 * (b - a)
      BY <2>2, <2>3
    <3> HIDE DEF x, y, z
    <3>2. z <= 100 * max
      BY <1>3, <1>8, <3>1
    <3> QED
      BY <3>2 DEF z
  <2>5. ~(p + q >= 101)
    <3>1. p + q >= 101 => max * 101 <= max * (p + q)
      <4>1. p + q \in Nat /\ 101 \in Nat /\ max \in Nat
        BY <1>3, <2>2
      <4> QED
        BY <4>1, ProductGrows
    <3> DEFINE z == max * (p + q)
    <3>2. z \in Nat /\ z <= 100 * max /\ (p + q >= 101 => max * 101 <= z)
      BY <2>3, <2>4, <3>1
    <3> HIDE DEF z
    <3>3. max * 101 > 100 * max
      BY <1>3
    <3> QED
      BY <1>3, <3>2, <3>3
  <2>6. p + q <= 100 /\ p >= 0 /\ q >= 0
    BY <2>2, <2>5
  <2>7. bar[1] = p /\ bar[2] = q
    BY <1>10 DEF p, q
  <2> QED
    BY <2>6, <2>7 DEF Fits
<1> QED
  BY <1>4, <1>9, <1>10

\* All of DrawnApartInside, in a state of which the invariants hold.
LEMMA DrawnWell == MapInv /\ ListsInv /\ TimesInv => DrawnApartInside
<1> SUFFICES ASSUME MapInv, ListsInv, TimesInv PROVE DrawnApartInside
  OBVIOUS
<1> DEFINE rows == ProtoRows(packets)
<1>1. DOMAIN rows = 1..3 /\ \A k \in 1..3 : RowDrawable(rows[k])
  BY RowsDrawable
<1> HIDE DEF rows
<1>2. \A pt \in CdfDrawn(rows) \cup TimeSeriesDrawn(packets) : pt[1] \in 0..PlotW /\ pt[2] \in 0..PlotH
  BY <1>1, CdfInside, TimesInside
<1>3. \A bar \in ComparisonBars(rows) \cup IatBars(rows) \cup SizeBars(rows) :
         bar[1] >= 0 /\ bar[2] >= 0 /\ bar[1] + bar[2] <= 100
  <2>1. \A bar \in ComparisonBars(rows) \cup IatBars(rows) \cup SizeBars(rows) : Fits(bar)
    BY <1>1, ComparisonFits, GapsFit, SizesFit
  <2> QED
    BY <2>1 DEF Fits
<1>4. ASSUME tab = "graph", NEW k \in DOMAIN Messages(Drawn)
      PROVE  LET arrow == Arrow(Messages(Drawn), Columns, k)
             IN  /\ {arrow.from, arrow.to} \subseteq 0..SequenceWidth(Len(Columns))
                 /\ arrow.y \in 0..SequenceHeight(Messages(Drawn)) - 64 - 40
  BY <1>4, ArrowsInside
<1>5. ASSUME tab = "graph"
      PROVE  LET edges == DrawnEdges
                 slots == RouteSlots(edges, devMap, Places)
                 lane(i) == {j \in DOMAIN edges : LaneOf(edges[j], devMap) = LaneOf(edges[i], devMap)}
             IN  /\ DOMAIN Places = DOMAIN devMap
                 /\ \A ip \in DOMAIN Places :
                       LaneX(devMap[ip].group) \in 0..Width /\ Places[ip] \in 56 * Unit..(Height - 40) * Unit
                 /\ \A a, b \in DOMAIN devMap :
                       a # b /\ devMap[a].group = devMap[b].group => Places[a] # Places[b]
                 /\ \A i \in DOMAIN edges : \A j \in lane(i) \ {i} :
                       Cardinality(lane(i)) <= 2 * (SlotLimit \div 7) + 1 =>
                          /\ slots[i] # slots[j]
                          /\ edges[i].src = edges[j].src /\ edges[i].dst = edges[j].dst =>
                                CurveShift(edges[i], slots[i]) # CurveShift(edges[j], slots[j])
  BY <1>5, TopologyApart
<1> QED
  BY <1>2, <1>3, <1>4, <1>5, Zenon DEF DrawnApartInside, rows

\* For any traffic, presets, labels and size of the view, nothing is drawn outside its
\* drawing, no two devices of the topology at one place and no two curves of a lane on
\* each other, as long as placeMembers and routeSlots have room for them.
THEOREM NothingOverlaps == Spec => []DrawnApartInside
<1> QED
  BY DrawnWell, ViewsInit, ViewsStep, ListsInit, ListsStep, TimesInit, TimesStep, PTL DEF Spec
===========================================================================
