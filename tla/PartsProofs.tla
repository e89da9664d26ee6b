------------------------------- MODULE PartsProofs -----------------------------
(***************************************************************************)
(* Safety of components of MCServices: files that are kept (the credentials    *)
(* and the catalog of models), events that are delivered and workflow scripts,  *)
(* for any callers, logins, catalogs, drafts, batches, buffers and callbacks.   *)
(***************************************************************************)
EXTENDS MCServices, WellFoundedInduction, FiniteSetTheorems, TLAPS

--------------------------------------------------------------------------------
(* The catalogs of models and their merge: a fold over the models, unrolled to be *)
(* reasoned about by induction on how many have been merged.                       *)

\* Induction on the natural numbers, about a set of them.
LEMMA NatsByInduction ==
  ASSUME NEW T, 0 \in T, \A n \in Nat : n \in T => n + 1 \in T
  PROVE  Nat \subseteq T
<1> DEFINE R == OpToRel(<, Nat)
           bad == Nat \ T
<1> SUFFICES ASSUME bad # {} PROVE FALSE
  OBVIOUS
<1>1. IsWellFoundedOn(R, Nat)
  BY NatLessThanWellFounded
<1>2. \A m, n \in Nat : m < n => <<m, n>> \in R
  BY DEF OpToRel
<1> HIDE DEF R
<1>3. PICK x \in bad : \A y \in bad : ~ (<<y, x>> \in R)
  BY <1>1, WFMin
<1>4. x - 1 \in Nat /\ x - 1 < x
  BY <1>3
<1>5. x - 1 \in T
  BY <1>2, <1>3, <1>4
<1> QED
  BY <1>3, <1>4, <1>5

Merge(cat) == FoldLeft(LAMBDA merged, model : mergeModel(merged, model), <<>>, cat)

\* The rounds of the fold over a catalog, by the set of the entries merged.
IsMerging(it, cat, n) ==
  it = [s \in SUBSET (1..n) |-> IF s = {} THEN <<>> ELSE mergeModel(it[s \ {Max(s)}], cat[Max(s)])]

Merging(cat) == CHOOSE it : IsMerging(it, cat, Len(cat))

\* The fold over a whole catalog is the last value of its unrolling.
LEMMA MergeIsFold == ASSUME NEW S, NEW cat \in Seq(S) PROVE Merge(cat) = Merging(cat)[1..Len(cat)]
<1>1. DOMAIN cat = 1..Len(cat)
  OBVIOUS
<1> QED
  BY <1>1 DEF Merge, Merging, IsMerging, FoldLeft, MapThenFoldSet

\* A member that bounds a set is its maximum.
LEMMA MaxIsBound ==
  ASSUME NEW s, \E x \in s : \A y \in s : x >= y
  PROVE  Max(s) \in s /\ \A y \in s : Max(s) >= y
BY DEF Max

\* The maximum of indices up to n+1 that include it.
LEMMA MaxOf == ASSUME NEW n \in Nat, NEW s \in SUBSET (1..(n+1)), n + 1 \in s PROVE Max(s) = n + 1
<1>1. n + 1 \in s /\ \A y \in s : n + 1 >= y
  OBVIOUS
<1>2. \E x \in s : \A y \in s : x >= y
  BY <1>1
<1>3. Max(s) \in s /\ \A y \in s : Max(s) >= y
  BY <1>2, MaxIsBound
<1>4. Max(s) \in 1..(n+1) /\ Max(s) >= n + 1
  BY <1>1, <1>3
<1> QED
  BY <1>4

\* The unrolling of the merge exists for every number of models.
LEMMA MergingExists == \A n \in Nat : \A cat : \E it : IsMerging(it, cat, n)
<1> SUFFICES ASSUME NEW cat PROVE Nat \subseteq {n \in Nat : \E it : IsMerging(it, cat, n)}
  OBVIOUS
<1> DEFINE T == {n \in Nat : \E it : IsMerging(it, cat, n)}
<1>1. 0 \in T
  <2> DEFINE it == [s \in SUBSET (1..0) |-> <<>>]
  <2>1. SUBSET (1..0) = {{}}
    OBVIOUS
  <2>2. IsMerging(it, cat, 0)
    BY <2>1 DEF IsMerging
  <2> QED
    BY <2>2
<1>2. ASSUME NEW n \in Nat, n \in T PROVE n + 1 \in T
  <2>1. PICK it : IsMerging(it, cat, n)
    BY <1>2
  <2> DEFINE nx == [s \in SUBSET (1..(n+1)) |-> IF n + 1 \in s THEN mergeModel(it[s \ {n + 1}], cat[n + 1]) ELSE it[s]]
             want == [s \in SUBSET (1..(n+1)) |-> IF s = {} THEN <<>> ELSE mergeModel(nx[s \ {Max(s)}], cat[Max(s)])]
  <2>2. ASSUME NEW s \in SUBSET (1..(n+1)) PROVE nx[s] = want[s]
    <3>1. CASE n + 1 \in s
      <4>1. Max(s) = n + 1
        BY <3>1, MaxOf
      <4>2. s \ {n+1} \in SUBSET (1..n) /\ s \ {n+1} \in SUBSET (1..(n+1)) /\ s # {} /\ n + 1 \notin s \ {n+1}
        BY <3>1
      <4>3. nx[s \ {n+1}] = it[s \ {n+1}]
        BY <4>2
      <4> QED
        BY <3>1, <4>1, <4>2, <4>3
    <3>2. CASE n + 1 \notin s
      <4>1. s \in SUBSET (1..n)
        BY <3>2
      <4> DEFINE r == s \ {Max(s)}
      <4>2. r \in SUBSET (1..n) /\ r \in SUBSET (1..(n+1)) /\ n + 1 \notin r
        BY <3>2, <4>1
      <4>3. it[s] = IF s = {} THEN <<>> ELSE mergeModel(it[r], cat[Max(s)])
        BY <2>1, <4>1 DEF IsMerging
      <4>4. nx[r] = it[r] /\ nx[s] = it[s]
        BY <3>2, <4>2
      <4> QED
        BY <4>3, <4>4
    <3> QED
      BY <3>1, <3>2
  <2>3. nx = want
    BY <2>2
  <2>4. IsMerging(nx, cat, n + 1)
    BY <2>3 DEF IsMerging
  <2> QED
    BY <2>4
<1> HIDE DEF T
<1>3. Nat \subseteq T
  BY <1>1, <1>2, NatsByInduction
<1> QED
  BY <1>3 DEF T

\* It starts with no model.
LEMMA MergingStart == ASSUME NEW S, NEW cat \in Seq(S) PROVE Merging(cat)[{}] = <<>>
<1> DEFINE it == Merging(cat)
<1>1. IsMerging(it, cat, Len(cat))
  BY MergingExists DEF Merging
<1>2. {} \in SUBSET (1..Len(cat))
  OBVIOUS
<1> HIDE DEF it
<1>3. it[{}] = <<>>
  BY <1>1, <1>2 DEF IsMerging
<1> QED
  BY <1>3 DEF it

\* It merges the models one after the other.
LEMMA MergeStep ==
  ASSUME NEW S, NEW cat \in Seq(S), NEW n \in Nat, n < Len(cat)
  PROVE  Merging(cat)[1..(n+1)] = mergeModel(Merging(cat)[1..n], cat[n+1])
<1> DEFINE it == Merging(cat)
<1>1. IsMerging(it, cat, Len(cat))
  BY MergingExists DEF Merging
<1>2. (1..(n+1)) \in SUBSET (1..Len(cat)) /\ {} \in SUBSET (1..Len(cat)) /\ (1..(n+1)) # {}
  <2>1. Len(cat) \in Nat
    OBVIOUS
  <2>2. \A i \in 1..(n+1) : i \in 1..Len(cat)
    BY <2>1
  <2>3. n + 1 \in 1..(n+1)
    OBVIOUS
  <2> HIDE DEF it
  <2>4. (1..(n+1)) # {}
    BY <2>3
  <2> QED
    BY <2>2, <2>4
<1>3. Max(1..(n+1)) = n + 1
  BY MaxOf
<1>4. (1..(n+1)) \ {n+1} = 1..n
  OBVIOUS
<1> HIDE DEF it
<1>6. it[1..(n+1)] = mergeModel(it[1..n], cat[n+1])
  BY <1>1, <1>2, <1>3, <1>4 DEF IsMerging
<1> QED
  BY <1>6 DEF it
\* A function on 1..n is a sequence.
LEMMA IsASeq ==
  ASSUME NEW S, NEW f, NEW n \in Nat, f = [i \in DOMAIN f |-> f[i]], DOMAIN f = 1..n, \A i \in 1..n : f[i] \in S
  PROVE  f \in Seq(S)
OBVIOUS

\* What has been merged of a catalog: every model once, as its last entry so far describes it.
ModelIds == {"builtin-only", "everywhere", "discovered-only"}
Origins == {"builtin", "patched", "discovered", "custom"}
Models == [id : ModelIds, from : Origins]
LastOf(cat, n, model) ==
    \E i \in 1..n : cat[i] = model /\ \A j \in (i+1)..n : cat[j].id # model.id
MergedSound(models, cat, n) ==
    /\ models \in Seq(Models)
    /\ \A a, b \in DOMAIN models : models[a].id = models[b].id => a = b
    /\ \A a \in DOMAIN models : LastOf(cat, n, models[a])

\* One more model keeps what has been merged sound.
LEMMA MergeModelSound ==
  ASSUME NEW cat \in Seq(Models), NEW n \in Nat, n < Len(cat), NEW models, MergedSound(models, cat, n)
  PROVE  MergedSound(mergeModel(models, cat[n+1]), cat, n+1)
<1> DEFINE x == cat[n+1]
           merged == mergeModel(models, x)
<1>1. x \in Models /\ LastOf(cat, n+1, x)
  BY DEF LastOf
<1>2. ASSUME NEW y, LastOf(cat, n, y), y.id # x.id PROVE LastOf(cat, n+1, y)
  <2>1. PICK i \in 1..n : cat[i] = y /\ \A j \in (i+1)..n : cat[j].id # y.id
    BY <1>2 DEF LastOf
  <2>2. i \in 1..(n+1) /\ \A j \in (i+1)..(n+1) : cat[j].id # y.id
    BY <1>2, <2>1
  <2> QED
    BY <2>1, <2>2 DEF LastOf
<1> HIDE DEF x
<1>3. models \in Seq(Models) /\ Len(models) \in Nat /\ DOMAIN models = 1..Len(models)
  BY DEF MergedSound
<1>4. CASE \E a \in DOMAIN models : models[a].id = x.id
  <2> DEFINE put == [a \in DOMAIN models |-> IF models[a].id = x.id THEN x ELSE models[a]]
  <2>1. merged = put
    BY <1>4 DEF mergeModel
  <2>2. \A a \in DOMAIN models : put[a] \in Models /\ put[a].id = models[a].id
    BY <1>1, <1>3
  <2>3. DOMAIN put = 1..Len(models)
    BY <1>3
  <2>4. \A a \in DOMAIN models : LastOf(cat, n+1, put[a])
    BY <1>1, <1>2 DEF MergedSound
  <2>7. put = [a \in DOMAIN put |-> put[a]]
    OBVIOUS
  <2> HIDE DEF put
  <2>5. put \in Seq(Models)
    BY <1>3, <2>2, <2>3, <2>7, IsASeq
  <2>6. MergedSound(put, cat, n+1)
    BY <1>3, <2>2, <2>3, <2>4, <2>5 DEF MergedSound
  <2> QED
    BY <2>1, <2>6 DEF x
<1>5. CASE ~ \E a \in DOMAIN models : models[a].id = x.id
  <2>1. merged = Append(models, x)
    BY <1>5 DEF mergeModel
  <2>2. /\ merged \in Seq(Models) /\ DOMAIN merged = 1..(Len(models) + 1) /\ merged[Len(models) + 1] = x
        /\ \A a \in DOMAIN models : merged[a] = models[a]
    BY <1>1, <1>3, <2>1
  <2> HIDE DEF merged
  <2>3. \A a \in DOMAIN models : models[a].id # x.id /\ LastOf(cat, n+1, models[a])
    BY <1>2, <1>5 DEF MergedSound
  <2>4. \A a \in DOMAIN merged : a \in DOMAIN models \/ a = Len(models) + 1
    BY <1>3, <2>2
  <2>6. \A a, b \in DOMAIN merged : merged[a].id = merged[b].id => a = b
    <3>1. \A a, b \in DOMAIN models : models[a].id = models[b].id => a = b
      BY DEF MergedSound
    <3> QED
      BY <1>3, <2>2, <2>3, <2>4, <3>1
  <2>7. \A a \in DOMAIN merged : LastOf(cat, n+1, merged[a])
    BY <1>1, <2>2, <2>3, <2>4
  <2>5. MergedSound(merged, cat, n+1)
    BY <2>2, <2>6, <2>7 DEF MergedSound
  <2> QED
    BY <2>5 DEF merged, x
<1> QED
  BY <1>4, <1>5

\* A merged catalog has every model once, as its last entry describes it.
LEMMA MergeSound ==
  ASSUME NEW cat \in Seq(Models)
  PROVE  MergedSound(Merge(cat), cat, Len(cat))
<1> DEFINE T == {n \in Nat : n <= Len(cat) => MergedSound(Merging(cat)[1..n], cat, n)}
<1>1. Len(cat) \in Nat
  OBVIOUS
<1>2. 0 \in T
  <2>1. (1..0) = {}
    OBVIOUS
  <2>2. Merging(cat)[{}] = <<>>
    BY MergingStart
  <2>3. MergedSound(<<>>, cat, 0)
    BY DEF MergedSound
  <2> QED
    BY <2>1, <2>2, <2>3
<1>3. \A n \in Nat : n \in T => n + 1 \in T
  BY <1>1, MergeStep, MergeModelSound
<1> HIDE DEF T
<1>4. Len(cat) \in T
  BY <1>1, <1>2, <1>3, NatsByInduction
<1> QED
  BY <1>4, MergeIsFold DEF T


\* What two sequences of a set give one after the other.
LEMMA Joined ==
  ASSUME NEW S, NEW s \in Seq(S), NEW t \in Seq(S)
  PROVE  /\ s \o t \in Seq(S) /\ Len(s \o t) = Len(s) + Len(t)
         /\ \A i \in 1..(Len(s) + Len(t)) : (s \o t)[i] = IF i <= Len(s) THEN s[i] ELSE t[i - Len(s)]
OBVIOUS

\* The three catalogs, one after the other.
LEMMA CatalogEntries ==
  ASSUME NEW custom \in {"none", "broken", "override", "model"}, NEW found \in BOOLEAN
  PROVE  LET cat == builtInModels(custom) \o discoveredModels(found) \o customModels(custom)
         IN /\ cat \in Seq(Models)
            /\ \A i \in DOMAIN cat : cat[i].from = "builtin" => i <= 2
            /\ (\E i \in DOMAIN cat : cat[i].id = "discovered-only") =>
                  Len(cat) >= 3 /\ cat[3].id = "everywhere"
<1> DEFINE b == builtInModels(custom)
           d == discoveredModels(found)
           c == customModels(custom)
<1>1. b \in Seq(Models) /\ Len(b) = 2 /\ b[1].id = "builtin-only" /\ b[2].id = "everywhere"
  <2>0. DOMAIN BuiltIns = 1..2 /\ BuiltIns[1] = "builtin-only" /\ BuiltIns[2] = "everywhere"
    BY DEF BuiltIns
  <2> DEFINE from(n) == IF custom = "override" /\ n = 1 THEN "patched" ELSE "builtin"
             entry(n) == [id |-> BuiltIns[n], from |-> from(n)]
  <2>1. DOMAIN b = 1..2 /\ b[1] = entry(1) /\ b[2] = entry(2)
    BY <2>0 DEF builtInModels
  <2>4. from(1) \in Origins /\ from(2) \in Origins
    BY DEF Origins
  <2> HIDE DEF from
  <2>5. entry(1) \in Models /\ entry(2) \in Models /\ entry(1).id = "builtin-only" /\ entry(2).id = "everywhere"
    BY <2>0, <2>4 DEF Models, ModelIds
  <2>3. b = [i \in DOMAIN b |-> b[i]]
    BY DEF builtInModels
  <2> HIDE DEF b, entry
  <2>6. \A i \in 1..2 : b[i] \in Models
    BY <2>1, <2>5
  <2>7. b \in Seq(Models)
    <3> DEFINE two == 2
    <3>1. two \in Nat /\ DOMAIN b = 1..two /\ \A i \in 1..two : b[i] \in Models
      BY <2>1, <2>6
    <3> HIDE DEF two
    <3> QED
      BY <2>3, <3>1, IsASeq
  <2>8. Len(b) = 2
    BY <2>1, <2>7
  <2> QED
    BY <2>1, <2>5, <2>7, <2>8
<1>2. /\ d \in Seq(Models) /\ (found => Len(d) = 2 /\ d[1].id = "everywhere") /\ (~found => d = <<>>)
      /\ \A i \in DOMAIN d : d[i].from = "discovered"
  <2> DEFINE p == [id |-> "everywhere", from |-> "discovered"]
             q == [id |-> "discovered-only", from |-> "discovered"]
  <2>1. d = IF found THEN <<p, q>> ELSE <<>>
    BY DEF discoveredModels
  <2>2. p \in Models /\ q \in Models /\ p.from = "discovered" /\ q.from = "discovered" /\ p.id = "everywhere"
    BY DEF Models, ModelIds, Origins
  <2> HIDE DEF p, q, d
  <2>3. CASE found
    <3>1. d = <<p, q>>
      BY <2>1, <2>3
    <3>2. d \in Seq(Models) /\ Len(d) = 2 /\ d[1] = p /\ d[2] = q /\ DOMAIN d = 1..2
      BY <2>2, <3>1
    <3>3. \A i \in 1..2 : d[i] = p \/ d[i] = q
      BY <3>2
    <3> QED
      BY <2>2, <2>3, <3>2, <3>3
  <2>4. CASE ~found
    <3>1. d = <<>>
      BY <2>1, <2>4
    <3> QED
      BY <2>4, <3>1
  <2> QED
    BY <2>3, <2>4
<1>3. c \in Seq(Models) /\ \A i \in DOMAIN c : c[i].from = "custom" /\ c[i].id = "everywhere"
  <2> DEFINE p == [id |-> "everywhere", from |-> "custom"]
  <2>1. c = IF custom = "model" THEN <<p>> ELSE <<>>
    BY DEF customModels
  <2>2. p \in Models /\ p.from = "custom" /\ p.id = "everywhere"
    BY DEF Models, ModelIds, Origins
  <2> HIDE DEF p, c
  <2>3. CASE custom = "model"
    <3>1. c = <<p>>
      BY <2>1, <2>3
    <3>2. c \in Seq(Models) /\ DOMAIN c = 1..1 /\ c[1] = p
      BY <2>2, <3>1
    <3>3. \A i \in 1..1 : c[i] = p
      BY <3>2
    <3> QED
      BY <2>2, <3>2, <3>3
  <2>4. CASE custom # "model"
    BY <2>1, <2>4
  <2> QED
    BY <2>3, <2>4
<1> HIDE DEF b, d, c
<1> DEFINE bd == b \o d
           cat == bd \o c
<1>4. /\ bd \in Seq(Models) /\ Len(bd) = 2 + Len(d) /\ bd[1] = b[1] /\ bd[2] = b[2]
      /\ \A i \in DOMAIN bd : i > 2 => bd[i] = d[i-2] /\ i - 2 \in DOMAIN d
  <2>6. b \in Seq(Models) /\ d \in Seq(Models) /\ Len(b) = 2
    BY <1>1, <1>2
  <2>7. /\ bd \in Seq(Models) /\ Len(bd) = Len(b) + Len(d)
        /\ \A i \in 1..(Len(b) + Len(d)) : bd[i] = IF i <= Len(b) THEN b[i] ELSE d[i - Len(b)]
    BY <2>6, Joined
  <2>1. bd \in Seq(Models) /\ Len(bd) = 2 + Len(d)
    BY <2>6, <2>7
  <2>2. DOMAIN b = 1..2 /\ DOMAIN d = 1..Len(d) /\ Len(d) \in Nat /\ DOMAIN bd = 1..(2 + Len(d))
    BY <1>1, <1>2, <2>1
  <2>3. bd[1] = b[1] /\ bd[2] = b[2]
    BY <2>2, <2>6, <2>7
  <2>4. ASSUME NEW i \in 1..(2 + Len(d)), i > 2 PROVE bd[i] = d[i-2]
    <3>1. i \in 1..(Len(b) + Len(d)) /\ ~(i <= Len(b)) /\ i - Len(b) = i - 2
      BY <1>1, <2>2, <2>4
    <3>2. bd[i] = d[i - Len(b)]
      BY <2>7, <3>1
    <3> QED
      BY <3>1, <3>2
  <2>5. \A i \in 1..(2 + Len(d)) : i > 2 => i - 2 \in 1..Len(d)
    BY <2>2
  <2> QED
    BY <2>1, <2>2, <2>3, <2>4, <2>5
<1> HIDE DEF bd
<1>5. /\ cat \in Seq(Models) /\ \A i \in DOMAIN bd : cat[i] = bd[i] /\ i \in DOMAIN cat
      /\ \A i \in DOMAIN cat \ DOMAIN bd : \E j \in DOMAIN c : cat[i] = c[j]
  <2>1. cat \in Seq(Models) /\ \A i \in DOMAIN bd : cat[i] = bd[i] /\ i \in DOMAIN cat
    BY <1>3, <1>4
  <2>2. \A i \in DOMAIN cat \ DOMAIN bd : i - Len(bd) \in DOMAIN c /\ cat[i] = c[i - Len(bd)]
    BY <1>3, <1>4
  <2> QED
    BY <2>1, <2>2
<1> HIDE DEF cat
<1>6. ASSUME NEW i \in DOMAIN cat, i > 2 PROVE cat[i].from # "builtin" /\ (cat[i].id = "discovered-only" => found)
  <2>1. CASE i \in DOMAIN bd
    <3>1. cat[i] = d[i-2] /\ i - 2 \in DOMAIN d
      BY <1>4, <1>5, <1>6, <2>1
    <3>2. d # <<>>
      BY <3>1
    <3>3. d[i-2].from = "discovered"
      BY <1>2, <3>1
    <3> QED
      BY <1>2, <3>1, <3>2, <3>3
  <2>2. CASE i \notin DOMAIN bd
    <3>1. PICK j \in DOMAIN c : cat[i] = c[j]
      BY <1>5, <2>2
    <3> QED
      BY <1>3, <3>1
  <2> QED
    BY <2>1, <2>2
<1>9. DOMAIN cat = 1..Len(cat) /\ Len(cat) \in Nat /\ 1 \in DOMAIN bd /\ 2 \in DOMAIN bd /\ DOMAIN bd = 1..(2 + Len(d)) /\ Len(d) \in Nat
  BY <1>2, <1>4, <1>5
<1>7. \A i \in DOMAIN cat : i <= 2 => cat[i].id # "discovered-only"
  <2>1. cat[1] = b[1] /\ cat[2] = b[2]
    BY <1>4, <1>5, <1>9
  <2>2. cat[1].id # "discovered-only" /\ cat[2].id # "discovered-only"
    BY <1>1, <2>1
  <2>3. \A i \in DOMAIN cat : i <= 2 => i = 1 \/ i = 2
    BY <1>9
  <2> QED
    BY <2>2, <2>3
<1>8. found => Len(cat) >= 3 /\ cat[3].id = "everywhere"
  <2> SUFFICES ASSUME found PROVE Len(cat) >= 3 /\ cat[3].id = "everywhere"
    OBVIOUS
  <2>1. 3 \in DOMAIN bd /\ 3 > 2 /\ 3 - 2 = 1 /\ d[1].id = "everywhere"
    BY <1>2, <1>9
  <2>2. cat[3] = d[1] /\ 3 \in DOMAIN cat
    BY <1>4, <1>5, <2>1
  <2> QED
    BY <1>9, <2>1, <2>2
<1>10. \A i \in DOMAIN cat : cat[i].from = "builtin" => i <= 2
  BY <1>6, <1>9
<1>11. (\E i \in DOMAIN cat : cat[i].id = "discovered-only") => Len(cat) >= 3 /\ cat[3].id = "everywhere"
  BY <1>6, <1>7, <1>8, <1>9
<1>12. cat = builtInModels(custom) \o discoveredModels(found) \o customModels(custom)
  BY DEF cat, bd, b, c, d
<1> QED
  BY <1>5, <1>10, <1>11, <1>12

\* What the registry holds has every model once, and none that a later catalog replaced.
LEMMA MergedAreSound ==
  ASSUME mcModels = <<>> \/ \E custom \in {"none", "broken", "override", "model"}, found \in BOOLEAN :
                                mcModels = mergeModelCatalogs(custom, found)
  PROVE  MergedModels
<1>1. CASE mcModels = <<>>
  BY <1>1 DEF MergedModels
<1>2. CASE \E custom \in {"none", "broken", "override", "model"}, found \in BOOLEAN :
                                mcModels = mergeModelCatalogs(custom, found)
  <2>1. PICK custom \in {"none", "broken", "override", "model"}, found \in BOOLEAN :
                                mcModels = mergeModelCatalogs(custom, found)
    BY <1>2
  <2> DEFINE cat == builtInModels(custom) \o discoveredModels(found) \o customModels(custom)
  <2>2. mcModels = Merge(cat)
    BY <2>1 DEF mergeModelCatalogs, Merge
  <2>3. /\ cat \in Seq(Models)
        /\ \A i \in DOMAIN cat : cat[i].from = "builtin" => i <= 2
        /\ (\E i \in DOMAIN cat : cat[i].id = "discovered-only") => Len(cat) >= 3 /\ cat[3].id = "everywhere"
    BY CatalogEntries
  <2> HIDE DEF cat
  <2>4. MergedSound(mcModels, cat, Len(cat))
    BY <2>2, <2>3, MergeSound
  <2>5. ASSUME NEW n \in DOMAIN mcModels, mcModels[n].id = "everywhere", mcModels[n].from = "builtin",
               NEW m \in DOMAIN mcModels, mcModels[m].id = "discovered-only"
        PROVE  FALSE
    <3>1. PICK i \in 1..Len(cat) : cat[i] = mcModels[n] /\ \A j \in (i+1)..Len(cat) : cat[j].id # mcModels[n].id
      BY <2>4 DEF MergedSound, LastOf
    <3>2. PICK k \in 1..Len(cat) : cat[k] = mcModels[m]
      BY <2>4 DEF MergedSound, LastOf
    <3>3. i <= 2 /\ Len(cat) >= 3 /\ cat[3].id = "everywhere"
      BY <2>3, <2>5, <3>1, <3>2
    <3>4. 3 \in (i+1)..Len(cat)
      BY <2>3, <3>3
    <3> QED
      BY <2>5, <3>1, <3>3, <3>4
  <2> QED
    BY <2>4, <2>5 DEF MergedModels, MergedSound
<1> QED
  BY <1>1, <1>2

--------------------------------------------------------------------------------
(* A refresh of the catalog.  While a tag is on disk, content of its catalog or of a *)
(* later one is behind it; a request carries that tag.                              *)

CatalogSpec == CatalogInit /\ [][CatalogNext]_mcVars

CacheFiles == [of : Nat, whole : BOOLEAN, fresh : BOOLEAN]
Configs == {"none", "broken", "override", "model"}
Refreshes == [pc : {"idle", "fetching", "unmodified", "storing"}, stale : CacheFiles, sent : Nat, got : Nat,
              custom : Configs, todo : {<<>>, <<"tag">>, <<"content", "tag">>}]
CatalogTyped ==
    /\ mcSource \in Nat \ {0} /\ mcContent \in CacheFiles /\ mcTag \in Nat /\ mcConfig \in Configs
    /\ mcRefresh \in Refreshes

\* There is no tag without content, and whole content of its catalog is behind the source's tag.
Vouches(tag, content, source) ==
    /\ content.of = 0 => tag = 0
    /\ tag = source => content.of = tag /\ content.whole
TagVouches == mcTag <= mcSource /\ mcContent.of <= mcSource /\ Vouches(mcTag, mcContent, mcSource)

\* What a request names is the tag there is; until its own tag is written, what is being stored
\* is younger than that.
RequestSound ==
    /\ mcRefresh.pc = "fetching" =>
          /\ mcRefresh.sent = mcTag \/ (mcTag = 0 /\ mcRefresh.sent = 0)
          /\ Vouches(mcRefresh.sent, mcRefresh.stale, mcSource)
    /\ UnmodifiedIsCurrent
    /\ mcRefresh.pc = "storing" =>
          /\ mcRefresh.got \in 1..mcSource /\ mcRefresh.sent \in {0, mcRefresh.got}
          /\ mcRefresh.todo # <<>> => mcTag < mcRefresh.got
          /\ mcRefresh.todo = <<"tag">> => mcContent.of = mcRefresh.got /\ mcContent.whole
    /\ mcRefresh.pc # "storing" => mcRefresh.todo = <<>>

\* The registry holds what a merge made, if anything.
ModelsMerged == mcModels = <<>> \/ \E custom \in Configs, found \in BOOLEAN : mcModels = mergeModelCatalogs(custom, found)

CatalogInv == CatalogTyped /\ TagVouches /\ RequestSound /\ ModelsMerged

\* A refresh that ends leaves what it merged and no request.
LEMMA Publishes ==
  ASSUME CatalogInv, NEW custom \in Configs, NEW found \in BOOLEAN, NEW failed, publishModels(custom, found, failed)
  PROVE  mcRefresh' = AtRest /\ AtRest \in Refreshes /\ ModelsMerged'
<1>1. AtRest \in Refreshes
  BY DEF AtRest, NoFile, Refreshes, CacheFiles, Configs
<1> QED
  BY <1>1 DEF publishModels, Goes, ModelsMerged

\* parse says yes or no.
LEMMA ParsesIsBoolean == \A content : parses(content) \in BOOLEAN
BY DEF parses

\* A registry that starts has an empty cache.
LEMMA CatalogInvInit == CatalogInit => CatalogInv
BY DEF CatalogInit, CatalogInv, CatalogTyped, TagVouches, RequestSound, ModelsMerged, Vouches, NoFile, AtRest, CacheFiles,
       Configs, Refreshes, UnmodifiedIsCurrent

\* Whoever ends a refresh without touching the files keeps what they say.
LEMMA EndsKeep ==
  ASSUME CatalogInv, mcRefresh' = AtRest, AtRest \in Refreshes, ModelsMerged', UNCHANGED <<Files, Around>>
  PROVE  CatalogInv'
BY DEF CatalogInv, CatalogTyped, TagVouches, RequestSound, Vouches, AtRest, UnmodifiedIsCurrent, Files, Around

\* The request names the tag that is on disk when there is content.
LEMMA RequestKeeps == ASSUME CatalogInv, RefreshContext PROVE CatalogInv'
<1>1. CASE publishModels(mcConfig, parses(mcContent), ~parses(mcContent)) /\ UNCHANGED <<Files, Around>>
  BY <1>1, Publishes, ParsesIsBoolean, EndsKeep DEF CatalogInv, CatalogTyped
<1>2. CASE Goes([AtRest EXCEPT !.pc = "fetching", !.stale = mcContent, !.custom = mcConfig,
                               !.sent = IF mcContent.of = 0 THEN 0 ELSE mcTag])
           /\ UNCHANGED <<mcModels, mcErrors, Files, Around>>
  <2> DEFINE sent == IF mcContent.of = 0 THEN 0 ELSE mcTag
  <2>1. /\ mcRefresh' \in Refreshes /\ mcRefresh'.pc = "fetching" /\ mcRefresh'.stale = mcContent
        /\ mcRefresh'.sent = sent /\ mcRefresh'.todo = <<>>
    BY <1>2 DEF Goes, AtRest, NoFile, Refreshes, CacheFiles, Configs, CatalogInv, CatalogTyped
  <2>2. CatalogTyped' /\ TagVouches' /\ ModelsMerged'
    BY <1>2, <2>1 DEF CatalogInv, CatalogTyped, TagVouches, Vouches, ModelsMerged, Files, Around
  <2>3. sent = mcTag \/ (mcTag = 0 /\ sent = 0)
    BY DEF CatalogInv, TagVouches, Vouches
  <2>4. Vouches(sent, mcContent, mcSource)
    BY <2>3 DEF CatalogInv, CatalogTyped, TagVouches, Vouches
  <2> HIDE DEF sent
  <2>5. UNCHANGED <<mcTag, mcSource>>
    BY <1>2 DEF Files, Around
  <2>6. RequestSound'
    BY <2>1, <2>3, <2>4, <2>5 DEF RequestSound, UnmodifiedIsCurrent
  <2> QED
    BY <2>2, <2>6 DEF CatalogInv
<1> QED
  BY <1>1, <1>2 DEF RefreshContext

\* An answer that names the source's catalog is about the content that was there; a new catalog is
\* younger than the tag there is.
LEMMA AnswerKeeps == ASSUME CatalogInv, fetchDiscoveryCatalogConditional PROVE CatalogInv'
<1>1. CASE publishModels(mcRefresh.custom, parses(mcRefresh.stale), ~parses(mcRefresh.stale))
  <2>1. mcRefresh.custom \in Configs /\ UNCHANGED <<Files, Around>>
    BY DEF CatalogInv, CatalogTyped, Refreshes, fetchDiscoveryCatalogConditional
  <2> QED
    BY <1>1, <2>1, Publishes, ParsesIsBoolean, EndsKeep
<1>2. CASE mcRefresh.sent = mcSource /\ Goes([mcRefresh EXCEPT !.pc = "unmodified"])
           /\ UNCHANGED <<mcModels, mcErrors>>
  <2>1. /\ mcRefresh' \in Refreshes /\ mcRefresh'.pc = "unmodified" /\ mcRefresh'.stale = mcRefresh.stale
        /\ mcRefresh'.sent = mcRefresh.sent /\ mcRefresh'.todo = mcRefresh.todo
    BY <1>2 DEF Goes, Refreshes, CatalogInv, CatalogTyped
  <2>2. At("fetching") /\ UNCHANGED <<Files, Around>>
    BY DEF fetchDiscoveryCatalogConditional
  <2> QED
    BY <1>2, <2>1, <2>2 DEF At, CatalogInv, CatalogTyped, TagVouches, RequestSound, Vouches, ModelsMerged,
       UnmodifiedIsCurrent, Files, Around
<1>3. CASE mcRefresh.sent # mcSource /\ UNCHANGED <<mcModels, mcErrors>>
           /\ \E tag \in {0, mcSource} :
                Goes([mcRefresh EXCEPT !.pc = "storing", !.todo = storeOrder, !.got = mcSource, !.sent = tag])
  <2>1. PICK tag \in {0, mcSource} :
                mcRefresh' = [mcRefresh EXCEPT !.pc = "storing", !.todo = storeOrder, !.got = mcSource, !.sent = tag]
    BY <1>3 DEF Goes
  <2> DEFINE a == [mcRefresh EXCEPT !.pc = "storing"]
             b == [a EXCEPT !.todo = storeOrder]
             c == [b EXCEPT !.got = mcSource]
             d == [c EXCEPT !.sent = tag]
  <2>2. mcRefresh' = d
    BY <2>1
  <2>3. a \in Refreshes /\ a.pc = "storing"
    BY DEF Refreshes, CatalogInv, CatalogTyped
  <2> HIDE DEF a
  <2>4. b \in Refreshes /\ b.pc = "storing" /\ b.todo = <<"content", "tag">>
    BY <2>3 DEF Refreshes, storeOrder
  <2> HIDE DEF b
  <2>5. c \in Refreshes /\ c.pc = "storing" /\ c.todo = <<"content", "tag">> /\ c.got = mcSource
    BY <2>4 DEF Refreshes, CatalogInv, CatalogTyped
  <2> HIDE DEF c
  <2>6. d \in Refreshes /\ d.pc = "storing" /\ d.todo = <<"content", "tag">> /\ d.got = mcSource /\ d.sent = tag
    BY <2>5 DEF Refreshes, CatalogInv, CatalogTyped
  <2> HIDE DEF d
  <2>7. At("fetching") /\ UNCHANGED <<Files, Around>>
    BY DEF fetchDiscoveryCatalogConditional
  <2>8. mcTag < mcSource
    BY <1>3, <2>7 DEF At, CatalogInv, CatalogTyped, TagVouches, RequestSound
  <2>9. CatalogTyped' /\ TagVouches' /\ ModelsMerged'
    BY <1>3, <2>2, <2>6, <2>7 DEF CatalogInv, CatalogTyped, TagVouches, Vouches, ModelsMerged, Files, Around
  <2>10. RequestSound'
    BY <2>2, <2>6, <2>7, <2>8 DEF CatalogInv, CatalogTyped, RequestSound, UnmodifiedIsCurrent, Files, Around
  <2> QED
    BY <2>9, <2>10 DEF CatalogInv
<1> QED
  BY <1>1, <1>2, <1>3 DEF fetchDiscoveryCatalogConditional

\* A 304 makes the content fresh and changes no other part of it.
LEMMA UnmodifiedKeeps == ASSUME CatalogInv, discoveredModelsFromNotModifiedCache PROVE CatalogInv'
<1>1. mcRefresh.custom \in Configs
  BY DEF CatalogInv, CatalogTyped, Refreshes
<1>2. mcRefresh' = AtRest /\ AtRest \in Refreshes /\ ModelsMerged' /\ UNCHANGED <<mcTag, Around>>
  BY <1>1, Publishes, ParsesIsBoolean DEF discoveredModelsFromNotModifiedCache
<1>3. mcContent' \in CacheFiles /\ mcContent'.of = mcContent.of /\ mcContent'.whole = mcContent.whole
  BY DEF discoveredModelsFromNotModifiedCache, CatalogInv, CatalogTyped, CacheFiles
<1> QED
  BY <1>2, <1>3 DEF CatalogInv, CatalogTyped, TagVouches, RequestSound, Vouches, AtRest, UnmodifiedIsCurrent, Around

\* The two writes, one after the other.
LEMMA TailsOfOrder ==
  /\ Tail(<<"content", "tag">>) = <<"tag">> /\ Head(<<"content", "tag">>) = "content"
  /\ Tail(<<"tag">>) = <<>> /\ Head(<<"tag">>) = "tag" /\ <<"tag">> # <<>>
<1>1. Tail(<<"content", "tag">>) = <<"tag">>
  OBVIOUS
<1>2. Head(<<"content", "tag">>) = "content"
  OBVIOUS
<1>3. Tail(<<"tag">>) = <<>>
  OBVIOUS
<1> QED
  BY <1>1, <1>2, <1>3

\* The content comes first, so the old tag is behind it; then the new tag names it.
LEMMA StoreKeeps == ASSUME CatalogInv, writeDiscoveryCache \/ DiscoverModelsCached PROVE CatalogInv'
<1>1. /\ mcRefresh.custom \in Configs /\ UNCHANGED Around /\ At("storing")
      /\ mcRefresh.todo \in {<<>>, <<"tag">>, <<"content", "tag">>}
  BY DEF CatalogInv, CatalogTyped, Refreshes, writeDiscoveryCache, DiscoverModelsCached
<1>2. CASE UNCHANGED Files /\ \E found \in BOOLEAN, failed \in BOOLEAN : publishModels(mcRefresh.custom, found, failed)
  BY <1>1, <1>2, Publishes, EndsKeep
<1>3. CASE /\ mcRefresh.todo # <<>> /\ Head(mcRefresh.todo) = "content"
           /\ mcContent' = [of |-> mcRefresh.got, whole |-> TRUE, fresh |-> TRUE]
           /\ Goes([mcRefresh EXCEPT !.todo = Tail(@)]) /\ UNCHANGED <<mcTag, mcModels>>
  <2>1. mcRefresh.todo = <<"content", "tag">> /\ Tail(mcRefresh.todo) = <<"tag">>
    BY <1>1, <1>3, TailsOfOrder
  <2>2. /\ mcRefresh' \in Refreshes /\ mcRefresh'.todo = <<"tag">> /\ mcRefresh'.pc = "storing"
        /\ mcRefresh'.got = mcRefresh.got /\ mcRefresh'.sent = mcRefresh.sent
    BY <1>1, <1>3, <2>1 DEF Goes, At, Refreshes, CatalogInv, CatalogTyped
  <2>3. mcContent' \in CacheFiles /\ mcContent'.of = mcRefresh.got /\ mcContent'.whole
    BY <1>3 DEF CacheFiles, Refreshes, CatalogInv, CatalogTyped
  <2>4. mcRefresh.got \in 1..mcSource /\ mcTag < mcRefresh.got /\ mcRefresh.sent \in {0, mcRefresh.got}
    BY <1>1, <2>1 DEF At, CatalogInv, RequestSound
  <2>5. CatalogTyped' /\ ModelsMerged'
    BY <1>1, <1>3, <2>2, <2>3 DEF CatalogInv, CatalogTyped, ModelsMerged, Around
  <2>6. TagVouches'
    BY <1>1, <1>3, <2>3, <2>4 DEF CatalogInv, CatalogTyped, TagVouches, Vouches, Around
  <2>7. RequestSound'
    BY <1>1, <1>3, <2>2, <2>3, <2>4 DEF RequestSound, UnmodifiedIsCurrent, Around
  <2> QED
    BY <2>5, <2>6, <2>7 DEF CatalogInv
<1>4. CASE /\ mcRefresh.todo # <<>> /\ Head(mcRefresh.todo) = "tag"
           /\ mcTag' = mcRefresh.sent /\ UNCHANGED <<mcContent, mcModels>>
           /\ Goes([mcRefresh EXCEPT !.todo = Tail(@)])
  <2>1. mcRefresh.todo = <<"tag">> /\ Tail(mcRefresh.todo) = <<>>
    BY <1>1, <1>4, TailsOfOrder
  <2>2. /\ mcRefresh' \in Refreshes /\ mcRefresh'.todo = <<>> /\ mcRefresh'.pc = "storing"
        /\ mcRefresh'.got = mcRefresh.got /\ mcRefresh'.sent = mcRefresh.sent
    BY <1>1, <1>4, <2>1 DEF Goes, At, Refreshes, CatalogInv, CatalogTyped
  <2>3. /\ mcRefresh.got \in 1..mcSource /\ mcContent.of = mcRefresh.got /\ mcContent.whole
        /\ mcRefresh.sent \in {0, mcRefresh.got} /\ mcRefresh.sent \in Nat
    BY <1>1, <2>1 DEF At, CatalogInv, CatalogTyped, RequestSound, Refreshes
  <2>4. CatalogTyped' /\ ModelsMerged'
    BY <1>1, <1>4, <2>2, <2>3 DEF CatalogInv, CatalogTyped, ModelsMerged, Around
  <2>5. TagVouches'
    BY <1>1, <1>4, <2>3 DEF CatalogInv, CatalogTyped, TagVouches, Vouches, Around
  <2>6. RequestSound'
    BY <1>1, <1>4, <2>2, <2>3 DEF RequestSound, UnmodifiedIsCurrent, Around
  <2> QED
    BY <2>4, <2>5, <2>6 DEF CatalogInv
<1> QED
  BY <1>2, <1>3, <1>4 DEF writeDiscoveryCache, DiscoverModelsCached

\* A process that dies while it writes leaves content that is cut, under an older tag.
LEMMA DeathKeeps == ASSUME CatalogInv, RegistryDies PROVE CatalogInv'
<1>1. mcRefresh' = AtRest /\ AtRest \in Refreshes /\ ModelsMerged' /\ UNCHANGED <<mcTag, Around>>
  BY DEF RegistryDies, Goes, AtRest, NoFile, Refreshes, CacheFiles, Configs, ModelsMerged
<1>2. CASE UNCHANGED mcContent
  BY <1>1, <1>2, EndsKeep DEF Files
<1>3. CASE mcRefresh.todo # <<>> /\ mcContent' = [of |-> mcRefresh.got, whole |-> FALSE, fresh |-> TRUE]
  <2>1. mcContent' \in CacheFiles /\ mcContent'.of = mcRefresh.got /\ ~mcContent'.whole
    BY <1>3 DEF CacheFiles, Refreshes, CatalogInv, CatalogTyped
  <2> QED
    BY <1>1, <1>3, <2>1 DEF CatalogInv, CatalogTyped, TagVouches, RequestSound, Vouches, AtRest, UnmodifiedIsCurrent, Around
<1> QED
  BY <1>2, <1>3 DEF RegistryDies

\* Time, the source and the user.
LEMMA WorldKeeps ==
  ASSUME CatalogInv, CacheAges \/ SourcePublishes \/ EditModels \/ UNCHANGED mcVars
  PROVE  CatalogInv'
<1>1. CASE CacheAges
  <2>1. mcContent' \in CacheFiles /\ mcContent'.of = mcContent.of /\ mcContent'.whole = mcContent.whole
    BY <1>1 DEF CacheAges, CatalogInv, CatalogTyped, CacheFiles
  <2> QED
    BY <1>1, <2>1 DEF CacheAges, CatalogInv, CatalogTyped, TagVouches, RequestSound, Vouches, ModelsMerged,
       UnmodifiedIsCurrent, Around
<1>2. CASE SourcePublishes
  <2>1. mcSource' = mcSource + 1 /\ UNCHANGED <<mcContent, mcTag, mcConfig, mcRefresh, mcModels, mcErrors>>
    BY <1>2 DEF SourcePublishes, Files
  <2>2. CatalogTyped' /\ ModelsMerged'
    BY <2>1 DEF CatalogInv, CatalogTyped, ModelsMerged
  <2>5. TagVouches'
    BY <2>1 DEF CatalogInv, CatalogTyped, TagVouches, Vouches, CacheFiles
  <2>3. mcRefresh.pc = "fetching" => Vouches(mcRefresh.sent, mcRefresh.stale, mcSource')
    BY <2>1 DEF CatalogInv, CatalogTyped, TagVouches, RequestSound, Vouches
  <2>4. RequestSound'
    BY <2>1, <2>3 DEF CatalogInv, CatalogTyped, RequestSound, UnmodifiedIsCurrent
  <2> QED
    BY <2>2, <2>4, <2>5 DEF CatalogInv
<1>3. CASE EditModels
  BY <1>3 DEF EditModels, CatalogInv, CatalogTyped, TagVouches, RequestSound, Vouches, ModelsMerged,
     UnmodifiedIsCurrent, Files, Configs
<1>4. CASE UNCHANGED mcVars
  BY <1>4 DEF mcVars, CatalogInv, CatalogTyped, TagVouches, RequestSound, Vouches, ModelsMerged, UnmodifiedIsCurrent
<1> QED
  BY <1>1, <1>2, <1>3, <1>4

\* Every step keeps the invariant.
LEMMA CatalogInvNext == CatalogInv /\ [CatalogNext]_mcVars => CatalogInv'
BY RequestKeeps, AnswerKeeps, UnmodifiedKeeps, StoreKeeps, DeathKeeps, WorldKeeps DEF CatalogNext

--------------------------------------------------------------------------------
(* Credentials.  The lock is held from the read to the rename, so the temporary file *)
(* is the file with one change.                                                     *)

CredentialsSpec == CredentialsInit /\ [][CredentialsNext]_auVars

AuthSteps == {"idle", "key", "unset", "failed", "refresh", "wait", "save", "read", "rename", "cache", "loaded"}
AuthFiles == [Providers -> Nat]
AuthWorks == [step : AuthSteps, provider : Providers, grant : Nat, flow : BOOLEAN]

AuthTyped ==
    /\ authFile \in AuthFiles /\ authTemp \in AuthFiles \cup {TornFile} /\ authLock \in Jobs \cup {"free"}
    /\ authCache \in AuthFiles /\ authRead \in AuthFiles /\ authGrants \in Nat
    /\ authWork \in [Jobs -> AuthWorks]

\* Whoever reads and replaces the file holds the lock.
LockHeld == \A j \in Jobs : authWork[j].step \in {"read", "rename"} => authLock = j

\* The file holds what was saved, and the temporary file adds one change to it.
TempIsNext ==
    /\ authFile = authSaved
    /\ \A j \in Jobs : authWork[j].step = "rename" =>
          authTemp = [authFile EXCEPT ![authWork[j].provider] = authWork[j].grant]

\* What is known of the file, and what may be used, was once renamed into place.
KnownIsDurable ==
    /\ \A p \in Providers : {authFile[p], authCache[p], authRead[p]} \subseteq authEver \cup {0}
    /\ \A j \in Jobs \ {Reloading} : authWork[j].step \in {"cache", "key"} => authWork[j].grant \in authEver
    /\ authWork[Reloading].step \in {"idle", "loaded", "key"}

CredentialsInv == AuthTyped /\ LockHeld /\ TempIsNext /\ KnownIsDurable

\* A process that has not begun knows nothing.
LEMMA CredentialsInvInit == CredentialsInit => CredentialsInv
<1> SUFFICES ASSUME CredentialsInit PROVE CredentialsInv
  OBVIOUS
<1>1. NotStarted \in AuthWorks /\ NotStarted.step = "idle" /\ Empty \in AuthFiles
  BY DEF NotStarted, AuthWorks, AuthSteps, Providers, Empty, AuthFiles
<1>2. Reloading \in Jobs
  BY DEF Jobs
<1> QED
  BY <1>1, <1>2 DEF CredentialsInit, CredentialsInv, AuthTyped, LockHeld, TempIsNext, KnownIsDurable, Empty

\* A goroutine outside the file may turn to anything but what the lock protects, and may use
\* what is durable.
LEMMA WorkOnly ==
  ASSUME CredentialsInv, NEW j \in Jobs, NEW w \in AuthWorks, authWork' = [authWork EXCEPT ![j] = w],
         w.step \notin {"read", "rename", "cache"},
         j = Reloading => w.step \in {"idle", "loaded", "key"},
         w.step = "key" /\ j # Reloading => w.grant \in authEver,
         authWork[j].step \notin {"read", "rename"},
         UNCHANGED auFile, authGrants' \in Nat,
         authCache' \in AuthFiles, authRead' \in AuthFiles,
         \A p \in Providers : {authCache[p]', authRead[p]'} \subseteq authEver \cup {0}
  PROVE  CredentialsInv'
<1>1. AuthTyped'
  BY DEF CredentialsInv, AuthTyped, auFile
<1>2. LockHeld' /\ TempIsNext'
  BY DEF CredentialsInv, AuthTyped, LockHeld, TempIsNext, auFile
<1>3. KnownIsDurable'
  BY DEF CredentialsInv, AuthTyped, KnownIsDurable, auFile
<1> QED
  BY <1>1, <1>2, <1>3 DEF CredentialsInv

\* A goroutine takes a step and keeps the rest of its work.
LEMMA StepIsWork ==
  ASSUME CredentialsInv, NEW j \in Jobs, NEW s \in AuthSteps, Step(j, s)
  PROVE  \E w \in AuthWorks : /\ authWork' = [authWork EXCEPT ![j] = w] /\ w.step = s
                              /\ w.grant = authWork[j].grant /\ w.provider = authWork[j].provider
<1> DEFINE w == [authWork[j] EXCEPT !.step = s]
<1>1. w \in AuthWorks /\ w.step = s /\ w.grant = authWork[j].grant /\ w.provider = authWork[j].provider
  BY DEF CredentialsInv, AuthTyped, AuthWorks
<1>2. authWork' = [authWork EXCEPT ![j] = w]
  BY DEF Step
<1> QED
  BY <1>1, <1>2

\* A grant is to be saved.
LEMMA GrantIsWork ==
  ASSUME CredentialsInv, NEW j \in Jobs, Grant(j)
  PROVE  /\ authGrants' \in Nat
         /\ \E w \in AuthWorks : authWork' = [authWork EXCEPT ![j] = w] /\ w.step = "save"
<1> DEFINE p == IF j \in KeySets THEN KeyProvider ELSE OAuthProvider
           granted == [authWork[j] EXCEPT !.grant = authGrants + 1]
           saving == [granted EXCEPT !.step = "save"]
           w == [saving EXCEPT !.provider = p]
<1>1. p \in Providers /\ "save" \in AuthSteps /\ authGrants \in Nat
  BY DEF Providers, AuthSteps, CredentialsInv, AuthTyped
<1>2. authWork' = [authWork EXCEPT ![j] = w]
  BY DEF Grant, CredentialsInv, AuthTyped
<1> HIDE DEF p
<1>3. granted \in AuthWorks
  BY <1>1 DEF CredentialsInv, AuthTyped, AuthWorks
<1> HIDE DEF granted
<1>4. saving \in AuthWorks /\ saving.step = "save"
  BY <1>1, <1>3 DEF AuthWorks
<1> HIDE DEF saving
<1>5. w \in AuthWorks /\ w.step = "save"
  BY <1>1, <1>4 DEF AuthWorks
<1> HIDE DEF w
<1>6. authGrants' \in Nat
  BY <1>1 DEF Grant
<1> QED
  BY <1>2, <1>5, <1>6

\* Nothing else happens to the file and to memory.
LEMMA Apart ==
  ASSUME CredentialsInv, UNCHANGED <<authCache, authRead>>
  PROVE  /\ authCache' \in AuthFiles /\ authRead' \in AuthFiles
         /\ \A p \in Providers : {authCache[p]', authRead[p]'} \subseteq authEver \cup {0}
BY DEF CredentialsInv, AuthTyped, KnownIsDurable

\* The requests to the server, the logins and the commands, up to what they save.
LEMMA CallsKeep ==
  ASSUME CredentialsInv, NEW j \in Callers \cup Logins \cup KeySets,
         \/ authSnapshot(j)
         \/ refreshOAuthCredential(j)
         \/ loginFlow(j)
         \/ completeLogin(j)
         \/ loginCommand(j)
  PROVE  CredentialsInv'
<1>1. j \in Jobs /\ j # Reloading
  BY CredentialsAssumption DEF Jobs, Reloading
<1>2. UNCHANGED <<auFile, authCache, authRead>>
  BY DEF authSnapshot, refreshOAuthCredential, loginFlow, startOAuthCallbackServer, oauthCallback, completeLogin,
         loginCommand, auCache
<1>3. authWork[j].step \notin {"read", "rename"}
  BY DEF authSnapshot, refreshOAuthCredential, loginFlow, startOAuthCallbackServer, oauthCallback, completeLogin,
         loginCommand
<1>4. CASE Grant(j)
  BY <1>1, <1>2, <1>3, <1>4, GrantIsWork, Apart, WorkOnly
<1>5. CASE Step(j, "failed") /\ UNCHANGED authGrants
  <2>1. "failed" \in AuthSteps /\ authGrants \in Nat
    BY DEF AuthSteps, CredentialsInv, AuthTyped
  <2> QED
    BY <1>1, <1>2, <1>3, <1>5, <2>1, StepIsWork, Apart, WorkOnly
<1>6. CASE authSnapshot(j)
  <2> DEFINE g == authCache[OAuthProvider]
             w == [authWork[j] EXCEPT !.grant = g, !.step = keyState(g)]
  <2>1. g \in Nat /\ g \in authEver \cup {0}
    BY DEF CredentialsInv, AuthTyped, AuthFiles, KnownIsDurable, Providers
  <2>2. keyState(g) \in {"unset", "refresh", "key"} /\ (keyState(g) = "key" => g # 0)
    BY <2>1 DEF keyState
  <2>3. authWork' = [authWork EXCEPT ![j] = w]
    BY <1>6, <1>1 DEF authSnapshot, CredentialsInv, AuthTyped
  <2> HIDE DEF g
  <2>4. w \in AuthWorks /\ w.step = keyState(g) /\ w.grant = g
    BY <1>1, <2>1, <2>2 DEF CredentialsInv, AuthTyped, AuthWorks, AuthSteps
  <2>5. authGrants' \in Nat
    BY <1>6 DEF authSnapshot, auServer, CredentialsInv, AuthTyped
  <2> HIDE DEF w
  <2> QED
    BY <1>1, <1>2, <1>3, <2>1, <2>2, <2>3, <2>4, <2>5, Apart, WorkOnly
<1>7. CASE startOAuthCallbackServer(j)
  <2> DEFINE s == IF authPort = "free" THEN "wait" ELSE "failed"
             w == [authWork[j] EXCEPT !.flow = TRUE, !.step = s]
  <2>1. authWork' = [authWork EXCEPT ![j] = w]
    BY <1>7, <1>1 DEF startOAuthCallbackServer, CredentialsInv, AuthTyped
  <2>2. s \in {"wait", "failed"}
    OBVIOUS
  <2> HIDE DEF s
  <2>3. w \in AuthWorks /\ w.step = s
    BY <1>1, <2>2 DEF CredentialsInv, AuthTyped, AuthWorks, AuthSteps
  <2>4. authGrants' \in Nat
    BY <1>7 DEF startOAuthCallbackServer, CredentialsInv, AuthTyped
  <2> HIDE DEF w
  <2> QED
    BY <1>1, <1>2, <1>3, <2>1, <2>2, <2>3, <2>4, Apart, WorkOnly
<1> QED
  BY <1>4, <1>5, <1>6, <1>7 DEF refreshOAuthCredential, loginFlow, oauthCallback, completeLogin, loginCommand, exchangeCode

\* Logout and reload: what is read of the file is durable.
LEMMA CommandsKeep ==
  ASSUME CredentialsInv, logoutCommand \/ reloadRuntime \/ replaceCredentials
  PROVE  CredentialsInv'
<1>1. Logout \in Jobs /\ Reloading \in Jobs /\ Logout # Reloading /\ UNCHANGED auFile /\ authGrants' \in Nat
  BY DEF Jobs, Logout, Reloading, logoutCommand, reloadRuntime, replaceCredentials, auServer, CredentialsInv, AuthTyped
<1>2. {"save", "loaded", "key"} \subseteq AuthSteps
  BY DEF AuthSteps
<1>3. CASE logoutCommand
  <2>1. authWork[Logout].step \notin {"read", "rename"} /\ Step(Logout, "save") /\ UNCHANGED <<authCache, authRead>>
    BY <1>3 DEF logoutCommand, auCache
  <2> QED
    BY <1>1, <1>2, <2>1, StepIsWork, Apart, WorkOnly
<1>4. CASE reloadRuntime
  <2>1. authWork[Reloading].step \notin {"read", "rename"} /\ Step(Reloading, "loaded")
    BY <1>4 DEF reloadRuntime
  <2>2. /\ authCache' \in AuthFiles /\ authRead' \in AuthFiles
        /\ \A p \in Providers : {authCache[p]', authRead[p]'} \subseteq authEver \cup {0}
    BY <1>4 DEF reloadRuntime, CredentialsInv, AuthTyped, KnownIsDurable
  <2> QED
    BY <1>1, <1>2, <2>1, <2>2, StepIsWork, WorkOnly
<1>5. CASE replaceCredentials
  <2>1. authWork[Reloading].step \notin {"read", "rename"} /\ Step(Reloading, "key")
    BY <1>5 DEF replaceCredentials
  <2>2. Empty \in AuthFiles /\ \A p \in Providers : Empty[p] = 0
    BY DEF Empty, AuthFiles
  <2>3. /\ authCache' \in AuthFiles /\ authRead' \in AuthFiles
        /\ \A p \in Providers : {authCache[p]', authRead[p]'} \subseteq authEver \cup {0}
    BY <1>5, <2>2 DEF replaceCredentials, CredentialsInv, AuthTyped, KnownIsDurable
  <2> QED
    BY <1>1, <1>2, <2>1, <2>3, StepIsWork, WorkOnly
<1> QED
  BY <1>3, <1>4, <1>5

\* A file that was cut short holds nothing for any provider.
LEMMA TornIsNoFile == TornFile \notin AuthFiles
<1>1. "key" \in Providers /\ DOMAIN TornFile = {"torn"}
  BY DEF Providers, KeyProvider, TornFile
<1> QED
  BY <1>1 DEF AuthFiles

\* Set and Remove: one goroutine at a time is between the lock and the rename.
LEMMA SavesKeep ==
  ASSUME CredentialsInv, NEW j \in Jobs,
         \/ takeLock(j)
         \/ readAuthFile(j)
         \/ writeAuthFile(j)
         \/ setCredential(j)
         \/ Again(j)
  PROVE  CredentialsInv'
<1>1. /\ AuthTyped /\ LockHeld /\ TempIsNext /\ KnownIsDurable /\ "free" \notin Jobs /\ Reloading \in Jobs
      /\ {"failed", "read", "rename", "cache", "key"} \subseteq AuthSteps
  BY CredentialsAssumption DEF CredentialsInv, Jobs, Logout, Reloading, AuthSteps
<1>2. NotStarted \in AuthWorks /\ NotStarted.step = "idle"
  BY DEF NotStarted, AuthWorks, AuthSteps, Providers
<1>3. CASE Again(j)
  <2>1. authWork[j].step \notin {"read", "rename"} /\ UNCHANGED <<auFile, authCache, authRead>> /\ authGrants' \in Nat
    BY <1>1, <1>3 DEF Again, auCache, auServer, AuthTyped
  <2> QED
    BY <1>2, <1>3, <2>1, Apart, WorkOnly DEF Again
<1> SUFFICES ASSUME ~Again(j) PROVE CredentialsInv'
  BY <1>3
<1>4. j # Reloading
  BY <1>1 DEF KnownIsDurable, takeLock, readAuthFile, writeAuthFile, setCredential
<1>5. CASE takeLock(j)
  <2>1. CASE authLoadErr
    <3>1. Step(j, "failed") /\ UNCHANGED <<auFile, authCache, authRead>> /\ authGrants' \in Nat /\ authWork[j].step = "save"
      BY <1>1, <1>5, <2>1 DEF takeLock, auFile, auCache, auServer, AuthTyped
    <3> QED
      BY <1>1, <1>4, <3>1, StepIsWork, Apart, WorkOnly
  <2>2. CASE ~authLoadErr
    <3>1. /\ Step(j, "read") /\ authLock = "free" /\ authLock' = j
          /\ UNCHANGED <<authFile, authTemp, authSaved, authEver, authCache, authRead, authGrants>>
      BY <1>5, <2>2 DEF takeLock, auCache, auServer
    <3>2. PICK w \in AuthWorks : authWork' = [authWork EXCEPT ![j] = w] /\ w.step = "read"
      BY <1>1, <3>1, StepIsWork
    <3>3. AuthTyped'
      BY <1>1, <3>1, <3>2 DEF AuthTyped
    <3>4. LockHeld' /\ TempIsNext'
      BY <1>1, <3>1, <3>2 DEF AuthTyped, LockHeld, TempIsNext
    <3>5. KnownIsDurable'
      BY <1>1, <1>4, <3>1, <3>2 DEF AuthTyped, KnownIsDurable
    <3> QED
      BY <3>3, <3>4, <3>5 DEF CredentialsInv
  <2> QED
    BY <2>1, <2>2
<1>6. CASE readAuthFile(j)
  <2>1. /\ authLock = j /\ authWork[j].step = "read"
        /\ UNCHANGED <<authFile, authSaved, authEver, authCache, authRead, authGrants>>
    BY <1>1, <1>6 DEF readAuthFile, LockHeld, auCache, auServer
  <2>2. CASE Step(j, "rename") /\ UNCHANGED authLock
             /\ authTemp' = persistProviderChange(authWork[j].provider, authWork[j].grant)
    <3>1. PICK w \in AuthWorks : /\ authWork' = [authWork EXCEPT ![j] = w] /\ w.step = "rename"
                                 /\ w.grant = authWork[j].grant /\ w.provider = authWork[j].provider
      BY <1>1, <2>2, StepIsWork
    <3>2. authTemp' = [authFile EXCEPT ![w.provider] = w.grant] /\ authTemp' \in AuthFiles
      BY <1>1, <2>2, <3>1 DEF persistProviderChange, AuthTyped, AuthFiles, AuthWorks
    <3>3. AuthTyped'
      BY <1>1, <2>1, <2>2, <3>1, <3>2 DEF AuthTyped
    <3>4. LockHeld' /\ TempIsNext'
      BY <1>1, <2>1, <2>2, <3>1, <3>2 DEF AuthTyped, LockHeld, TempIsNext
    <3>5. KnownIsDurable'
      BY <1>1, <1>4, <2>1, <3>1 DEF AuthTyped, KnownIsDurable
    <3> QED
      BY <3>3, <3>4, <3>5 DEF CredentialsInv
  <2>3. CASE authLock' = "free" /\ Step(j, "failed") /\ UNCHANGED authTemp
    <3>1. PICK w \in AuthWorks : authWork' = [authWork EXCEPT ![j] = w] /\ w.step = "failed"
      BY <1>1, <2>3, StepIsWork
    <3>2. AuthTyped'
      BY <1>1, <2>1, <2>3, <3>1 DEF AuthTyped
    <3>3. LockHeld' /\ TempIsNext'
      BY <1>1, <2>1, <2>3, <3>1 DEF AuthTyped, LockHeld, TempIsNext
    <3>4. KnownIsDurable'
      BY <1>1, <1>4, <2>1, <3>1 DEF AuthTyped, KnownIsDurable
    <3> QED
      BY <3>2, <3>3, <3>4 DEF CredentialsInv
  <2> QED
    BY <1>6, <2>2, <2>3 DEF readAuthFile
<1>7. CASE writeAuthFile(j)
  <2>1. /\ authLock = j /\ authWork[j].step = "rename" /\ Step(j, "cache") /\ authLock' = "free" /\ authTemp' = TornFile
        /\ authFile' = [authFile EXCEPT ![authWork[j].provider] = authWork[j].grant]
        /\ authSaved' = [authSaved EXCEPT ![authWork[j].provider] = authWork[j].grant]
        /\ authEver' = authEver \cup {authWork[j].grant}
        /\ UNCHANGED <<authCache, authRead, authGrants>>
    BY <1>1, <1>7 DEF writeAuthFile, LockHeld, TempIsNext, auCache, auServer
  <2>2. PICK w \in AuthWorks : /\ authWork' = [authWork EXCEPT ![j] = w] /\ w.step = "cache"
                               /\ w.grant = authWork[j].grant /\ w.provider = authWork[j].provider
    BY <1>1, <2>1, StepIsWork
  <2>3. authFile' \in AuthFiles
    BY <1>1, <2>1 DEF AuthTyped, AuthFiles, AuthWorks
  <2>4. AuthTyped'
    BY <1>1, <2>1, <2>2, <2>3 DEF AuthTyped
  <2>5. LockHeld' /\ TempIsNext'
    BY <1>1, <2>1, <2>2 DEF AuthTyped, LockHeld, TempIsNext
  <2>6. KnownIsDurable'
    <3>1. \A p \in Providers : authFile'[p] \in authEver' \cup {0}
      BY <1>1, <2>1 DEF AuthTyped, AuthFiles, KnownIsDurable
    <3> QED
      BY <1>1, <1>4, <2>1, <2>2, <3>1 DEF AuthTyped, KnownIsDurable
  <2> QED
    BY <2>4, <2>5, <2>6 DEF CredentialsInv
<1>8. CASE setCredential(j)
  <2>1. /\ authWork[j].step = "cache" /\ Step(j, "key") /\ UNCHANGED <<auFile, authRead>> /\ authGrants' \in Nat
        /\ authCache' = [authCache EXCEPT ![authWork[j].provider] = authWork[j].grant]
    BY <1>1, <1>8 DEF setCredential, auServer, AuthTyped
  <2>2. authWork[j].grant \in authEver /\ authWork[j].grant \in Nat
    BY <1>1, <1>4, <2>1 DEF KnownIsDurable, AuthTyped, AuthWorks
  <2>3. /\ authCache' \in AuthFiles /\ authRead' \in AuthFiles
        /\ \A p \in Providers : {authCache[p]', authRead[p]'} \subseteq authEver \cup {0}
    BY <1>1, <2>1, <2>2 DEF AuthTyped, AuthFiles, AuthWorks, KnownIsDurable
  <2>4. PICK w \in AuthWorks : /\ authWork' = [authWork EXCEPT ![j] = w] /\ w.step = "key"
                               /\ w.grant = authWork[j].grant /\ w.provider = authWork[j].provider
    BY <1>1, <2>1, StepIsWork
  <2> QED
    BY <1>4, <2>1, <2>2, <2>3, <2>4, WorkOnly
<1> QED
  BY <1>5, <1>6, <1>7, <1>8

\* A new process knows what the file holds.
LEMMA RestartKeeps ==
  ASSUME CredentialsInv, Restart
  PROVE  CredentialsInv'
<1>1. NotStarted \in AuthWorks /\ NotStarted.step = "idle" /\ Empty \in AuthFiles /\ \A p \in Providers : Empty[p] = 0
  BY DEF NotStarted, AuthWorks, AuthSteps, Providers, Empty, AuthFiles
<1>2. Reloading \in Jobs /\ authFile # TornFile
  BY TornIsNoFile DEF Jobs, CredentialsInv, AuthTyped
<1> QED
  BY <1>1, <1>2 DEF Restart, CredentialsInv, AuthTyped, LockHeld, TempIsNext, KnownIsDurable

\* Every step keeps the invariant.
LEMMA CredentialsInvNext == CredentialsInv /\ [CredentialsNext]_auVars => CredentialsInv'
<1> SUFFICES ASSUME CredentialsInv, [CredentialsNext]_auVars PROVE CredentialsInv'
  OBVIOUS
<1>1. CASE Expire \/ UNCHANGED auVars
  BY <1>1 DEF Expire, auVars, auFile, auCache, auServer, CredentialsInv, AuthTyped, LockHeld, TempIsNext, KnownIsDurable
<1> QED
  BY <1>1, CallsKeep, CommandsKeep, SavesKeep, RestartKeeps DEF CredentialsNext

\* What the invariant says of the file and of the tokens.
LEMMA CredentialsInvEnough == CredentialsInv => FileIsWhole /\ OtherProvidersKept /\ RefreshedIsSaved
<1> SUFFICES ASSUME CredentialsInv PROVE FileIsWhole /\ OtherProvidersKept /\ RefreshedIsSaved
  OBVIOUS
<1>1. Callers \subseteq Jobs \ {Reloading}
  BY CredentialsAssumption DEF Jobs, Reloading
<1> QED
  BY <1>1, TornIsNoFile DEF CredentialsInv, AuthTyped, TempIsNext, KnownIsDurable, FileIsWhole, OtherProvidersKept,
     RefreshedIsSaved

--------------------------------------------------------------------------------
(* The event stream of an agent task.  What was written is in the log, in a flush or *)
(* waits, in this order; publishAll is a fold, unrolled like the merge of catalogs.   *)

Events == 0..(MaxDrafts + 1)

\* The rounds of publishAll, by the set of the events published.
IsPublishing(it, channel, events, n) ==
  it = [s \in SUBSET (1..n) |-> IF s = {} THEN channel ELSE publish(it[s \ {Max(s)}], events[Max(s)])]

Publishing(channel, events) == CHOOSE it : IsPublishing(it, channel, events, Len(events))

\* The fold over the events is the last value of its unrolling.
LEMMA PublishIsFold ==
  ASSUME NEW channel, NEW S, NEW events \in Seq(S)
  PROVE  publishAll(channel, events) = Publishing(channel, events)[1..Len(events)]
<1>1. DOMAIN events = 1..Len(events)
  OBVIOUS
<1> QED
  BY <1>1 DEF publishAll, Publishing, IsPublishing, FoldLeft, MapThenFoldSet

\* The unrolling exists for every number of events.
LEMMA PublishingExists == \A n \in Nat : \A channel, events : \E it : IsPublishing(it, channel, events, n)
<1> SUFFICES ASSUME NEW channel, NEW events PROVE Nat \subseteq {n \in Nat : \E it : IsPublishing(it, channel, events, n)}
  OBVIOUS
<1> DEFINE T == {n \in Nat : \E it : IsPublishing(it, channel, events, n)}
<1>1. 0 \in T
  <2> DEFINE it == [s \in SUBSET (1..0) |-> channel]
  <2>1. SUBSET (1..0) = {{}}
    OBVIOUS
  <2>2. IsPublishing(it, channel, events, 0)
    BY <2>1 DEF IsPublishing
  <2> QED
    BY <2>2
<1>2. ASSUME NEW n \in Nat, n \in T PROVE n + 1 \in T
  <2>1. PICK it : IsPublishing(it, channel, events, n)
    BY <1>2
  <2> DEFINE nx == [s \in SUBSET (1..(n+1)) |-> IF n + 1 \in s THEN publish(it[s \ {n + 1}], events[n + 1]) ELSE it[s]]
             want == [s \in SUBSET (1..(n+1)) |-> IF s = {} THEN channel ELSE publish(nx[s \ {Max(s)}], events[Max(s)])]
  <2>2. ASSUME NEW s \in SUBSET (1..(n+1)) PROVE nx[s] = want[s]
    <3>1. CASE n + 1 \in s
      <4>1. Max(s) = n + 1
        BY <3>1, MaxOf
      <4>2. s \ {n+1} \in SUBSET (1..n) /\ s \ {n+1} \in SUBSET (1..(n+1)) /\ s # {} /\ n + 1 \notin s \ {n+1}
        BY <3>1
      <4>3. nx[s \ {n+1}] = it[s \ {n+1}]
        BY <4>2
      <4> QED
        BY <3>1, <4>1, <4>2, <4>3
    <3>2. CASE n + 1 \notin s
      <4>1. s \in SUBSET (1..n)
        BY <3>2
      <4> DEFINE r == s \ {Max(s)}
      <4>2. r \in SUBSET (1..n) /\ r \in SUBSET (1..(n+1)) /\ n + 1 \notin r
        BY <3>2, <4>1
      <4>3. it[s] = IF s = {} THEN channel ELSE publish(it[r], events[Max(s)])
        BY <2>1, <4>1 DEF IsPublishing
      <4>4. nx[r] = it[r] /\ nx[s] = it[s]
        BY <3>2, <4>2
      <4> QED
        BY <4>3, <4>4
    <3> QED
      BY <3>1, <3>2
  <2>3. nx = want
    BY <2>2
  <2>4. IsPublishing(nx, channel, events, n + 1)
    BY <2>3 DEF IsPublishing
  <2> QED
    BY <2>4
<1> HIDE DEF T
<1>3. Nat \subseteq T
  BY <1>1, <1>2, NatsByInduction
<1> QED
  BY <1>3 DEF T

\* It starts with the channel and publishes the events one after the other.
LEMMA PublishingSteps ==
  ASSUME NEW channel, NEW S, NEW events \in Seq(S)
  PROVE  /\ Publishing(channel, events)[{}] = channel
         /\ \A n \in Nat : n < Len(events) =>
               Publishing(channel, events)[1..(n+1)] = publish(Publishing(channel, events)[1..n], events[n+1])
<1> DEFINE it == Publishing(channel, events)
<1>1. IsPublishing(it, channel, events, Len(events))
  BY PublishingExists DEF Publishing
<1>2. {} \in SUBSET (1..Len(events)) /\ Len(events) \in Nat
  OBVIOUS
<1> HIDE DEF it
<1>3. it[{}] = channel
  BY <1>1, <1>2 DEF IsPublishing
<1>4. ASSUME NEW n \in Nat, n < Len(events) PROVE it[1..(n+1)] = publish(it[1..n], events[n+1])
  <2>1. (1..(n+1)) \in SUBSET (1..Len(events)) /\ n + 1 \in 1..(n+1)
    BY <1>2, <1>4
  <2>2. (1..(n+1)) # {}
    BY <2>1
  <2>3. Max(1..(n+1)) = n + 1
    BY MaxOf
  <2>4. (1..(n+1)) \ {n+1} = 1..n
    OBVIOUS
  <2> QED
    BY <1>1, <2>1, <2>2, <2>3, <2>4 DEF IsPublishing
<1> QED
  BY <1>3, <1>4 DEF it

\* One event leaves a channel of events one.
LEMMA PublishTyped ==
  ASSUME NEW channel \in Seq(Events), NEW event \in Events
  PROVE  publish(channel, event) \in Seq(Events)
<1>1. EventBuffer \in Nat \ {0}
  BY EventAssumption
<1>2. CASE Len(channel) < EventBuffer
  BY <1>2 DEF publish
<1>3. CASE ~(Len(channel) < EventBuffer)
  <2>1. channel # <<>>
    BY <1>1, <1>3
  <2>2. Tail(channel) \in Seq(Events)
    BY <2>1
  <2> QED
    BY <1>3, <2>2 DEF publish
<1> QED
  BY <1>2, <1>3

\* So do all the events of a batch.
LEMMA PublishAllTyped ==
  ASSUME NEW channel \in Seq(Events), NEW events \in Seq(Events)
  PROVE  publishAll(channel, events) \in Seq(Events)
<1> DEFINE it == Publishing(channel, events)
           T == {n \in Nat : n <= Len(events) => it[1..n] \in Seq(Events)}
<1>1. Len(events) \in Nat /\ (1..0) = {} /\ \A n \in 1..Len(events) : events[n] \in Events
  OBVIOUS
<1>2. /\ it[{}] = channel
      /\ \A n \in Nat : n < Len(events) => it[1..(n+1)] = publish(it[1..n], events[n+1])
  BY PublishingSteps
<1> HIDE DEF it
<1>3. 0 \in T
  BY <1>1, <1>2
<1>4. ASSUME NEW n \in Nat, n \in T PROVE n + 1 \in T
  <2> SUFFICES ASSUME n + 1 <= Len(events) PROVE it[1..(n+1)] \in Seq(Events)
    OBVIOUS
  <2>1. n < Len(events) /\ n + 1 \in 1..Len(events) /\ it[1..n] \in Seq(Events)
    BY <1>1, <1>4
  <2>2. it[1..(n+1)] = publish(it[1..n], events[n+1])
    BY <1>2, <2>1
  <2> QED
    BY <1>1, <2>1, <2>2, PublishTyped
<1> HIDE DEF T
<1>5. Len(events) \in T
  BY <1>1, <1>3, <1>4, NatsByInduction
<1> QED
  BY <1>1, <1>5, PublishIsFold DEF T, it

\* The end of the task always finds a place.
LEMMA EndIsPublished ==
  ASSUME NEW channel \in Seq(Events)
  PROVE  \E n \in DOMAIN publishAll(channel, <<EndEvent>>) : publishAll(channel, <<EndEvent>>)[n] = EndEvent
<1> DEFINE events == <<EndEvent>>
           it == Publishing(channel, events)
<1>1. events \in Seq({EndEvent}) /\ Len(events) = 1 /\ events[1] = EndEvent /\ (1..0) = {}
  OBVIOUS
<1> HIDE DEF events
<1>2. it[{}] = channel /\ \A n \in Nat : n < Len(events) => it[1..(n+1)] = publish(it[1..n], events[n+1])
  BY <1>1, PublishingSteps
<1>3. publishAll(channel, events) = it[1..1]
  BY <1>1, PublishIsFold
<1> HIDE DEF it
<1>4. it[1..1] = publish(it[1..0], events[1])
  <2> DEFINE zero == 0
  <2>1. zero \in Nat /\ zero < Len(events) /\ zero + 1 = 1 /\ zero = 0
    BY <1>1
  <2> HIDE DEF zero
  <2>2. it[1..(zero+1)] = publish(it[1..zero], events[zero+1])
    BY <1>2, <2>1
  <2> QED
    BY <2>1, <2>2
<1>5. publishAll(channel, events) = publish(channel, EndEvent)
  BY <1>1, <1>2, <1>3, <1>4
<1>6. EventBuffer \in Nat \ {0} /\ EndEvent \in Events
  BY EventAssumption DEF EndEvent, Events
<1>7. PICK rest \in Seq(Events) : publish(channel, EndEvent) = Append(rest, EndEvent)
  <2>1. CASE Len(channel) < EventBuffer
    BY <2>1 DEF publish
  <2>2. CASE ~(Len(channel) < EventBuffer)
    <3>1. channel # <<>>
      BY <1>6, <2>2
    <3>2. Tail(channel) \in Seq(Events)
      BY <3>1
    <3> QED
      BY <2>2, <3>2 DEF publish
  <2> QED
    BY <2>1, <2>2
<1>8. Len(rest) + 1 \in DOMAIN Append(rest, EndEvent) /\ Append(rest, EndEvent)[Len(rest) + 1] = EndEvent
  BY <1>6, <1>7
<1> QED
  BY <1>5, <1>7, <1>8 DEF events

Drafts == 1..MaxDrafts

\* The drafts of a log, followed by those that wait, are all there are, in order.
LogSound(log, flight, pending, writes) ==
    LET written == writes - Len(flight) - Len(pending)
    IN /\ {log[i] : i \in DOMAIN log} \cap Drafts = 1..written
       /\ \A n \in DOMAIN flight : flight[n] = written + n
       /\ \A n \in DOMAIN pending : pending[n] = written + Len(flight) + n
       /\ \A i, j \in DOMAIN log : i < j /\ {log[i], log[j]} \subseteq Drafts => log[i] < log[j]

EvTyped ==
    /\ evRow \in {"running", "canceling", "ended"} /\ evLease \in BOOLEAN
    /\ evLog \in Seq(Events) /\ evWrites \in 0..MaxDrafts /\ evChan \in Seq(Events)
    /\ evPending \in Seq(Drafts) /\ evFlight \in Seq(Drafts)
    /\ Len(evFlight) + Len(evPending) <= evWrites

\* One flush at a time, of whoever is at it; the last one is that of Close.
FlushesApart ==
    /\ evFlusher \in {"none", "run", "ticker", "close"}
    /\ evFlusher = "none" <=> evFlight = <<>>
    /\ evFlusher = "run" => evRun = "flushing"
    /\ evFlusher = "ticker" => evTicker = "flushing"
    /\ evFlusher = "close" => evRun = "closeFlush" /\ evPending = <<>>
    /\ evRun \in {"closeFlush", "closed", "publish", "done"} => evTicker = "off"
    /\ evRun \in {"closed", "publish", "done"} /\ ~evErr /\ ~evTimedOut => evPending = <<>>

\* A task that has ended has the end as its last event.
EndIsLast ==
    /\ evRow = "ended" => evLog # <<>> /\ evLog[Len(evLog)] = EndEvent
    /\ evRun = "publish" => evRow = "ended"
    /\ evCancel = "publish" => evLog # <<>>
    /\ evRow = "ended" /\ evLease => evRun \in {"publish", "done"}

EvInv ==
    /\ EvTyped /\ FlushesApart /\ EndIsLast /\ EndReachesAwait
    /\ ~evErr => LogSound(evLog, evFlight, evPending, evWrites)

\* What waits, one after the other.
LEMMA UnsavedIs ==
  ASSUME EvTyped
  PROVE  /\ Len(Unsaved) = Len(evFlight) + Len(evPending) /\ DOMAIN Unsaved = 1..(Len(evFlight) + Len(evPending))
         /\ Len(evFlight) \in Nat /\ Len(evPending) \in Nat
         /\ DOMAIN evFlight = 1..Len(evFlight) /\ DOMAIN evPending = 1..Len(evPending)
         /\ \A n \in 1..(Len(evFlight) + Len(evPending)) :
               Unsaved[n] = IF n <= Len(evFlight) THEN evFlight[n] ELSE evPending[n - Len(evFlight)]
<1>1. evFlight \in Seq(Drafts) /\ evPending \in Seq(Drafts)
  BY DEF EvTyped
<1>2. Unsaved \in Seq(Drafts) /\ Len(Unsaved) = Len(evFlight) + Len(evPending)
  BY <1>1, Joined DEF Unsaved
<1>3. \A n \in 1..(Len(evFlight) + Len(evPending)) :
               Unsaved[n] = IF n <= Len(evFlight) THEN evFlight[n] ELSE evPending[n - Len(evFlight)]
  BY <1>1, Joined DEF Unsaved
<1>4. DOMAIN Unsaved = 1..Len(Unsaved)
  BY <1>2
<1> QED
  BY <1>1, <1>2, <1>3, <1>4

\* The invariant gives what the runs check.
LEMMA EvInvEnough == EvInv => DraftsInOrder /\ CloseLosesNothing /\ EndReachesAwait
<1> SUFFICES ASSUME EvInv PROVE DraftsInOrder /\ CloseLosesNothing
  BY DEF EvInv
<1>1. EvTyped /\ FlushesApart /\ (~evErr => LogSound(evLog, evFlight, evPending, evWrites))
  BY DEF EvInv
<1> DEFINE f == Len(evFlight)
           p == Len(evPending)
           written == evWrites - f - p
<1>2. /\ Len(Unsaved) = f + p /\ DOMAIN Unsaved = 1..(f + p) /\ f \in Nat /\ p \in Nat /\ evWrites \in Int
      /\ DOMAIN evFlight = 1..f /\ DOMAIN evPending = 1..p
      /\ \A n \in 1..(f + p) : Unsaved[n] = IF n <= f THEN evFlight[n] ELSE evPending[n - f]
  BY <1>1, UnsavedIs DEF EvTyped
<1> HIDE DEF f, p
<1>3. evWrites - Len(Unsaved) = written /\ written \in Int
  BY <1>2
<1>4. ASSUME ~evErr PROVE /\ Durable = 1..written
                          /\ \A n \in 1..f : evFlight[n] = written + n
                          /\ \A n \in 1..p : evPending[n] = written + f + n
                          /\ \A i, j \in DOMAIN evLog :
                               i < j /\ {evLog[i], evLog[j]} \subseteq Drafts => evLog[i] < evLog[j]
  BY <1>1, <1>2, <1>4 DEF LogSound, Durable, Drafts, f, p
<1>5. ASSUME ~evErr, NEW n \in 1..(f + p) PROVE Unsaved[n] = written + n
  <2>1. CASE n <= f
    BY <1>2, <1>4, <1>5, <2>1
  <2>2. CASE ~(n <= f)
    <3>1. n - f \in 1..p /\ written + f + (n - f) = written + n
      BY <1>2, <1>3, <2>2
    <3>2. evPending[n - f] = written + f + (n - f)
      BY <1>4, <1>5, <3>1
    <3> QED
      BY <1>2, <2>2, <3>1, <3>2
  <2> QED
    BY <2>1, <2>2
<1> HIDE DEF written
<1>6. DraftsInOrder
  BY <1>2, <1>3, <1>4, <1>5 DEF DraftsInOrder, Drafts
<1>7. ASSUME evRun \in {"closed", "publish", "done"}, ~evErr, ~evTimedOut PROVE Durable = 1..evWrites
  <2>1. evPending = <<>> /\ evFlight = <<>>
    BY <1>1, <1>7 DEF FlushesApart
  <2>2. f = 0 /\ p = 0
    BY <2>1 DEF f, p
  <2> QED
    BY <1>2, <1>4, <1>7, <2>2 DEF written
<1> QED
  BY <1>6, <1>7 DEF CloseLosesNothing

\* A new task has no draft.
LEMMA EvInvInit == EventInit => EvInv
<1> SUFFICES ASSUME EventInit PROVE EvInv
  OBVIOUS
<1>1. EvTyped /\ FlushesApart /\ EndIsLast /\ EndReachesAwait
  BY EventAssumption DEF EventInit, EvTyped, FlushesApart, EndIsLast, EndReachesAwait
<1>2. LogSound(evLog, evFlight, evPending, evWrites)
  BY DEF EventInit, LogSound
<1> QED
  BY <1>1, <1>2 DEF EvInv

\* Steps that leave the log and the writer alone.
LEMMA LogKept ==
  ASSUME EvInv, UNCHANGED <<evLog, evWriter>>
  PROVE  ~evErr' => LogSound(evLog, evFlight, evPending, evWrites)'
BY DEF EvInv, LogSound, evWriter

\* A draft is queued behind the others.
LEMMA WriteKeeps ==
  ASSUME EvInv, NEW immediate \in BOOLEAN, writeDraft(immediate)
  PROVE  EvInv'
<1>1. EvTyped /\ FlushesApart /\ EndIsLast /\ EndReachesAwait /\ LogSound(evLog, evFlight, evPending, evWrites)
  BY DEF EvInv, writeDraft
<1>2. /\ evRun = "run" /\ evWrites < MaxDrafts /\ ~evErr /\ evWrites' = evWrites + 1
      /\ evPending' = Append(evPending, evWrites + 1) /\ evRun' \in {"run", "flushing"}
      /\ UNCHANGED <<evTask, evFlight, evFlusher, evErr, evTimedOut, evTicker, evCtx, evCancel, evSub>>
  BY DEF writeDraft
<1>3. evWrites \in Nat /\ MaxDrafts \in Nat /\ evWrites + 1 \in Drafts
  BY <1>1, <1>2, EventAssumption DEF EvTyped, Drafts
<1>4. /\ evPending' \in Seq(Drafts) /\ Len(evPending') = Len(evPending) + 1 /\ Len(evPending) \in Nat
      /\ \A n \in DOMAIN evPending' : IF n = Len(evPending) + 1 THEN evPending'[n] = evWrites + 1
                                      ELSE n \in DOMAIN evPending /\ evPending'[n] = evPending[n]
  <2>1. evPending \in Seq(Drafts)
    BY <1>1 DEF EvTyped
  <2> QED
    BY <1>2, <1>3, <2>1
<1>5. Len(evFlight) \in Nat /\ evFlight' = evFlight /\ evLog' = evLog
  BY <1>1, <1>2 DEF EvTyped, evTask
<1>6. EvTyped'
  BY <1>1, <1>2, <1>3, <1>4, <1>5 DEF EvTyped, evTask, evSub
<1>7. FlushesApart' /\ EndIsLast' /\ EndReachesAwait'
  BY <1>1, <1>2 DEF FlushesApart, EndIsLast, EndReachesAwait, evTask, evSub
<1>8. LogSound(evLog, evFlight, evPending, evWrites)'
  <2> DEFINE written == evWrites - Len(evFlight) - Len(evPending)
  <2>1. evWrites' - Len(evFlight') - Len(evPending') = written
    BY <1>2, <1>3, <1>4, <1>5
  <2>2. written + Len(evFlight) + (Len(evPending) + 1) = evWrites + 1 /\ written \in Int
    BY <1>3, <1>4, <1>5
  <2>3. \A n \in DOMAIN evPending : evPending[n] = written + Len(evFlight) + n
    BY <1>1 DEF LogSound
  <2>5. /\ {evLog[i] : i \in DOMAIN evLog} \cap Drafts = 1..written
        /\ \A n \in DOMAIN evFlight : evFlight[n] = written + n
        /\ \A i, j \in DOMAIN evLog : i < j /\ {evLog[i], evLog[j]} \subseteq Drafts => evLog[i] < evLog[j]
    BY <1>1 DEF LogSound
  <2> HIDE DEF written
  <2>4. \A n \in DOMAIN evPending' : evPending'[n] = written + Len(evFlight) + n
    BY <1>4, <2>2, <2>3
  <2> QED
    BY <1>5, <2>1, <2>4, <2>5 DEF LogSound
<1> QED
  BY <1>6, <1>7, <1>8 DEF EvInv

\* A flush takes what waits, or returns.
LEMMA TakeKeeps ==
  ASSUME EvInv, NEW who \in {"run", "ticker", "close"}, flushTakes(who)
  PROVE  EvInv'
<1>1. EvTyped /\ FlushesApart /\ EndIsLast /\ EndReachesAwait /\ evFlight = <<>>
  BY DEF EvInv, FlushesApart, flushTakes
<1>2. /\ Wants(who) /\ evFlusher = "none" /\ evPending' = <<>> /\ evLog' = evLog /\ evWrites' = evWrites /\ evErr' = evErr
      /\ UNCHANGED <<evTask, evTimedOut, evCtx, evCancel, evSub>>
  BY DEF flushTakes, evTask
<1>3. CASE evErr \/ evPending = <<>>
  <2>1. FlushReturns(who) /\ UNCHANGED <<evFlight, evFlusher>>
    BY <1>3 DEF flushTakes
  <2>2. EvTyped'
    BY <1>1, <1>2, <2>1 DEF EvTyped, evTask, evSub
  <2>3. FlushesApart' /\ EndIsLast' /\ EndReachesAwait'
    BY <1>1, <1>2, <2>1 DEF FlushesApart, EndIsLast, EndReachesAwait, FlushReturns, Wants, evTask, evSub
  <2>4. ~evErr => evPending' = evPending
    BY <1>2, <1>3
  <2> QED
    BY <1>2, <2>1, <2>2, <2>3, <2>4 DEF EvInv, LogSound
<1>4. CASE ~(evErr \/ evPending = <<>>)
  <2>1. evFlight' = evPending /\ evFlusher' = who /\ UNCHANGED <<evRun, evTicker>>
    BY <1>4 DEF flushTakes
  <2>2. EvTyped'
    BY <1>1, <1>2, <2>1 DEF EvTyped, evTask, evSub
  <2>3. FlushesApart' /\ EndIsLast' /\ EndReachesAwait'
    BY <1>1, <1>2, <1>4, <2>1 DEF FlushesApart, EndIsLast, EndReachesAwait, Wants, evTask, evSub
  <2>4. LogSound(evLog, <<>>, evPending, evWrites)
    BY <1>1, <1>4 DEF EvInv
  <2>5. Len(evPending) \in Nat /\ evWrites \in Int
    BY <1>1 DEF EvTyped
  <2>6. LogSound(evLog, evPending, <<>>, evWrites)
    BY <2>4, <2>5 DEF LogSound
  <2>7. LogSound(evLog, evFlight, evPending, evWrites)'
    BY <1>2, <2>1, <2>6 DEF LogSound
  <2> QED
    BY <2>2, <2>3, <2>7 DEF EvInv
<1> QED
  BY <1>3, <1>4

\* What is appended to the log after it.
LEMMA LogAfter ==
  ASSUME NEW log \in Seq(Events), NEW flight \in Seq(Drafts), NEW pending \in Seq(Drafts), NEW writes \in Nat,
         LogSound(log, flight, pending, writes), Len(flight) + Len(pending) <= writes
  PROVE  LogSound(log \o flight, <<>>, pending, writes)
<1> DEFINE f == Len(flight)
           p == Len(pending)
           k == Len(log)
           written == writes - f - p
           all == log \o flight
<1>1. f \in Nat /\ p \in Nat /\ k \in Nat /\ DOMAIN log = 1..k /\ DOMAIN flight = 1..f /\ DOMAIN pending = 1..p
  OBVIOUS
<1>2. Drafts \subseteq Events /\ MaxDrafts \in Nat
  BY EventAssumption DEF Drafts, Events
<1>3. /\ all \in Seq(Events) /\ Len(all) = k + f
      /\ \A i \in 1..(k + f) : all[i] = IF i <= k THEN log[i] ELSE flight[i - k]
  <2>1. flight \in Seq(Events)
    BY <1>2
  <2> QED
    BY <2>1, Joined
<1>4. DOMAIN all = 1..(k + f)
  BY <1>3
<1>5. written \in Int /\ written >= 0
  BY <1>1
<1>6. /\ {log[i] : i \in DOMAIN log} \cap Drafts = 1..written
      /\ \A n \in 1..f : flight[n] = written + n
      /\ \A n \in 1..p : pending[n] = written + f + n
      /\ \A i, j \in 1..k : i < j /\ {log[i], log[j]} \subseteq Drafts => log[i] < log[j]
  BY <1>1 DEF LogSound
<1>7. \A n \in 1..f : flight[n] \in Drafts
  BY <1>1
<1> HIDE DEF all, written, f, p, k
<1>8. \A i \in 1..k : i \in 1..(k + f) /\ all[i] = log[i]
  BY <1>1, <1>3
<1>9. \A n \in 1..f : k + n \in 1..(k + f) /\ all[k + n] = flight[n]
  <2> SUFFICES ASSUME NEW n \in 1..f PROVE k + n \in 1..(k + f) /\ all[k + n] = flight[n]
    OBVIOUS
  <2> DEFINE m == k + n
  <2>1. m \in 1..(k + f) /\ ~(m <= k) /\ m - k = n
    BY <1>1
  <2> HIDE DEF m
  <2>2. all[m] = flight[n]
    BY <1>3, <2>1
  <2> QED
    BY <2>1, <2>2 DEF m
<1>10. \A i \in 1..(k + f) : i \in 1..k \/ (i - k \in 1..f /\ ~(i <= k) /\ all[i] = written + (i - k))
  <2> SUFFICES ASSUME NEW i \in 1..(k + f), i \notin 1..k PROVE i - k \in 1..f /\ ~(i <= k) /\ all[i] = written + (i - k)
    OBVIOUS
  <2>1. i - k \in 1..f /\ ~(i <= k)
    BY <1>1
  <2> QED
    BY <1>3, <1>6, <2>1
<1>11. {all[i] : i \in DOMAIN all} \cap Drafts = 1..(written + f)
  <2>1. ASSUME NEW e \in {all[i] : i \in DOMAIN all} \cap Drafts PROVE e \in 1..(written + f)
    <3>1. PICK i \in 1..(k + f) : all[i] = e
      BY <1>4, <2>1
    <3>2. CASE i \in 1..k
      <4>1. e \in 1..written
        BY <1>1, <1>6, <1>8, <2>1, <3>1, <3>2
      <4> QED
        BY <1>1, <1>5, <4>1
    <3>3. CASE i \notin 1..k
      <4>1. i - k \in 1..f /\ e = written + (i - k)
        BY <1>10, <3>1, <3>3
      <4> QED
        BY <1>1, <1>5, <4>1
    <3> QED
      BY <3>2, <3>3
  <2>2. ASSUME NEW e \in 1..(written + f) PROVE e \in {all[i] : i \in DOMAIN all} \cap Drafts
    <3>1. CASE e <= written
      <4>1. e \in 1..written
        BY <1>5, <3>1
      <4>2. e \in {log[i] : i \in 1..k} /\ e \in Drafts
        BY <1>1, <1>6, <4>1
      <4> QED
        BY <1>4, <1>8, <4>2
    <3>2. CASE ~(e <= written)
      <4>1. e - written \in 1..f /\ written + (e - written) = e
        BY <1>1, <1>5, <3>2
      <4>2. flight[e - written] = e /\ e \in Drafts
        BY <1>6, <1>7, <4>1
      <4> QED
        BY <1>4, <1>9, <4>1, <4>2
    <3> QED
      BY <3>1, <3>2
  <2> QED
    BY <2>1, <2>2
<1>12. ASSUME NEW i \in DOMAIN all, NEW j \in DOMAIN all, i < j, all[i] \in Drafts, all[j] \in Drafts
       PROVE  all[i] < all[j]
  <2>0. i \in 1..(k + f) /\ j \in 1..(k + f) /\ i \in Int /\ j \in Int
    BY <1>1, <1>4, <1>12
  <2>1. CASE j \in 1..k
    <3>1. i \in 1..k
      BY <1>1, <1>12, <2>0, <2>1
    <3> QED
      BY <1>6, <1>8, <1>12, <2>1, <3>1
  <2>2. CASE j \notin 1..k
    <3>1. j - k \in 1..f /\ all[j] = written + (j - k)
      BY <1>10, <2>0, <2>2
    <3>2. CASE i \in 1..k
      <4>1. all[i] \in 1..written
        BY <1>1, <1>6, <1>8, <1>12, <3>2
      <4> QED
        BY <1>1, <1>5, <3>1, <4>1
    <3>3. CASE i \notin 1..k
      <4>1. all[i] = written + (i - k)
        BY <1>10, <2>0, <3>3
      <4> QED
        BY <1>1, <1>5, <1>12, <2>0, <3>1, <4>1
    <3> QED
      BY <3>2, <3>3
  <2> QED
    BY <2>1, <2>2
<1>13. /\ Len(<<>>) = 0 /\ writes - 0 - p = written + f /\ \A n \in {} : FALSE
       /\ \A n \in 1..p : pending[n] = (written + f) + 0 + n
  BY <1>1, <1>5, <1>6 DEF written
<1>14. writes - Len(<<>>) - Len(pending) = written + f /\ written + f + Len(<<>>) = (written + f) + 0
  BY <1>13 DEF p
<1>15. \A i, j \in DOMAIN all : i < j /\ {all[i], all[j]} \subseteq Drafts => all[i] < all[j]
  BY <1>12
<1>16. \A n \in DOMAIN pending : pending[n] = (written + f) + Len(<<>>) + n
  BY <1>1, <1>13
<1>17. LogSound(all, <<>>, pending, writes)
  BY <1>11, <1>14, <1>15, <1>16 DEF LogSound
<1> QED
  BY <1>17 DEF all

\* What is put back is before what came since.
LEMMA PutBack ==
  ASSUME NEW log, NEW flight \in Seq(Drafts), NEW pending \in Seq(Drafts), NEW writes \in Nat,
         LogSound(log, flight, pending, writes)
  PROVE  LogSound(log, <<>>, requeue(flight, pending), writes)
<1> DEFINE f == Len(flight)
           p == Len(pending)
           written == writes - f - p
           both == flight \o pending
<1>1. f \in Nat /\ p \in Nat /\ DOMAIN flight = 1..f /\ DOMAIN pending = 1..p
  OBVIOUS
<1>2. /\ both \in Seq(Drafts) /\ Len(both) = f + p
      /\ \A n \in 1..(f + p) : both[n] = IF n <= f THEN flight[n] ELSE pending[n - f]
  BY Joined
<1>3. /\ {log[i] : i \in DOMAIN log} \cap Drafts = 1..written
      /\ \A n \in 1..f : flight[n] = written + n
      /\ \A n \in 1..p : pending[n] = written + f + n
      /\ \A i, j \in DOMAIN log : i < j /\ {log[i], log[j]} \subseteq Drafts => log[i] < log[j]
  BY <1>1 DEF LogSound
<1>4. writes - 0 - (f + p) = written /\ written \in Int
  BY <1>1
<1> HIDE DEF f, p, both, written
<1>5. ASSUME NEW n \in 1..(f + p) PROVE both[n] = written + 0 + n
  <2>1. CASE n <= f
    BY <1>1, <1>2, <1>3, <1>4, <2>1
  <2>2. CASE ~(n <= f)
    <3>1. n - f \in 1..p
      BY <1>1, <2>2
    <3> QED
      BY <1>1, <1>2, <1>3, <1>4, <2>2, <3>1
  <2> QED
    BY <2>1, <2>2
<1>6. DOMAIN both = 1..(f + p)
  BY <1>2
<1>7. LogSound(log, <<>>, both, writes)
  BY <1>2, <1>3, <1>4, <1>5, <1>6 DEF LogSound
<1> QED
  BY <1>7 DEF requeue, both

\* A flush ends: its drafts are in the log, dropped with an error, or back in the queue.
LEMMA FlushEndKeeps ==
  ASSUME EvInv, NEW who \in {"run", "ticker", "close"}, flushCommits(who)
  PROVE  EvInv'
<1>1. EvTyped /\ FlushesApart /\ EndIsLast /\ EndReachesAwait /\ (~evErr => LogSound(evLog, evFlight, evPending, evWrites))
  BY DEF EvInv
<1>2. /\ evFlusher = who /\ evFlight' = <<>> /\ evFlusher' = "none" /\ FlushReturns(who)
      /\ UNCHANGED <<evRow, evLease, evWrites, evCtx, evCancel, evOpen, evAwait>>
  BY DEF flushCommits
<1>3. /\ evLog \in Seq(Events) /\ evChan \in Seq(Events) /\ evFlight \in Seq(Drafts) /\ evPending \in Seq(Drafts)
      /\ evWrites \in Nat /\ Len(evFlight) + Len(evPending) <= evWrites
      /\ Len(evFlight) \in Nat /\ Len(evPending) \in Nat
  BY <1>1 DEF EvTyped
<1>4. evRun # "done" /\ evRun # "publish" /\ evRun' # "done" /\ evRun' # "publish"
  BY <1>1, <1>2 DEF FlushesApart, FlushReturns
<1>5. CASE evLease /\ evRow # "ended" /\ evLog' = evLog \o evFlight /\ Deliver(evFlight)
           /\ UNCHANGED <<evPending, evErr, evTimedOut>>
  <2>1. evFlight \in Seq(Events)
    BY <1>3, EventAssumption DEF Drafts, Events
  <2>2. evLog' \in Seq(Events) /\ Len(evLog') = Len(evLog) + Len(evFlight)
    BY <1>3, <1>5, <2>1, Joined
  <2>3. evChan' \in Seq(Events)
    BY <1>3, <1>5, <2>1, PublishAllTyped DEF Deliver
  <2>4. EvTyped'
    BY <1>1, <1>2, <1>3, <1>5, <2>2, <2>3 DEF EvTyped
  <2>5. evLog # <<>> => evLog' # <<>>
    BY <1>3, <2>2
  <2>6. FlushesApart'
    BY <1>1, <1>2, <1>5 DEF FlushesApart, FlushReturns
  <2>7. EndIsLast'
    BY <1>1, <1>2, <1>4, <1>5, <2>5 DEF EndIsLast
  <2>8. EndReachesAwait'
    BY <1>4 DEF EndReachesAwait
  <2>9. ~evErr' => LogSound(evLog', <<>>, evPending', evWrites')
    BY <1>1, <1>2, <1>3, <1>5, LogAfter
  <2> QED
    BY <1>2, <2>4, <2>6, <2>7, <2>8, <2>9 DEF EvInv, LogSound
<1>6. CASE evErr' = TRUE /\ UNCHANGED <<evLog, evPending, evTimedOut, evChan>>
  <2>1. EvTyped'
    BY <1>1, <1>2, <1>3, <1>6 DEF EvTyped
  <2>2. FlushesApart'
    BY <1>1, <1>2, <1>6 DEF FlushesApart, FlushReturns
  <2>3. EndIsLast' /\ EndReachesAwait'
    BY <1>1, <1>2, <1>4, <1>6 DEF EndIsLast, EndReachesAwait
  <2> QED
    BY <1>6, <2>1, <2>2, <2>3 DEF EvInv
<1>7. CASE /\ evPending' = requeue(evFlight, evPending) /\ evTimedOut' = (evTimedOut \/ who = "close")
           /\ UNCHANGED <<evLog, evErr, evChan>>
  <2>1. evPending' \in Seq(Drafts) /\ Len(evPending') = Len(evFlight) + Len(evPending)
    BY <1>3, <1>7, Joined DEF requeue
  <2>2. EvTyped'
    BY <1>1, <1>2, <1>3, <1>7, <2>1 DEF EvTyped
  <2>3. FlushesApart'
    BY <1>1, <1>2, <1>7 DEF FlushesApart, FlushReturns
  <2>4. EndIsLast' /\ EndReachesAwait'
    BY <1>1, <1>2, <1>4, <1>7 DEF EndIsLast, EndReachesAwait
  <2>5. ~evErr' => LogSound(evLog', <<>>, evPending', evWrites')
    BY <1>1, <1>2, <1>3, <1>7, PutBack
  <2> QED
    BY <1>2, <2>2, <2>3, <2>4, <2>5 DEF EvInv, LogSound
<1> QED
  BY <1>5, <1>6, <1>7 DEF flushCommits

\* An event of the task itself is none of the drafts.
LEMMA TaskEventSound ==
  ASSUME NEW log \in Seq(Events), NEW flight, NEW pending, NEW writes, NEW event \in Events \ Drafts,
         LogSound(log, flight, pending, writes)
  PROVE  LogSound(Append(log, event), flight, pending, writes)
<1>1. /\ DOMAIN Append(log, event) = 1..(Len(log) + 1) /\ Append(log, event)[Len(log) + 1] = event
      /\ \A i \in 1..Len(log) : Append(log, event)[i] = log[i]
      /\ DOMAIN log = 1..Len(log) /\ Len(log) \in Nat
  OBVIOUS
<1> DEFINE more == Append(log, event)
<1> HIDE DEF more
<1>2. {more[i] : i \in DOMAIN more} \cap Drafts = {log[i] : i \in DOMAIN log} \cap Drafts
  <2>1. \A i \in DOMAIN more : more[i] \in Drafts => i \in DOMAIN log /\ more[i] = log[i]
    BY <1>1 DEF more
  <2>2. \A i \in DOMAIN log : i \in DOMAIN more /\ more[i] = log[i]
    BY <1>1 DEF more
  <2> QED
    BY <2>1, <2>2
<1>3. \A i \in DOMAIN more : more[i] \in Drafts => i \in DOMAIN log /\ more[i] = log[i]
  BY <1>1 DEF more
<1>4. \A i, j \in DOMAIN log : i < j /\ {log[i], log[j]} \subseteq Drafts => log[i] < log[j]
  BY DEF LogSound
<1>5. \A i, j \in DOMAIN more : i < j /\ {more[i], more[j]} \subseteq Drafts => more[i] < more[j]
  BY <1>3, <1>4
<1>6. LogSound(more, flight, pending, writes)
  BY <1>2, <1>5 DEF LogSound
<1> QED
  BY <1>6 DEF more

\* Steps that only move threads on.
LEMMA ThreadsKeep ==
  ASSUME EvInv, tick \/ closeWriter \/ awaitGet \/ subscribe \/ closeSubscriptions \/ UNCHANGED evVars
  PROVE  EvInv'
<1>1. EvTyped /\ FlushesApart /\ EndIsLast /\ EndReachesAwait
  BY DEF EvInv
<1>2. UNCHANGED <<evTask, evWriter, evChan>>
  BY DEF tick, closeWriter, awaitGet, subscribe, closeSubscriptions, evVars, evSub
<1>3. EvTyped' /\ (~evErr' => LogSound(evLog, evFlight, evPending, evWrites)')
  BY <1>1, <1>2, LogKept DEF EvTyped, evTask, evWriter
<1>4. CASE tick
  <2>1. FlushesApart'
    BY <1>1, <1>4 DEF FlushesApart, tick, evWriter
  <2>2. EndIsLast' /\ EndReachesAwait'
    BY <1>1, <1>4 DEF EndIsLast, EndReachesAwait, tick, evTask, evSub
  <2> QED
    BY <1>3, <2>1, <2>2 DEF EvInv
<1>5. CASE closeWriter
  <2>1. FlushesApart'
    BY <1>1, <1>5 DEF FlushesApart, closeWriter, evWriter
  <2>2. EndIsLast' /\ EndReachesAwait'
    BY <1>1, <1>5 DEF EndIsLast, EndReachesAwait, closeWriter, evTask, evSub
  <2> QED
    BY <1>3, <2>1, <2>2 DEF EvInv
<1>6. CASE awaitGet \/ subscribe \/ closeSubscriptions
  <2>1. FlushesApart'
    BY <1>1, <1>6 DEF FlushesApart, awaitGet, subscribe, closeSubscriptions, evWriter, evThreads
  <2>2. EndIsLast'
    BY <1>1, <1>6 DEF EndIsLast, awaitGet, subscribe, closeSubscriptions, evTask, evThreads
  <2>3. EndReachesAwait'
    BY <1>1, <1>6 DEF EndReachesAwait, awaitGet, subscribe, closeSubscriptions, evTask, evThreads
  <2> QED
    BY <1>3, <2>1, <2>2, <2>3 DEF EvInv
<1>7. CASE UNCHANGED evVars
  BY <1>1, <1>3, <1>7 DEF EvInv, FlushesApart, EndIsLast, EndReachesAwait, evVars, evTask, evWriter, evThreads, evSub
<1> QED
  BY <1>4, <1>5, <1>6, <1>7

\* Await takes an event and reads the row.
LEMMA WakeKeeps ==
  ASSUME EvInv, awaitWakes
  PROVE  EvInv'
<1>1. EvTyped /\ FlushesApart /\ EndIsLast /\ EndReachesAwait
  BY DEF EvInv
<1>2. evAwait' = "get" /\ UNCHANGED <<evTask, evWriter, evThreads, evOpen>>
  BY DEF awaitWakes
<1>3. evChan' \in Seq(Events)
  <2>1. evChan \in Seq(Events)
    BY <1>1 DEF EvTyped
  <2> QED
    BY <2>1 DEF awaitWakes
<1>4. EvTyped' /\ (~evErr' => LogSound(evLog, evFlight, evPending, evWrites)')
  BY <1>1, <1>2, <1>3, LogKept DEF EvTyped, evTask, evWriter
<1>5. FlushesApart' /\ EndIsLast' /\ EndReachesAwait'
  BY <1>1, <1>2 DEF FlushesApart, EndIsLast, EndReachesAwait, evTask, evWriter, evThreads
<1> QED
  BY <1>4, <1>5 DEF EvInv

\* The last event of a log is published.
LEMMA PublishKeeps ==
  ASSUME EvInv, publishLatest
  PROVE  EvInv'
<1>1. EvTyped /\ FlushesApart /\ EndIsLast /\ EndReachesAwait
  BY DEF EvInv
<1> DEFINE last == evLog[Len(evLog)]
<1>3. evLog # <<>> /\ evLog \in Seq(Events) /\ evChan \in Seq(Events)
  BY <1>1 DEF EndIsLast, EvTyped, publishLatest
<1>4. last \in Events
  BY <1>3
<1>5. evRow = "ended" => last = EndEvent
  BY <1>1 DEF EndIsLast
<1>6. UNCHANGED <<evTask, evWriter, evTicker, evCtx, evOpen, evAwait>> /\ evRun' \in {evRun, "done"} /\ evCancel' \in {evCancel, "done"}
      /\ (evRun' # evRun => evRun = "publish")
  BY DEF publishLatest
<1> HIDE DEF last
<1>7. <<last>> \in Seq(Events)
  BY <1>4
<1>8. evChan' = IF Subscribed THEN publishAll(evChan, <<last>>) ELSE evChan
  BY DEF publishLatest, Deliver, last
<1>9. evChan' \in Seq(Events)
  BY <1>3, <1>7, <1>8, PublishAllTyped
<1>10. EvTyped' /\ (~evErr' => LogSound(evLog, evFlight, evPending, evWrites)')
  BY <1>1, <1>6, <1>9, LogKept DEF EvTyped, evTask, evWriter
<1>11. FlushesApart'
  BY <1>1, <1>6 DEF FlushesApart, evWriter
<1>12. EndIsLast'
  BY <1>1, <1>6 DEF EndIsLast, evTask
<1>13. ASSUME evRow = "ended", evOpen, evAwait = "select" PROVE \E n \in DOMAIN evChan' : evChan'[n] = EndEvent
  <2>1. evChan' = publishAll(evChan, <<EndEvent>>)
    BY <1>5, <1>8, <1>13 DEF Subscribed
  <2> QED
    BY <1>3, <2>1, EndIsPublished
<1>14. EndReachesAwait'
  BY <1>6, <1>13 DEF EndReachesAwait, evTask
<1> QED
  BY <1>10, <1>11, <1>12, <1>14 DEF EvInv

\* The task ends, is asked to stop, or its lease is lost and its row recovered.
LEMMA RowKeeps ==
  ASSUME EvInv, finishTask \/ requestCancel \/ loseLease \/ recovered
  PROVE  EvInv'
<1>1. EvTyped /\ FlushesApart /\ EndIsLast /\ EndReachesAwait /\ (~evErr => LogSound(evLog, evFlight, evPending, evWrites))
  BY DEF EvInv
<1>2. /\ CancelEvent \in Events \ Drafts /\ EndEvent \in Events \ Drafts /\ evLog \in Seq(Events)
  BY <1>1, EventAssumption DEF CancelEvent, EndEvent, Events, Drafts, EvTyped
<1>3. \A e \in Events : /\ Append(evLog, e) \in Seq(Events) /\ Append(evLog, e) # <<>>
                        /\ Append(evLog, e)[Len(Append(evLog, e))] = e
  BY <1>2
<1>4. evWriter' = evWriter /\ evTicker' = evTicker /\ evSub' = evSub
  BY DEF finishTask, requestCancel, loseLease, recovered, evThreads
<1>5. evLog' = evLog \/ evLog' = Append(evLog, CancelEvent) \/ evLog' = Append(evLog, EndEvent)
  BY DEF finishTask, requestCancel, loseLease, recovered, evTask
<1>6. evLog' \in Seq(Events) /\ (~evErr' => LogSound(evLog', evFlight', evPending', evWrites'))
  <2>1. evFlight' = evFlight /\ evPending' = evPending /\ evWrites' = evWrites /\ evErr' = evErr
    BY <1>4 DEF evWriter
  <2>2. evLog' \in Seq(Events)
    BY <1>2, <1>3, <1>5
  <2>3. ASSUME ~evErr PROVE LogSound(evLog', evFlight, evPending, evWrites)
    <3>1. LogSound(evLog, evFlight, evPending, evWrites)
      BY <1>1, <2>3
    <3>2. CASE evLog' = evLog
      BY <3>1, <3>2
    <3>3. CASE evLog' = Append(evLog, CancelEvent)
      BY <1>2, <3>1, <3>3, TaskEventSound
    <3>4. CASE evLog' = Append(evLog, EndEvent)
      BY <1>2, <3>1, <3>4, TaskEventSound
    <3> QED
      BY <1>5, <3>2, <3>3, <3>4
  <2> QED
    BY <2>1, <2>2, <2>3
<1>7. EvTyped'
  <2>1. evRow' \in {"running", "canceling", "ended"} /\ evLease' \in BOOLEAN
    BY <1>1 DEF EvTyped, finishTask, requestCancel, loseLease, recovered
  <2> QED
    BY <1>1, <1>4, <1>6, <2>1 DEF EvTyped, evWriter, evSub
<1>8. ~evErr' => LogSound(evLog, evFlight, evPending, evWrites)'
  BY <1>6
<1>9. FlushesApart'
  BY <1>1, <1>4 DEF FlushesApart, evWriter, finishTask, requestCancel, loseLease, recovered, evThreads
<1>10. EndIsLast'
  <2>1. CASE finishTask
    BY <1>1, <1>2, <1>3, <2>1 DEF EndIsLast, finishTask
  <2>2. CASE requestCancel
    BY <1>1, <1>2, <1>3, <2>2 DEF EndIsLast, requestCancel
  <2>3. CASE loseLease
    BY <1>1, <2>3 DEF EndIsLast, loseLease, evThreads
  <2>4. CASE recovered
    BY <1>1, <1>2, <1>3, <2>4 DEF EndIsLast, recovered, evThreads
  <2> QED
    BY <2>1, <2>2, <2>3, <2>4
<1>11. EndReachesAwait'
  BY <1>1, <1>4 DEF EndReachesAwait, EndIsLast, evSub, finishTask, requestCancel, loseLease, recovered, evThreads
<1> QED
  BY <1>7, <1>8, <1>9, <1>10, <1>11 DEF EvInv

\* Every step keeps the invariant.
LEMMA EvInvNext == EvInv /\ [EventNext]_evVars => EvInv'
BY ThreadsKeep, WakeKeeps, PublishKeeps, RowKeeps, TakeKeeps, FlushEndKeeps, WriteKeeps DEF EventNext, EventWork

--------------------------------------------------------------------------------
(* The terminal's watch of that stream: what it has shown is the log up to the last *)
(* event it handled.                                                                *)

WatchTyped ==
    /\ wLog \in Nat /\ wUnsent \subseteq 1..wLog /\ wSeq \in 0..wLog
    /\ wLive \in Seq(Nat) /\ \A i \in DOMAIN wLive : wLive[i] \in 1..wLog
    /\ wShown \in Seq(Nat)

\* A watch that is wanted and goes on has shown the log up to the last event it handled.
ShownIsHandled == wHeld /\ wAt # "stopped" => wShown = [i \in 1..wSeq |-> i]

WatchInv == WatchTyped /\ ShownIsHandled /\ ForwardsTheLog /\ StopIsAnnounced

\* A watch begins before the first event.
LEMMA WatchInvInit == WatchInit => WatchInv
<1> SUFFICES ASSUME WatchInit PROVE WatchInv
  OBVIOUS
<1>1. wShown = <<>> /\ <<>> \in Seq(Nat) /\ DOMAIN <<>> = {} /\ <<>> = [i \in 1..0 |-> i]
  BY DEF WatchInit
<1> QED
  BY <1>1 DEF WatchInit, WatchInv, WatchTyped, ShownIsHandled, ForwardsTheLog, StopIsAnnounced

\* The next events of the log are forwarded.
LEMMA Forwards ==
  ASSUME WatchInv, wAt # "stopped", NEW n \in Nat, wSeq' = wSeq + n, Forward([i \in 1..n |-> wSeq + i])
  PROVE  /\ wShown' \in Seq(Nat) /\ ForwardsTheLog' /\ (wHeld => wShown' = [i \in 1..wSeq' |-> i])
<1>1. WatchTyped /\ ShownIsHandled /\ ForwardsTheLog
  BY DEF WatchInv
<1>2. CASE ~wHeld
  BY <1>1, <1>2 DEF Forward, WatchTyped, ForwardsTheLog
<1>3. CASE wHeld
  <2> DEFINE page == [i \in 1..n |-> wSeq + i]
             upto == [i \in 1..wSeq |-> i]
  <2>1. wSeq \in Nat /\ wShown = upto
    BY <1>1, <1>3 DEF WatchTyped, ShownIsHandled
  <2>2. page \in Seq(Nat) /\ Len(page) = n /\ upto \in Seq(Nat) /\ Len(upto) = wSeq
    BY <2>1
  <2>3. wShown' = upto \o page
    BY <1>3, <2>1 DEF Forward
  <2>9. (\A i \in 1..wSeq : upto[i] = i) /\ (\A i \in 1..n : page[i] = wSeq + i)
    OBVIOUS
  <2> HIDE DEF page, upto
  <2>4. /\ wShown' \in Seq(Nat) /\ Len(wShown') = wSeq + n
        /\ \A i \in 1..(wSeq + n) : wShown'[i] = IF i <= wSeq THEN upto[i] ELSE page[i - wSeq]
    BY <2>2, <2>3, Joined
  <2>5. ASSUME NEW i \in 1..(wSeq + n) PROVE wShown'[i] = i
    <3>1. CASE i <= wSeq
      <4>1. i \in 1..wSeq
        BY <2>1, <3>1
      <4> QED
        BY <2>4, <2>9, <3>1, <4>1
    <3>2. CASE ~(i <= wSeq)
      <4>1. i - wSeq \in 1..n /\ wSeq + (i - wSeq) = i
        BY <2>1, <3>2
      <4>2. page[i - wSeq] = wSeq + (i - wSeq)
        BY <2>9, <4>1
      <4> QED
        BY <2>4, <3>2, <4>1, <4>2
    <3> QED
      BY <3>1, <3>2
  <2>6. DOMAIN wShown' = 1..(wSeq + n) /\ wShown' = [i \in DOMAIN wShown' |-> wShown'[i]]
    BY <2>4
  <2>7. wShown' = [i \in 1..wSeq' |-> i]
    BY <2>5, <2>6
  <2>8. ForwardsTheLog'
    BY <2>5, <2>6 DEF ForwardsTheLog
  <2> QED
    BY <2>4, <2>7, <2>8
<1> QED
  BY <1>2, <1>3

\* A failure is the last that is forwarded.
LEMMA Fails ==
  ASSUME WatchInv, wAt # "stopped", Forward(<<Failed>>), wHeld' = wHeld
  PROVE  /\ wShown' \in Seq(Nat) /\ ForwardsTheLog' /\ StopIsAnnounced'
<1>1. WatchTyped /\ ShownIsHandled /\ ForwardsTheLog
  BY DEF WatchInv
<1>2. CASE ~wHeld
  BY <1>1, <1>2 DEF Forward, WatchTyped, ForwardsTheLog, StopIsAnnounced
<1>3. CASE wHeld
  <2>1. wSeq \in Nat /\ wShown \in Seq(Nat) /\ wShown = [i \in 1..wSeq |-> i] /\ wShown' = wShown \o <<Failed>>
    BY <1>1, <1>3 DEF WatchTyped, ShownIsHandled, Forward
  <2>2. Len(wShown) = wSeq /\ \A i \in 1..wSeq : wShown[i] = i
    BY <2>1
  <2>3. /\ wShown' \in Seq(Nat) /\ Len(wShown') = wSeq + 1 /\ wShown'[wSeq + 1] = Failed
        /\ \A i \in 1..wSeq : wShown'[i] = wShown[i]
    <3>1. Failed \in Nat /\ Len(<<Failed>>) = 1 /\ <<Failed>>[1] = Failed
      BY DEF Failed
    <3>2. <<Failed>> \in Seq(Nat)
      BY <3>1
    <3> DEFINE one == <<Failed>>
    <3> HIDE DEF one
    <3>3. /\ wShown \o one \in Seq(Nat) /\ Len(wShown \o one) = wSeq + 1
          /\ \A i \in 1..(wSeq + 1) : (wShown \o one)[i] = IF i <= wSeq THEN wShown[i] ELSE one[i - wSeq]
      BY <2>1, <2>2, <3>1, <3>2, Joined DEF one
    <3> DEFINE m == wSeq + 1
    <3>4. m \in 1..(wSeq + 1) /\ ~(m <= wSeq) /\ m - wSeq = 1 /\ 1..wSeq \subseteq 1..(wSeq + 1)
      BY <2>1
    <3>6. wShown' = wShown \o one
      BY <2>1 DEF one
    <3> HIDE DEF m
    <3>8. wShown'[m] = one[1]
      BY <3>3, <3>4, <3>6
    <3>5. wShown'[wSeq + 1] = one[1]
      BY <3>8 DEF m
    <3>7. \A i \in 1..wSeq : wShown'[i] = wShown[i]
      BY <2>1, <3>3, <3>4, <3>6
    <3> QED
      BY <3>1, <3>3, <3>5, <3>6, <3>7 DEF one
  <2>4. DOMAIN wShown' = 1..(wSeq + 1) /\ wShown' # <<>>
    BY <2>1, <2>3
  <2>5. \A i \in 1..(wSeq + 1) : i \in 1..wSeq \/ i = wSeq + 1
    BY <2>1
  <2>6. ForwardsTheLog'
    BY <2>2, <2>3, <2>4, <2>5 DEF ForwardsTheLog
  <2>7. StopIsAnnounced'
    BY <2>3, <2>4 DEF StopIsAnnounced
  <2> QED
    BY <2>3, <2>6, <2>7
<1> QED
  BY <1>2, <1>3

\* The log up to the end of the task announces the stop.
LEMMA EndAnnounced ==
  ASSUME WatchInv, wHeld' = wHeld, wHeld => wShown' = [i \in 1..wSeq' |-> i], wSeq' \in Nat,
         wAt' = "stopped" => wSeq' = TaskEnd
  PROVE  StopIsAnnounced'
<1> SUFFICES ASSUME wAt' = "stopped", wHeld' PROVE wShown' # <<>> /\ wShown'[Len(wShown')] \in {TaskEnd, Failed}
  BY DEF StopIsAnnounced
<1>1. wSeq' \in Nat \ {0} /\ wSeq' = TaskEnd
  BY WatchAssumption DEF TaskEnd
<1>2. wShown' = [i \in 1..wSeq' |-> i]
  OBVIOUS
<1>3. Len(wShown') = wSeq' /\ wShown'[wSeq'] = wSeq' /\ wSeq' \in DOMAIN wShown'
  BY <1>1, <1>2
<1> QED
  BY <1>1, <1>3

\* A page of the log: it begins after the last event handled and does not go beyond the log.
LEMMA PageIs ==
  ASSUME WatchInv
  PROVE  \E n \in Nat : /\ replayAgentTaskEvents = [i \in 1..n |-> wSeq + i] /\ Len(replayAgentTaskEvents) = n
                        /\ wSeq + n <= wLog
<1> DEFINE n == IF wLog - wSeq < ReplayLimit THEN wLog - wSeq ELSE ReplayLimit
<1>1. n \in Nat /\ wSeq + n <= wLog
  BY WatchAssumption DEF WatchInv, WatchTyped
<1>2. replayAgentTaskEvents = [i \in 1..n |-> wSeq + i]
  BY DEF replayAgentTaskEvents
<1> HIDE DEF n
<1>3. Len([i \in 1..n |-> wSeq + i]) = n
  BY <1>1
<1> QED
  BY <1>1, <1>2, <1>3

\* A page is forwarded, or its read fails.
LEMMA ReplayKeeps ==
  ASSUME WatchInv, wAt # "stopped", NEW then, then # "stopped", applyReplayedEvents(then), KeepTask, UNCHANGED wHeld
  PROVE  WatchInv'
<1>1. WatchTyped /\ UNCHANGED <<wLog, wUnsent, wLive>>
  BY DEF WatchInv, KeepTask
<1>2. CASE /\ Forward(replayAgentTaskEvents) /\ wSeq' = wSeq + Len(replayAgentTaskEvents)
           /\ wAt' = IF wSeq' = TaskEnd THEN "stopped" ELSE IF WasLastPage THEN then ELSE wAt
  <2>1. PICK n \in Nat : /\ replayAgentTaskEvents = [i \in 1..n |-> wSeq + i] /\ Len(replayAgentTaskEvents) = n
                         /\ wSeq + n <= wLog
    BY PageIs
  <2>2. wSeq' = wSeq + n /\ Forward([i \in 1..n |-> wSeq + i]) /\ (wAt' = "stopped" => wSeq' = TaskEnd)
    BY <1>2, <2>1
  <2>3. wShown' \in Seq(Nat) /\ ForwardsTheLog' /\ (wHeld => wShown' = [i \in 1..wSeq' |-> i])
    BY <2>2, Forwards
  <2>4. wSeq' \in 0..wLog
    BY <1>1, <2>1, <2>2 DEF WatchTyped
  <2>5. WatchTyped'
    BY <1>1, <2>3, <2>4 DEF WatchTyped
  <2>6. StopIsAnnounced'
    BY <2>2, <2>3, <2>4, EndAnnounced
  <2> QED
    BY <2>3, <2>5, <2>6 DEF WatchInv, ShownIsHandled
<1>3. CASE Forward(<<Failed>>) /\ wAt' = "stopped" /\ wSeq' = wSeq
  BY <1>1, <1>3, Fails DEF WatchInv, WatchTyped, ShownIsHandled
<1> QED
  BY <1>2, <1>3 DEF applyReplayedEvents

\* The next live event is skipped, kept for a replay, or forwarded.
LEMMA LiveKeeps ==
  ASSUME WatchInv, nextAgentTaskEvent
  PROVE  WatchInv'
<1> DEFINE e == Head(wLive)
<1>1. /\ wAt = "live" /\ wLive # <<>> /\ wLive' = Tail(wLive) /\ UNCHANGED <<wLog, wUnsent, wHeld>>
      /\ WatchTyped /\ ForwardsTheLog /\ ShownIsHandled /\ StopIsAnnounced
  BY DEF nextAgentTaskEvent, WatchInv
<1>2. wLive \in Seq(Nat) /\ \A i \in DOMAIN wLive : wLive[i] \in 1..wLog
  BY <1>1 DEF WatchTyped
<1>3. /\ e = wLive[1] /\ 1 \in DOMAIN wLive /\ wLive' \in Seq(Nat)
      /\ \A i \in DOMAIN wLive' : i + 1 \in DOMAIN wLive /\ wLive'[i] = wLive[i+1]
  BY <1>1, <1>2
<1>4. e \in 1..wLog /\ \A i \in DOMAIN wLive' : wLive'[i] \in 1..wLog'
  BY <1>1, <1>2, <1>3
<1> HIDE DEF e
<1>5. CASE /\ wShown' = wShown /\ wSeq' = wSeq /\ wAt' # "stopped"
  BY <1>1, <1>3, <1>4, <1>5 DEF WatchInv, WatchTyped, ShownIsHandled, ForwardsTheLog, StopIsAnnounced
<1>6. CASE e = wSeq + 1 /\ Forward(<<e>>) /\ wSeq' = e /\ wAt' = IF e = TaskEnd THEN "stopped" ELSE wAt
  <2>1. wSeq \in Nat /\ wLog \in Nat
    BY <1>1 DEF WatchTyped
  <2> DEFINE one == 1
             next == [i \in 1..one |-> wSeq + i]
  <2>2. next = <<e>>
    BY <1>6, <2>1
  <2>3. one \in Nat /\ wSeq' = wSeq + one
    BY <1>6
  <2> HIDE DEF one
  <2>4. Forward(next)
    BY <1>6, <2>2
  <2>5. wShown' \in Seq(Nat) /\ ForwardsTheLog' /\ (wHeld => wShown' = [i \in 1..wSeq' |-> i])
    BY <1>1, <2>3, <2>4, Forwards
  <2>6. wSeq' \in 0..wLog /\ wSeq' \in Nat /\ (wAt' = "stopped" => wSeq' = TaskEnd)
    BY <1>1, <1>4, <1>6, <2>1
  <2>7. StopIsAnnounced'
    BY <1>1, <2>5, <2>6, EndAnnounced
  <2>8. WatchTyped'
    BY <1>1, <1>3, <1>4, <2>5, <2>6 DEF WatchTyped
  <2> QED
    BY <1>1, <2>5, <2>7, <2>8 DEF WatchInv, ShownIsHandled
<1>7. wSeq \in Nat /\ e \in Nat
  BY <1>1, <1>4 DEF WatchTyped
<1>8. CASE e <= wSeq
  BY <1>1, <1>5, <1>8 DEF nextAgentTaskEvent, forwardAgentTaskEvent, e
<1>9. CASE e > wSeq + 1
  BY <1>1, <1>5, <1>7, <1>9 DEF nextAgentTaskEvent, forwardAgentTaskEvent, e
<1>10. CASE ~(e <= wSeq) /\ ~(e > wSeq + 1)
  <2>1. e = wSeq + 1
    BY <1>7, <1>10
  <2> QED
    BY <1>6, <1>10, <2>1 DEF nextAgentTaskEvent, forwardAgentTaskEvent, e
<1> QED
  BY <1>8, <1>9, <1>10

\* What is added to a channel of numbers.
LEMMA AddedIsIn ==
  ASSUME NEW S, NEW live \in Seq(Nat), NEW e \in S, e \in Nat, \A i \in DOMAIN live : live[i] \in S
  PROVE  Append(live, e) \in Seq(Nat) /\ \A i \in DOMAIN Append(live, e) : Append(live, e)[i] \in S
<1>1. /\ Append(live, e) \in Seq(Nat) /\ DOMAIN Append(live, e) = 1..(Len(live) + 1) /\ Append(live, e)[Len(live) + 1] = e
      /\ \A i \in 1..Len(live) : Append(live, e)[i] = live[i]
      /\ DOMAIN live = 1..Len(live) /\ Len(live) \in Nat
  OBVIOUS
<1> DEFINE more == Append(live, e)
<1> HIDE DEF more
<1>2. \A i \in 1..(Len(live) + 1) : i \in 1..Len(live) \/ i = Len(live) + 1
  BY <1>1
<1>3. \A i \in DOMAIN more : more[i] \in S
  BY <1>1, <1>2 DEF more
<1> QED
  BY <1>1, <1>3 DEF more

\* Whoever commits and publishes, and the end of the watch.
LEMMA AroundKeeps ==
  ASSUME WatchInv, watchClosed \/ stopAgentTaskWatch \/ eventCommitted \/ eventPublished \/ serviceStops \/ UNCHANGED wVars
  PROVE  WatchInv'
<1>1. WatchTyped /\ ForwardsTheLog /\ ShownIsHandled /\ StopIsAnnounced
  BY DEF WatchInv
<1>2. wShown' = wShown /\ wSeq' = wSeq
  BY DEF watchClosed, reconcileClosedWatch, stopAgentTaskWatch, eventCommitted, eventPublished, serviceStops, KeepWatch, wVars
<1>3. ShownIsHandled' /\ StopIsAnnounced' /\ ForwardsTheLog'
  <2>1. wHeld' => wHeld
    BY DEF watchClosed, stopAgentTaskWatch, eventCommitted, eventPublished, serviceStops, KeepWatch, wVars
  <2>2. wHeld' => (wAt' = "stopped" <=> wAt = "stopped")
    BY DEF watchClosed, reconcileClosedWatch, stopAgentTaskWatch, eventCommitted, eventPublished, serviceStops, KeepWatch, wVars
  <2> QED
    BY <1>1, <1>2, <2>1, <2>2 DEF ShownIsHandled, StopIsAnnounced, ForwardsTheLog
<1>4. WatchTyped'
  <2>1. CASE watchClosed \/ stopAgentTaskWatch \/ serviceStops \/ UNCHANGED wVars
    BY <1>1, <1>2, <2>1 DEF WatchTyped, watchClosed, KeepTask, stopAgentTaskWatch, serviceStops, wVars
  <2>2. CASE eventCommitted
    <3>1. wLog \in Nat /\ wLog' = wLog + 1 /\ wUnsent' = wUnsent \cup {wLog + 1} /\ wLive' = wLive
      BY <1>1, <2>2 DEF eventCommitted, WatchTyped
    <3>2. 1..wLog \subseteq 1..wLog' /\ 0..wLog \subseteq 0..wLog' /\ wLog + 1 \in 1..wLog'
      BY <3>1
    <3> QED
      BY <1>1, <1>2, <3>1, <3>2 DEF WatchTyped
  <2>3. CASE eventPublished
    <3>1. PICK e \in wUnsent : /\ wUnsent' = wUnsent \ {e} /\ wLog' = wLog
                               /\ wLive' = IF ~wOpen THEN wLive
                                           ELSE IF Len(wLive) < LiveBuffer THEN Append(wLive, e)
                                           ELSE IF e = TaskEnd THEN Append(Tail(wLive), e) ELSE wLive
      BY <2>3 DEF eventPublished
    <3>2. wLog \in Nat /\ wLive \in Seq(Nat) /\ e \in 1..wLog /\ e \in Nat /\ \A i \in DOMAIN wLive : wLive[i] \in 1..wLog
      BY <1>1, <3>1 DEF WatchTyped
    <3>3. Append(wLive, e) \in Seq(Nat) /\ \A i \in DOMAIN Append(wLive, e) : Append(wLive, e)[i] \in 1..wLog
      BY <3>2, AddedIsIn
    <3>4. ASSUME ~(Len(wLive) < LiveBuffer)
          PROVE  /\ Append(Tail(wLive), e) \in Seq(Nat)
                 /\ \A i \in DOMAIN Append(Tail(wLive), e) : Append(Tail(wLive), e)[i] \in 1..wLog
      <4>1. wLive # <<>>
        BY <3>2, <3>4, WatchAssumption
      <4>2. Tail(wLive) \in Seq(Nat) /\ \A i \in DOMAIN Tail(wLive) : Tail(wLive)[i] \in 1..wLog
        BY <3>2, <4>1
      <4> QED
        BY <3>2, <4>2, AddedIsIn
    <3>5. wLive' \in Seq(Nat) /\ \A i \in DOMAIN wLive' : wLive'[i] \in 1..wLog
      BY <3>1, <3>2, <3>3, <3>4
    <3> QED
      BY <1>1, <1>2, <3>1, <3>5 DEF WatchTyped
  <2> QED
    BY <2>1, <2>2, <2>3
<1> QED
  BY <1>3, <1>4 DEF WatchInv

\* A gap that the log does not fill, and a watch whose subscription was closed, say so.
LEMMA AnnounceKeeps ==
  ASSUME WatchInv, fillGap \/ postWatchClosed, wAt \in {"filled", "closed"}
  PROVE  WatchInv'
<1>1. WatchTyped /\ ForwardsTheLog /\ ShownIsHandled /\ StopIsAnnounced /\ wAt # "stopped"
  BY DEF WatchInv
<1>2. UNCHANGED <<wLog, wUnsent, wLive, wHeld, wSeq>> /\ ((wAt' = "live" /\ wShown' = wShown) \/ (wAt' = "stopped" /\ Forward(<<Failed>>)))
  BY DEF fillGap, postWatchClosed, KeepTask
<1>3. CASE wAt' = "live" /\ wShown' = wShown
  BY <1>1, <1>2, <1>3 DEF WatchInv, WatchTyped, ShownIsHandled, ForwardsTheLog, StopIsAnnounced
<1>4. CASE wAt' = "stopped" /\ Forward(<<Failed>>)
  BY <1>1, <1>2, <1>4, Fails DEF WatchInv, WatchTyped, ShownIsHandled
<1> QED
  BY <1>2, <1>3, <1>4

\* Every step keeps the invariant.
LEMMA WatchInvNext == WatchInv /\ [WatchNext]_wVars => WatchInv'
<1> SUFFICES ASSUME WatchInv, [WatchNext]_wVars PROVE WatchInv'
  OBVIOUS
<1>1. CASE watchReplays
  BY <1>1, ReplayKeeps DEF watchReplays
<1>2. CASE watchCloses
  BY <1>2, ReplayKeeps DEF watchCloses
<1>3. CASE fillGap
  <2>1. CASE wAt = "gap"
    <3>1. KeepTask /\ UNCHANGED wHeld /\ applyReplayedEvents("filled")
      BY <1>3, <2>1 DEF fillGap
    <3> QED
      BY <2>1, <3>1, ReplayKeeps
  <2>2. CASE wAt = "filled"
    BY <1>3, <2>2, AnnounceKeeps
  <2> QED
    BY <1>3, <2>1, <2>2 DEF fillGap
<1>4. CASE postWatchClosed
  BY <1>4, AnnounceKeeps DEF postWatchClosed
<1> QED
  BY <1>1, <1>2, <1>3, <1>4, LiveKeeps, AroundKeeps DEF WatchNext

--------------------------------------------------------------------------------
(* The host of a workflow script: a call holds launchMu from its index to its      *)
(* launch, so it names a link that nobody else can be about to make.               *)

ScriptChildren == [node : NodeKeys, index : Nat, state : {"active", "canceling", "ended"}, by : Nat]
Hosts == [pc : {"eval", "canceling", "settling", "returned", "dead"}, invocations : [NodeKeys -> Nat],
          persisted : SUBSET (NodeKeys \X Nat), launched : Seq(Nat), settled : SUBSET Nat, todo : Seq(Nat),
          passes : Nat, ok : BOOLEAN, failed : BOOLEAN]
ScriptCalls == [pc : {"idle", "lookup", "submit", "launched", "holds", "waiting"}, node : NodeKeys \cup {""},
                index : Nat, child : Nat]

ScriptTyped ==
    /\ wsChild \in Seq(ScriptChildren) /\ wsHost \in Hosts
    /\ wsLaunch \in Callbacks \cup {NoCallback} /\ wsCall \in [Callbacks -> ScriptCalls]
    /\ wsGiven \in Seq(Nat) /\ wsEvents \in Seq(Nat) /\ wsEvaluations \in Nat

Kid == DOMAIN wsChild
LinkOf(c) == <<wsChild[c].node, wsChild[c].index>>
CallOf(b) == <<wsCall[b].node, wsCall[b].index>>
InLaunch(b) == wsCall[b].pc \in {"lookup", "submit", "launched"}

\* Every child a host or a call speaks of has a link, and what is settled has ended.
NamesChildren ==
    /\ \A n \in DOMAIN wsGiven : wsGiven[n] \in Kid
    /\ \A n \in DOMAIN wsEvents : wsEvents[n] \in Kid
    /\ \A n \in DOMAIN wsHost.launched : wsHost.launched[n] \in Kid
    /\ \A n \in DOMAIN wsHost.todo : wsHost.todo[n] \in Kid
    /\ \A c \in wsHost.settled : c \in Kid /\ childEnded(c)
    /\ \A b \in Callbacks : wsCall[b].pc \in {"launched", "holds", "waiting"} => wsCall[b].child \in Kid

\* The call that holds launchMu has the last index of its node key, and a link of it is
\* one an earlier evaluation left.
LaunchHeld ==
    /\ wsHost.pc # "eval" => \A b \in Callbacks : wsCall[b].pc = "idle"
    /\ \A b \in Callbacks : InLaunch(b) =>
          /\ wsLaunch = b /\ wsCall[b].node \in NodeKeys /\ wsHost.invocations[wsCall[b].node] = wsCall[b].index + 1
          /\ wsCall[b].pc # "lookup" => CallOf(b) \notin wsHost.persisted
          /\ wsCall[b].pc # "launched" => \A c \in Kid : LinkOf(c) = CallOf(b) => CallOf(b) \in wsHost.persisted
          /\ wsCall[b].pc = "launched" => wsCall[b].child = Len(wsChild) /\ LinkOf(Len(wsChild)) = CallOf(b)
                                          /\ \A n \in DOMAIN wsEvents : wsEvents[n] < wsCall[b].child

\* A link names one child; a child of this evaluation was called for in it, one of an earlier
\* evaluation was called for too or its link is still to be read back.
LinksNameChildren ==
    /\ \A c, d \in Kid : LinkOf(c) = LinkOf(d) => c = d
    /\ \A c \in Kid : /\ LinkOf(c) \in wsHost.persisted \/ wsChild[c].index < wsHost.invocations[wsChild[c].node]
                      /\ wsChild[c].by <= wsEvaluations
                      /\ wsChild[c].by = wsEvaluations => wsChild[c].index < wsHost.invocations[wsChild[c].node]

\* A child that was given to a call was called for, will not be read back, and is not of the
\* call that is launching.
GivenAreCalled ==
    \A n \in DOMAIN wsGiven :
        /\ LinkOf(wsGiven[n]) \notin wsHost.persisted
        /\ wsChild[wsGiven[n]].index < wsHost.invocations[wsChild[wsGiven[n]].node]
        /\ \A b \in Callbacks : InLaunch(b) => LinkOf(wsGiven[n]) # CallOf(b)

\* Until an error is noted, what has not ended is still to be canceled.
LeftIsTodo ==
    /\ wsHost.pc = "settling" => wsHost.todo # <<>>
    /\ wsHost.pc \in {"canceling", "settling"} /\ ~wsHost.failed =>
          /\ wsHost.passes = 1
          /\ \A n \in DOMAIN wsHost.launched : \/ childEnded(wsHost.launched[n])
                                              \/ \E m \in DOMAIN wsHost.todo : wsHost.todo[m] = wsHost.launched[n]

ScriptInv == ScriptTyped /\ NamesChildren /\ LaunchHeld /\ LinksNameChildren /\ GivenAreCalled /\ LeftIsTodo
             /\ OneChildPerCall /\ LaunchesInOrder /\ LaunchedAreSettled

\* Children are numbered by their links.
LEMMA KidIs == ASSUME wsChild \in Seq(ScriptChildren)
               PROVE  Kid = 1..Len(wsChild) /\ Len(wsChild) \in Nat /\ \A c \in Kid : wsChild[c] \in ScriptChildren
BY DEF Kid

\* What an evaluation starts with.
LEMMA NewHostIs ==
  /\ NewHost \in Hosts /\ NewHost.pc = "eval" /\ NewHost.persisted = {} /\ NewHost.launched = <<>>
  /\ NewHost.settled = {} /\ NewHost.todo = <<>> /\ \A k \in NodeKeys : NewHost.invocations[k] = 0
<1> DEFINE zeroes == [k \in NodeKeys |-> 0]
<1>1. zeroes \in [NodeKeys -> Nat] /\ \A k \in NodeKeys : zeroes[k] = 0
  OBVIOUS
<1> HIDE DEF zeroes
<1>2. NewHost = [pc |-> "eval", invocations |-> zeroes, persisted |-> {}, launched |-> <<>>, settled |-> {},
                 todo |-> <<>>, passes |-> 0, ok |-> TRUE, failed |-> FALSE]
  BY DEF NewHost, zeroes
<1>3. <<>> \in Seq(Nat)
  OBVIOUS
<1> DEFINE none == <<>>
<1> HIDE DEF none
<1>4. NewHost = [pc |-> "eval", invocations |-> zeroes, persisted |-> {}, launched |-> none, settled |-> {},
                 todo |-> none, passes |-> 0, ok |-> TRUE, failed |-> FALSE] /\ none \in Seq(Nat)
  BY <1>2, <1>3 DEF none
<1>5. /\ NewHost \in Hosts /\ NewHost.pc = "eval" /\ NewHost.persisted = {} /\ NewHost.launched = none
      /\ NewHost.settled = {} /\ NewHost.todo = none /\ NewHost.invocations = zeroes
  BY <1>1, <1>4 DEF Hosts
<1> QED
  BY <1>1, <1>5 DEF none

\* A call that is over is of no launch.
LEMMA OutsideIs == Outside \in ScriptCalls /\ Outside.pc = "idle"
BY DEF Outside, ScriptCalls

\* No child is linked yet.
LEMMA ScriptInvInit == ScriptInit => ScriptInv
<1> SUFFICES ASSUME ScriptInit PROVE ScriptInv
  OBVIOUS
<1>1. wsChild = <<>> /\ wsGiven = <<>> /\ wsEvents = <<>>
  BY DEF ScriptInit
<1>2. Kid = {} /\ DOMAIN wsGiven = {} /\ DOMAIN wsEvents = {} /\ DOMAIN NewHost.launched = {} /\ DOMAIN NewHost.todo = {}
  BY <1>1, NewHostIs DEF Kid
<1>3. wsHost = NewHost /\ wsEvaluations = 1 /\ wsLaunch = NoCallback /\ wsCall = [b \in Callbacks |-> Outside]
  BY DEF ScriptInit
<1>4. wsChild \in Seq(ScriptChildren) /\ wsGiven \in Seq(Nat) /\ wsEvents \in Seq(Nat)
  BY <1>1
<1>5. ScriptTyped
  BY <1>3, <1>4, NewHostIs, OutsideIs DEF ScriptTyped
<1>6. NamesChildren
  BY <1>2, <1>3, NewHostIs, OutsideIs DEF NamesChildren
<1>7. LaunchHeld
  BY <1>3, NewHostIs, OutsideIs DEF LaunchHeld, InLaunch
<1>8. LinksNameChildren /\ GivenAreCalled /\ LeftIsTodo
  BY <1>2, <1>3, NewHostIs DEF LinksNameChildren, GivenAreCalled, LeftIsTodo
<1>9. OneChildPerCall /\ LaunchesInOrder /\ LaunchedAreSettled
  BY <1>2, <1>3, NewHostIs DEF OneChildPerCall, LaunchesInOrder, LaunchedAreSettled, Kid
<1> QED
  BY <1>5, <1>6, <1>7, <1>8, <1>9 DEF ScriptInv

\* A step that makes no link and launches nothing keeps what is said of links.
LinksStay ==
    /\ UNCHANGED <<wsGiven, wsEvents, wsEvaluations>> /\ ScriptTyped'
    /\ DOMAIN wsChild' = DOMAIN wsChild /\ Len(wsChild') = Len(wsChild)
    /\ \A c \in DOMAIN wsChild :
          /\ wsChild'[c].node = wsChild[c].node /\ wsChild'[c].index = wsChild[c].index /\ wsChild'[c].by = wsChild[c].by
          /\ wsChild[c].state = "ended" => wsChild'[c].state = "ended"
    /\ wsHost'.persisted = wsHost.persisted /\ wsHost'.invocations = wsHost.invocations
    /\ \A m \in DOMAIN wsHost'.launched : wsHost'.launched[m] \in DOMAIN wsChild
    /\ \A a \in Callbacks : \/ wsCall'[a] = wsCall[a]
                            \/ wsCall'[a].pc = "idle"
                            \/ wsCall'[a].pc = "waiting" /\ wsCall'[a].child \in DOMAIN wsChild
    /\ wsLaunch' = wsLaunch \/ \A a \in Callbacks : wsCall'[a].pc \in {"idle", "holds", "waiting"}
    /\ wsHost'.pc # "eval" => \A a \in Callbacks : wsCall'[a].pc = "idle"
    /\ \A c \in wsHost'.settled : c \in DOMAIN wsChild /\ wsChild'[c].state = "ended"
    /\ \A m \in DOMAIN wsHost'.todo : wsHost'.todo[m] \in DOMAIN wsChild

\* Links, calls and what was given stay as they are said to be.
LEMMA StayKeeps ==
  ASSUME ScriptInv, LinksStay
  PROVE  /\ NamesChildren' /\ LaunchHeld' /\ LinksNameChildren' /\ GivenAreCalled' /\ OneChildPerCall' /\ LaunchesInOrder'
         /\ wsHost'.pc = "eval" => ScriptInv'
<1>1. Kid' = Kid /\ Kid = DOMAIN wsChild /\ Kid = 1..Len(wsChild) /\ Len(wsChild) \in Nat
  BY KidIs DEF ScriptInv, ScriptTyped, Kid, LinksStay
<1>2. \A c \in Kid : LinkOf(c)' = LinkOf(c)
  BY <1>1 DEF LinksStay, LinkOf
<1>3. \A a \in Callbacks : InLaunch(a)' => InLaunch(a) /\ wsCall'[a] = wsCall[a] /\ CallOf(a)' = CallOf(a)
  BY DEF LinksStay, InLaunch, CallOf
<1>4. NamesChildren'
  <2>1. \A b \in Callbacks : wsCall'[b].pc \in {"launched", "holds", "waiting"} => wsCall'[b].child \in Kid
    BY <1>1 DEF ScriptInv, NamesChildren, LinksStay
  <2> QED
    BY <1>1, <2>1 DEF ScriptInv, NamesChildren, LinksStay, childEnded
<1>5. LaunchHeld'
  <2>1. ASSUME NEW b \in Callbacks, InLaunch(b)'
        PROVE  /\ wsLaunch' = b /\ wsCall'[b].node \in NodeKeys /\ wsHost'.invocations[wsCall'[b].node] = wsCall'[b].index + 1
               /\ wsCall'[b].pc # "lookup" => CallOf(b)' \notin wsHost'.persisted
               /\ wsCall'[b].pc # "launched" => \A c \in Kid' : LinkOf(c)' = CallOf(b)' => CallOf(b)' \in wsHost'.persisted
               /\ wsCall'[b].pc = "launched" => /\ wsCall'[b].child = Len(wsChild') /\ LinkOf(Len(wsChild))' = CallOf(b)'
                                                /\ \A n \in DOMAIN wsEvents' : wsEvents'[n] < wsCall'[b].child
    <3>1. InLaunch(b) /\ wsCall'[b] = wsCall[b] /\ CallOf(b)' = CallOf(b) /\ wsCall'[b].pc \notin {"idle", "holds", "waiting"}
      BY <1>3, <2>1 DEF InLaunch
    <3>2. wsLaunch' = wsLaunch
      BY <3>1 DEF LinksStay
    <3>3. wsCall[b].pc = "launched" => Len(wsChild) \in Kid
      BY <3>1 DEF ScriptInv, LaunchHeld, NamesChildren
    <3>4. wsCall[b].pc = "launched" => LinkOf(Len(wsChild))' = LinkOf(Len(wsChild))
      BY <1>1, <3>3 DEF LinkOf, LinksStay
    <3>5. /\ wsLaunch = b /\ wsCall[b].node \in NodeKeys /\ wsHost.invocations[wsCall[b].node] = wsCall[b].index + 1
          /\ wsCall[b].pc # "lookup" => CallOf(b) \notin wsHost.persisted
          /\ wsCall[b].pc # "launched" => \A c \in Kid : LinkOf(c) = CallOf(b) => CallOf(b) \in wsHost.persisted
          /\ wsCall[b].pc = "launched" => /\ wsCall[b].child = Len(wsChild) /\ LinkOf(Len(wsChild)) = CallOf(b)
                                          /\ \A n \in DOMAIN wsEvents : wsEvents[n] < wsCall[b].child
      BY <3>1 DEF ScriptInv, LaunchHeld
    <3> QED
      BY <1>1, <1>2, <3>1, <3>2, <3>4, <3>5 DEF LinksStay
  <2>2. wsHost'.pc # "eval" => \A a \in Callbacks : wsCall'[a].pc = "idle"
    BY DEF LinksStay
  <2> QED
    BY <2>1, <2>2 DEF LaunchHeld
<1>6. LinksNameChildren'
  <2>1. \A c, d \in Kid' : LinkOf(c)' = LinkOf(d)' => c = d
    BY <1>1, <1>2 DEF ScriptInv, LinksNameChildren
  <2>2. ASSUME NEW c \in Kid'
        PROVE  /\ LinkOf(c)' \in wsHost'.persisted \/ wsChild'[c].index < wsHost'.invocations[wsChild'[c].node]
               /\ wsChild'[c].by <= wsEvaluations'
               /\ wsChild'[c].by = wsEvaluations' => wsChild'[c].index < wsHost'.invocations[wsChild'[c].node]
    BY <1>1, <1>2 DEF ScriptInv, LinksNameChildren, LinksStay
  <2> QED
    BY <2>1, <2>2 DEF LinksNameChildren
<1>7. GivenAreCalled'
  <2> SUFFICES ASSUME NEW n \in DOMAIN wsGiven'
               PROVE  /\ LinkOf(wsGiven[n])' \notin wsHost'.persisted
                      /\ wsChild'[wsGiven'[n]].index < wsHost'.invocations[wsChild'[wsGiven'[n]].node]
                      /\ \A b \in Callbacks : InLaunch(b)' => LinkOf(wsGiven[n])' # CallOf(b)'
    BY DEF GivenAreCalled, LinkOf
  <2>1. n \in DOMAIN wsGiven /\ wsGiven'[n] = wsGiven[n] /\ wsGiven[n] \in Kid
    BY DEF LinksStay, ScriptInv, NamesChildren
  <2>2. LinkOf(wsGiven[n])' = LinkOf(wsGiven[n]) /\ wsGiven' = wsGiven
    BY <1>1, <2>1 DEF LinkOf, LinksStay
  <2>3. /\ LinkOf(wsGiven[n]) \notin wsHost.persisted
        /\ wsChild[wsGiven[n]].index < wsHost.invocations[wsChild[wsGiven[n]].node]
        /\ \A b \in Callbacks : InLaunch(b) => LinkOf(wsGiven[n]) # CallOf(b)
    BY <2>1 DEF ScriptInv, GivenAreCalled
  <2> QED
    BY <1>1, <1>3, <2>1, <2>2, <2>3 DEF LinksStay
<1>8. OneChildPerCall'
  BY DEF ScriptInv, OneChildPerCall, LinksStay
<1>9. LaunchesInOrder'
  BY DEF ScriptInv, LaunchesInOrder, LinksStay
<1>10. wsHost'.pc = "eval" => LeftIsTodo' /\ LaunchedAreSettled'
  BY DEF LeftIsTodo, LaunchedAreSettled
<1> QED
  BY <1>4, <1>5, <1>6, <1>7, <1>8, <1>9, <1>10 DEF ScriptInv, LinksStay

\* A call that goes on.
LEMMA CallsGo ==
  ASSUME ScriptTyped, NEW b \in Callbacks, NEW rec \in ScriptCalls, CallGoes(b, rec)
  PROVE  wsCall' \in [Callbacks -> ScriptCalls] /\ \A a \in Callbacks : wsCall'[a] = IF a = b THEN rec ELSE wsCall[a]
BY DEF CallGoes, ScriptTyped

\* The state of a child changes, and only it.
LEMMA StateSet ==
  ASSUME wsChild \in Seq(ScriptChildren), NEW c \in DOMAIN wsChild, NEW state \in {"active", "canceling", "ended"},
         wsChild' = [wsChild EXCEPT ![c].state = state], childEnded(c) => state = "ended"
  PROVE  /\ wsChild' \in Seq(ScriptChildren) /\ DOMAIN wsChild' = DOMAIN wsChild /\ Len(wsChild') = Len(wsChild)
         /\ wsChild'[c].state = state
         /\ \A d \in DOMAIN wsChild :
               /\ wsChild'[d].node = wsChild[d].node /\ wsChild'[d].index = wsChild[d].index /\ wsChild'[d].by = wsChild[d].by
               /\ wsChild[d].state = "ended" => wsChild'[d].state = "ended"
<1>1. DOMAIN wsChild = 1..Len(wsChild) /\ Len(wsChild) \in Nat /\ \A d \in DOMAIN wsChild : wsChild[d] \in ScriptChildren
  OBVIOUS
<1> DEFINE kid == [wsChild[c] EXCEPT !.state = state]
<1>2. kid \in ScriptChildren /\ kid.state = state /\ kid.node = wsChild[c].node /\ kid.index = wsChild[c].index /\ kid.by = wsChild[c].by
  BY <1>1 DEF ScriptChildren
<1> HIDE DEF kid
<1>3. wsChild' = [wsChild EXCEPT ![c] = kid]
  BY DEF kid
<1>4. wsChild' = [d \in DOMAIN wsChild' |-> wsChild'[d]] /\ DOMAIN wsChild' = 1..Len(wsChild)
  BY <1>1, <1>3
<1>5. \A d \in DOMAIN wsChild : wsChild'[d] = IF d = c THEN kid ELSE wsChild[d]
  BY <1>3
<1>6. wsChild' \in Seq(ScriptChildren)
  BY <1>1, <1>2, <1>4, <1>5, IsASeq
<1> QED
  BY <1>1, <1>2, <1>4, <1>5, <1>6 DEF childEnded

\* wait(), leave and the end of a wait make no link.
LEMMA WaitsKeep ==
  ASSUME ScriptInv, NEW b \in Callbacks, waitCall(b) \/ waitSettles(b) \/ leaveChild(b)
  PROVE  ScriptInv'
<1> DEFINE c == wsCall[b].child
           waits == [wsCall[b] EXCEPT !.pc = "waiting"]
<1>1. ScriptTyped /\ NamesChildren /\ Kid = DOMAIN wsChild
  BY DEF ScriptInv, Kid
<1>2. wsCall[b].pc \in {"holds", "waiting"} /\ c \in Kid /\ wsHost.pc = "eval" /\ UNCHANGED <<wsChild, wsLaunch, wsGiven, wsEvents, wsEvaluations>>
  BY <1>1 DEF waitCall, waitSettles, leaveChild, Evaluating, Keeps, NamesChildren
<1>3. waits \in ScriptCalls /\ waits.pc = "waiting" /\ waits.child = c /\ Outside \in ScriptCalls /\ Outside.pc = "idle"
  BY <1>1, OutsideIs DEF ScriptTyped, ScriptCalls
<1> HIDE DEF waits
<1>4. CallGoes(b, waits) \/ CallGoes(b, Outside)
  BY DEF waitCall, waitSettles, leaveChild, waits
<1>5. PICK rec \in {waits, Outside} : CallGoes(b, rec)
  BY <1>4
<1>6. wsCall' \in [Callbacks -> ScriptCalls] /\ \A a \in Callbacks : wsCall'[a] = IF a = b THEN rec ELSE wsCall[a]
  BY <1>1, <1>3, <1>5, CallsGo
<1>7. wsHost' = wsHost \/ (childEnded(c) /\ wsHost' = [wsHost EXCEPT !.settled = @ \cup {c}])
  BY DEF waitCall, waitSettles, leaveChild
<1>8. /\ wsHost' \in Hosts /\ wsHost'.pc = "eval" /\ wsHost'.persisted = wsHost.persisted
      /\ wsHost'.invocations = wsHost.invocations /\ wsHost'.launched = wsHost.launched /\ wsHost'.todo = wsHost.todo
      /\ \A d \in wsHost'.settled : d \in wsHost.settled \/ (d = c /\ childEnded(c))
  <2>1. wsHost \in Hosts /\ wsCall[b] \in ScriptCalls
    BY <1>1 DEF ScriptTyped
  <2>2. c \in Nat
    BY <2>1 DEF ScriptCalls
  <2>3. CASE wsHost' = wsHost
    BY <1>2, <2>1, <2>3
  <2>4. CASE childEnded(c) /\ wsHost' = [wsHost EXCEPT !.settled = @ \cup {c}]
    <3> DEFINE more == wsHost.settled \cup {c}
    <3>1. more \in SUBSET Nat /\ \A d \in more : d \in wsHost.settled \/ d = c
      BY <2>1, <2>2 DEF Hosts
    <3> HIDE DEF more
    <3>2. wsHost' = [wsHost EXCEPT !.settled = more]
      BY <2>4 DEF more
    <3>3. wsHost' \in Hosts /\ wsHost'.settled = more /\ wsHost'.pc = wsHost.pc /\ wsHost'.persisted = wsHost.persisted
          /\ wsHost'.invocations = wsHost.invocations /\ wsHost'.launched = wsHost.launched /\ wsHost'.todo = wsHost.todo
      BY <2>1, <3>1, <3>2 DEF Hosts
    <3> QED
      BY <1>2, <2>4, <3>1, <3>3
  <2> QED
    BY <1>7, <2>3, <2>4
<1>9. ScriptTyped'
  BY <1>1, <1>2, <1>6, <1>8 DEF ScriptTyped
<1>10. LinksStay
  BY <1>1, <1>2, <1>3, <1>5, <1>6, <1>8, <1>9 DEF LinksStay, NamesChildren, childEnded
<1> QED
  BY <1>8, <1>10, StayKeeps

\* cancel() ends its child or asks it to stop.
LEMMA CancelCallKeeps ==
  ASSUME ScriptInv, NEW b \in Callbacks, cancelCall(b)
  PROVE  ScriptInv'
<1> DEFINE c == wsCall[b].child
<1>1. ScriptTyped /\ NamesChildren /\ Kid = DOMAIN wsChild
  BY DEF ScriptInv, Kid
<1>2. wsCall[b].pc = "holds" /\ c \in DOMAIN wsChild /\ wsHost.pc = "eval" /\ UNCHANGED <<wsLaunch, wsGiven, wsEvents, wsEvaluations>>
  BY <1>1 DEF cancelCall, Evaluating, NamesChildren
<1>3. PICK state \in Canceled(c) : /\ wsChild' = [wsChild EXCEPT ![c].state = state]
                                   /\ wsHost' = [wsHost EXCEPT !.settled = IF state = "ended" THEN @ \cup {c} ELSE @]
  BY DEF cancelCall
<1>4. wsChild[c] \in ScriptChildren
  BY <1>1, <1>2, KidIs DEF ScriptTyped
<1>5. state \in {"active", "canceling", "ended"} /\ (childEnded(c) => state = "ended")
  BY <1>4 DEF Canceled, ScriptChildren, childEnded
<1>6. /\ wsChild' \in Seq(ScriptChildren) /\ DOMAIN wsChild' = DOMAIN wsChild /\ Len(wsChild') = Len(wsChild)
      /\ wsChild'[c].state = state
      /\ \A d \in DOMAIN wsChild :
               /\ wsChild'[d].node = wsChild[d].node /\ wsChild'[d].index = wsChild[d].index /\ wsChild'[d].by = wsChild[d].by
               /\ wsChild[d].state = "ended" => wsChild'[d].state = "ended"
  BY <1>1, <1>2, <1>3, <1>5, StateSet DEF ScriptTyped
<1>7. CallGoes(b, Outside) /\ Outside \in ScriptCalls /\ Outside.pc = "idle"
  BY OutsideIs DEF cancelCall
<1>8. wsCall' \in [Callbacks -> ScriptCalls] /\ \A a \in Callbacks : wsCall'[a] = IF a = b THEN Outside ELSE wsCall[a]
  BY <1>1, <1>7, CallsGo
<1>9. /\ wsHost' \in Hosts /\ wsHost'.pc = "eval" /\ wsHost'.persisted = wsHost.persisted
      /\ wsHost'.invocations = wsHost.invocations /\ wsHost'.launched = wsHost.launched /\ wsHost'.todo = wsHost.todo
      /\ \A d \in wsHost'.settled : d \in wsHost.settled \/ (d = c /\ state = "ended")
  BY <1>1, <1>2, <1>3 DEF ScriptTyped, Hosts, ScriptCalls
<1>10. ScriptTyped'
  BY <1>1, <1>2, <1>6, <1>8, <1>9 DEF ScriptTyped
<1>11. LinksStay
  BY <1>1, <1>2, <1>6, <1>7, <1>8, <1>9, <1>10 DEF LinksStay, NamesChildren, childEnded
<1> QED
  BY <1>9, <1>11, StayKeeps

\* What is still to be canceled stays so while children only end.
LEMMA LeftStays ==
  ASSUME ScriptInv, LinksStay, wsHost' = wsHost
  PROVE  LeftIsTodo' /\ LaunchedAreSettled'
<1>1. \A n \in DOMAIN wsHost.launched : childEnded(wsHost.launched[n]) => childEnded(wsHost.launched[n])'
  BY DEF ScriptInv, NamesChildren, Kid, LinksStay, childEnded
<1>2. LeftIsTodo'
  BY <1>1 DEF ScriptInv, LeftIsTodo, childEnded
<1>3. LaunchedAreSettled'
  BY <1>1 DEF ScriptInv, LaunchedAreSettled, childEnded
<1> QED
  BY <1>2, <1>3

\* A worker ends a child.
LEMMA ChildEndKeeps ==
  ASSUME ScriptInv, NEW c \in DOMAIN wsChild, ChildEnds(c)
  PROVE  ScriptInv'
<1>1. ScriptTyped /\ NamesChildren /\ LaunchHeld /\ Kid = DOMAIN wsChild
  BY DEF ScriptInv, Kid
<1> DEFINE state == "ended"
<1>2. wsChild' = [wsChild EXCEPT ![c].state = state] /\ UNCHANGED <<wsHost, wsLaunch, wsCall, wsGiven, wsEvents, wsEvaluations>>
      /\ state \in {"active", "canceling", "ended"} /\ (childEnded(c) => state = "ended")
  BY DEF ChildEnds
<1> HIDE DEF state
<1>3. /\ wsChild' \in Seq(ScriptChildren) /\ DOMAIN wsChild' = DOMAIN wsChild /\ Len(wsChild') = Len(wsChild)
      /\ \A d \in DOMAIN wsChild :
               /\ wsChild'[d].node = wsChild[d].node /\ wsChild'[d].index = wsChild[d].index /\ wsChild'[d].by = wsChild[d].by
               /\ wsChild[d].state = "ended" => wsChild'[d].state = "ended"
  BY <1>1, <1>2, StateSet DEF ScriptTyped
<1>4. ScriptTyped'
  BY <1>1, <1>2, <1>3 DEF ScriptTyped
<1>5. LinksStay
  BY <1>1, <1>2, <1>3, <1>4 DEF LinksStay, NamesChildren, LaunchHeld, childEnded
<1> QED
  BY <1>2, <1>4, <1>5, StayKeeps, LeftStays DEF ScriptInv

\* The head of what is to be canceled, and the rest.
LEMMA TodoTail ==
  ASSUME NEW s \in Seq(Nat), s # <<>>
  PROVE  /\ 1 \in DOMAIN s /\ Head(s) = s[1] /\ Tail(s) \in Seq(Nat)
         /\ \A m \in DOMAIN s : s[m] = Head(s) \/ \E k \in DOMAIN Tail(s) : Tail(s)[k] = s[m]
         /\ \A k \in DOMAIN Tail(s) : \E m \in DOMAIN s : Tail(s)[k] = s[m]
<1>1. Len(s) \in Nat /\ Len(s) # 0 /\ DOMAIN s = 1..Len(s) /\ Len(Tail(s)) = Len(s) - 1 /\ Tail(s) \in Seq(Nat)
      /\ DOMAIN Tail(s) = 1..(Len(s) - 1) /\ Head(s) = s[1]
  OBVIOUS
<1>2. \A k \in 1..(Len(s) - 1) : Tail(s)[k] = s[k + 1] /\ k + 1 \in DOMAIN s
  BY <1>1
<1>3. ASSUME NEW m \in DOMAIN s, m # 1 PROVE \E k \in DOMAIN Tail(s) : Tail(s)[k] = s[m]
  <2>1. m - 1 \in 1..(Len(s) - 1) /\ (m - 1) + 1 = m
    BY <1>1, <1>3
  <2>2. Tail(s)[m - 1] = s[m]
    BY <1>2, <2>1
  <2> QED
    BY <1>1, <2>1, <2>2
<1>4. ASSUME NEW k \in DOMAIN Tail(s) PROVE \E m \in DOMAIN s : Tail(s)[k] = s[m]
  BY <1>1, <1>2
<1>5. 1 \in DOMAIN s
  BY <1>1
<1> QED
  BY <1>1, <1>3, <1>4, <1>5

\* A step of the host while it closes makes no link.
HostGoes ==
    /\ wsHost' \in Hosts /\ wsHost'.persisted = wsHost.persisted /\ wsHost'.invocations = wsHost.invocations
    /\ wsHost'.launched = wsHost.launched /\ wsHost'.settled = wsHost.settled
    /\ \A m \in DOMAIN wsHost'.todo : wsHost'.todo[m] \in DOMAIN wsChild
    /\ wsChild' \in Seq(ScriptChildren) /\ DOMAIN wsChild' = DOMAIN wsChild /\ Len(wsChild') = Len(wsChild)
    /\ \A d \in DOMAIN wsChild :
               /\ wsChild'[d].node = wsChild[d].node /\ wsChild'[d].index = wsChild[d].index /\ wsChild'[d].by = wsChild[d].by
               /\ wsChild[d].state = "ended" => wsChild'[d].state = "ended"
    /\ HostOnly

\* What the host launched and settled stays so while it closes.
LEMMA HostKeeps ==
  ASSUME ScriptInv, HostGoes, \A a \in Callbacks : wsCall[a].pc = "idle"
  PROVE  /\ LinksStay
         /\ LeftIsTodo' /\ LaunchedAreSettled' => ScriptInv'
         /\ \A n \in DOMAIN wsHost.launched : childEnded(wsHost.launched[n]) => childEnded(wsHost.launched[n])'
<1>1. ScriptTyped /\ NamesChildren /\ Kid = DOMAIN wsChild
  BY DEF ScriptInv, Kid
<1>2. ScriptTyped'
  BY <1>1 DEF HostGoes, HostOnly, ScriptTyped
<1>3. LinksStay
  BY <1>1, <1>2 DEF HostGoes, HostOnly, LinksStay, NamesChildren, childEnded
<1>4. \A n \in DOMAIN wsHost.launched : childEnded(wsHost.launched[n]) => childEnded(wsHost.launched[n])'
  BY <1>1 DEF NamesChildren, HostGoes, childEnded
<1> QED
  BY <1>2, <1>3, <1>4, StayKeeps DEF ScriptInv

\* The end of the evaluation takes every launched child to be canceled.
LEMMA ReturnKeeps == ASSUME ScriptInv, evalReturns PROVE ScriptInv'
<1>1. ScriptTyped /\ NamesChildren /\ Kid = DOMAIN wsChild
  BY DEF ScriptInv, Kid
<1>2. (\A a \in Callbacks : wsCall[a].pc = "idle") /\ wsChild' = wsChild /\ HostOnly
  BY DEF evalReturns
<1>3. PICK ok \in BOOLEAN :
          wsHost' = [wsHost EXCEPT !.pc = "canceling", !.todo = wsHost.launched,
                                   !.passes = IF ok THEN 1 ELSE 2, !.ok = ok, !.failed = ~ok]
  BY DEF evalReturns
<1> DEFINE passes == IF ok THEN 1 ELSE 2
           bad == ~ok
<1>4. passes \in Nat /\ (ok => passes = 1) /\ bad \in BOOLEAN /\ (~bad => ok)
  OBVIOUS
<1> HIDE DEF passes, bad
<1>5. wsHost' = [wsHost EXCEPT !.pc = "canceling", !.todo = wsHost.launched, !.passes = passes, !.ok = ok, !.failed = bad]
  BY <1>3 DEF passes, bad
<1>6. /\ wsHost' \in Hosts /\ wsHost'.persisted = wsHost.persisted /\ wsHost'.invocations = wsHost.invocations
      /\ wsHost'.launched = wsHost.launched /\ wsHost'.settled = wsHost.settled
      /\ wsHost'.todo = wsHost.launched /\ wsHost'.pc = "canceling" /\ wsHost'.passes = passes /\ wsHost'.failed = bad
  BY <1>1, <1>4, <1>5 DEF ScriptTyped, Hosts
<1>7. HostGoes
  BY <1>1, <1>2, <1>6 DEF HostGoes, ScriptTyped, NamesChildren
<1>8. LeftIsTodo'
  BY <1>4, <1>6 DEF LeftIsTodo
<1>9. LaunchedAreSettled'
  BY <1>6 DEF LaunchedAreSettled
<1> QED
  BY <1>2, <1>7, <1>8, <1>9, HostKeeps

\* The next child is passed over, canceled, or noted as an error.
LEMMA CancelNextKeeps == ASSUME ScriptInv, cancelNext PROVE ScriptInv'
<1> DEFINE c == Head(wsHost.todo)
           t == Tail(wsHost.todo)
           rest == [wsHost EXCEPT !.todo = t]
<1>1. ScriptTyped /\ NamesChildren /\ LeftIsTodo /\ Kid = DOMAIN wsChild /\ wsHost \in Hosts /\ wsHost.todo \in Seq(Nat)
  BY DEF ScriptInv, Kid, ScriptTyped, Hosts
<1>2. wsHost.pc = "canceling" /\ wsHost.todo # <<>> /\ HostOnly /\ \A a \in Callbacks : wsCall[a].pc = "idle"
  BY DEF cancelNext, ScriptInv, LaunchHeld
<1>3. /\ c \in DOMAIN wsChild /\ t \in Seq(Nat) /\ \A m \in DOMAIN t : t[m] \in DOMAIN wsChild
      /\ \A m \in DOMAIN wsHost.todo : wsHost.todo[m] = c \/ \E k \in DOMAIN t : t[k] = wsHost.todo[m]
  BY <1>1, <1>2, TodoTail DEF NamesChildren
<1> HIDE DEF c, t
<1>4. /\ rest \in Hosts /\ rest.persisted = wsHost.persisted /\ rest.invocations = wsHost.invocations
      /\ rest.launched = wsHost.launched /\ rest.settled = wsHost.settled /\ rest.todo = t /\ rest.pc = "canceling"
      /\ rest.failed = wsHost.failed /\ rest.passes = wsHost.passes
  BY <1>1, <1>2, <1>3 DEF Hosts
<1> HIDE DEF rest
<1>5. CASE (c \in wsHost.settled \/ childEnded(c)) /\ wsHost' = rest /\ UNCHANGED wsChild
  <2>1. HostGoes
    BY <1>1, <1>2, <1>3, <1>4, <1>5 DEF HostGoes, ScriptTyped
  <2>2. childEnded(c)
    BY <1>1, <1>5 DEF NamesChildren
  <2>3. LeftIsTodo'
    <3>1. ~wsHost.failed => /\ wsHost.passes = 1
                            /\ \A n \in DOMAIN wsHost.launched : \/ childEnded(wsHost.launched[n])
                                                                \/ \E k \in DOMAIN t : t[k] = wsHost.launched[n]
      BY <1>1, <1>2, <1>3, <2>2 DEF LeftIsTodo
    <3>2. wsHost'.pc = "canceling" /\ wsHost'.failed = wsHost.failed /\ wsHost'.passes = wsHost.passes /\ wsHost'.todo = t
          /\ wsHost'.launched = wsHost.launched /\ wsChild' = wsChild
      BY <1>4, <1>5
    <3> QED
      BY <3>1, <3>2 DEF LeftIsTodo, childEnded
  <2>4. LaunchedAreSettled'
    BY <1>4, <1>5 DEF LaunchedAreSettled
  <2> QED
    BY <1>2, <2>1, <2>3, <2>4, HostKeeps
<1>6. CASE ~childEnded(c) /\ wsHost' = [wsHost EXCEPT !.pc = "settling"]
           /\ \E state \in Canceled(c) : wsChild' = [wsChild EXCEPT ![c].state = state]
  <2>1. PICK state \in Canceled(c) : wsChild' = [wsChild EXCEPT ![c].state = state]
    BY <1>6
  <2>2. wsChild[c] \in ScriptChildren
    BY <1>1, <1>3, KidIs DEF ScriptTyped
  <2>3. state \in {"active", "canceling", "ended"} /\ (childEnded(c) => state = "ended")
    BY <1>6, <2>2 DEF Canceled, ScriptChildren, childEnded
  <2>4. /\ wsChild' \in Seq(ScriptChildren) /\ DOMAIN wsChild' = DOMAIN wsChild /\ Len(wsChild') = Len(wsChild)
        /\ \A d \in DOMAIN wsChild :
               /\ wsChild'[d].node = wsChild[d].node /\ wsChild'[d].index = wsChild[d].index /\ wsChild'[d].by = wsChild[d].by
               /\ wsChild[d].state = "ended" => wsChild'[d].state = "ended"
    BY <1>1, <1>3, <2>1, <2>3, StateSet DEF ScriptTyped
  <2>5. /\ wsHost' \in Hosts /\ wsHost'.persisted = wsHost.persisted /\ wsHost'.invocations = wsHost.invocations
        /\ wsHost'.launched = wsHost.launched /\ wsHost'.settled = wsHost.settled /\ wsHost'.todo = wsHost.todo
        /\ wsHost'.pc = "settling" /\ wsHost'.failed = wsHost.failed /\ wsHost'.passes = wsHost.passes
    BY <1>1, <1>6 DEF Hosts
  <2>6. HostGoes
    BY <1>1, <1>2, <2>4, <2>5 DEF HostGoes, NamesChildren
  <2>7. \A n \in DOMAIN wsHost.launched : childEnded(wsHost.launched[n]) => childEnded(wsHost.launched[n])'
    BY <1>2, <2>6, HostKeeps
  <2>8. LeftIsTodo'
    BY <1>1, <1>2, <2>5, <2>7 DEF LeftIsTodo, childEnded
  <2>9. LaunchedAreSettled'
    BY <2>5 DEF LaunchedAreSettled
  <2> QED
    BY <1>2, <2>6, <2>8, <2>9, HostKeeps
<1>7. CASE wsHost' = [rest EXCEPT !.failed = TRUE] /\ UNCHANGED wsChild
  <2>1. /\ wsHost' \in Hosts /\ wsHost'.persisted = wsHost.persisted /\ wsHost'.invocations = wsHost.invocations
        /\ wsHost'.launched = wsHost.launched /\ wsHost'.settled = wsHost.settled /\ wsHost'.todo = t
        /\ wsHost'.pc = "canceling" /\ wsHost'.failed = TRUE
    BY <1>4, <1>7 DEF Hosts
  <2>2. HostGoes
    BY <1>1, <1>2, <1>3, <1>7, <2>1 DEF HostGoes, ScriptTyped
  <2>3. LeftIsTodo' /\ LaunchedAreSettled'
    BY <2>1 DEF LeftIsTodo, LaunchedAreSettled
  <2> QED
    BY <1>2, <2>2, <2>3, HostKeeps
<1> QED
  BY <1>5, <1>6, <1>7 DEF cancelNext, c, t, rest

\* A canceled child that ended is done with; one that did not is an error.
LEMMA SettleNextKeeps == ASSUME ScriptInv, settleNext PROVE ScriptInv'
<1> DEFINE c == Head(wsHost.todo)
           t == Tail(wsHost.todo)
<1>1. ScriptTyped /\ NamesChildren /\ LeftIsTodo /\ Kid = DOMAIN wsChild /\ wsHost \in Hosts /\ wsHost.todo \in Seq(Nat)
  BY DEF ScriptInv, Kid, ScriptTyped, Hosts
<1>2. wsHost.pc = "settling" /\ wsHost.todo # <<>> /\ HostOnly /\ UNCHANGED wsChild /\ \A a \in Callbacks : wsCall[a].pc = "idle"
  BY <1>1 DEF settleNext, ScriptInv, LaunchHeld, LeftIsTodo
<1>3. /\ c \in DOMAIN wsChild /\ t \in Seq(Nat) /\ \A m \in DOMAIN t : t[m] \in DOMAIN wsChild
      /\ \A m \in DOMAIN wsHost.todo : wsHost.todo[m] = c \/ \E k \in DOMAIN t : t[k] = wsHost.todo[m]
  BY <1>1, <1>2, TodoTail DEF NamesChildren
<1> HIDE DEF c, t
<1>4. CASE childEnded(c) /\ wsHost' = [wsHost EXCEPT !.pc = "canceling", !.todo = t]
  <2>1. /\ wsHost' \in Hosts /\ wsHost'.persisted = wsHost.persisted /\ wsHost'.invocations = wsHost.invocations
        /\ wsHost'.launched = wsHost.launched /\ wsHost'.settled = wsHost.settled /\ wsHost'.todo = t
        /\ wsHost'.pc = "canceling" /\ wsHost'.failed = wsHost.failed /\ wsHost'.passes = wsHost.passes
    BY <1>1, <1>3, <1>4 DEF Hosts
  <2>2. HostGoes
    BY <1>1, <1>2, <1>3, <2>1 DEF HostGoes, ScriptTyped
  <2>3. LeftIsTodo'
    <3>1. ~wsHost.failed => /\ wsHost.passes = 1
                            /\ \A n \in DOMAIN wsHost.launched : \/ childEnded(wsHost.launched[n])
                                                                \/ \E k \in DOMAIN t : t[k] = wsHost.launched[n]
      BY <1>1, <1>2, <1>3, <1>4 DEF LeftIsTodo
    <3> QED
      BY <1>2, <2>1, <3>1 DEF LeftIsTodo, childEnded
  <2>4. LaunchedAreSettled'
    BY <2>1 DEF LaunchedAreSettled
  <2> QED
    BY <1>2, <2>2, <2>3, <2>4, HostKeeps
<1>5. CASE wsHost' = [wsHost EXCEPT !.pc = "canceling", !.todo = t, !.failed = TRUE]
  <2>1. /\ wsHost' \in Hosts /\ wsHost'.persisted = wsHost.persisted /\ wsHost'.invocations = wsHost.invocations
        /\ wsHost'.launched = wsHost.launched /\ wsHost'.settled = wsHost.settled /\ wsHost'.todo = t
        /\ wsHost'.pc = "canceling" /\ wsHost'.failed = TRUE
    BY <1>1, <1>3, <1>5 DEF Hosts
  <2>2. HostGoes
    BY <1>1, <1>2, <1>3, <2>1 DEF HostGoes, ScriptTyped
  <2>3. LeftIsTodo' /\ LaunchedAreSettled'
    BY <2>1 DEF LeftIsTodo, LaunchedAreSettled
  <2> QED
    BY <1>2, <2>2, <2>3, HostKeeps
<1> QED
  BY <1>4, <1>5 DEF settleNext, c, t

\* A pass without an error has ended every child.
LEMMA ResultsKeep == ASSUME ScriptInv, taskResults PROVE ScriptInv'
<1>1. ScriptTyped /\ NamesChildren /\ LeftIsTodo /\ Kid = DOMAIN wsChild /\ wsHost \in Hosts
  BY DEF ScriptInv, Kid, ScriptTyped
<1>2. wsHost.pc = "canceling" /\ wsHost.todo = <<>> /\ HostOnly /\ UNCHANGED wsChild /\ \A a \in Callbacks : wsCall[a].pc = "idle"
  BY DEF taskResults, ScriptInv, LaunchHeld
<1>3. DOMAIN wsHost.todo = {}
  BY <1>2
<1>4. ~wsHost.failed => wsHost.passes = 1 /\ \A n \in DOMAIN wsHost.launched : childEnded(wsHost.launched[n])
  BY <1>1, <1>2, <1>3 DEF LeftIsTodo
<1> DEFINE none == <<>>
<1>5. none \in Seq(Nat) /\ DOMAIN none = {}
  OBVIOUS
<1> HIDE DEF none
<1>6. CASE wsHost.passes > 1 /\ wsHost' = [wsHost EXCEPT !.passes = @ - 1, !.todo = wsHost.launched]
  <2> DEFINE left == wsHost.passes - 1
  <2>1. left \in Nat /\ wsHost.failed
    BY <1>1, <1>4, <1>6 DEF Hosts
  <2> HIDE DEF left
  <2>2. wsHost' = [wsHost EXCEPT !.passes = left, !.todo = wsHost.launched]
    BY <1>6 DEF left
  <2>3. /\ wsHost' \in Hosts /\ wsHost'.persisted = wsHost.persisted /\ wsHost'.invocations = wsHost.invocations
        /\ wsHost'.launched = wsHost.launched /\ wsHost'.settled = wsHost.settled /\ wsHost'.todo = wsHost.launched
        /\ wsHost'.pc = "canceling" /\ wsHost'.failed
    BY <1>1, <1>2, <2>1, <2>2 DEF Hosts
  <2>4. HostGoes
    BY <1>1, <1>2, <2>3 DEF HostGoes, ScriptTyped, NamesChildren
  <2>5. LeftIsTodo' /\ LaunchedAreSettled'
    BY <2>3 DEF LeftIsTodo, LaunchedAreSettled
  <2> QED
    BY <1>2, <2>4, <2>5, HostKeeps
<1>7. CASE wsHost' = [wsHost EXCEPT !.passes = 0, !.pc = "returned"] \/ wsHost' = [wsHost EXCEPT !.pc = "returned"]
  <2>1. /\ wsHost' \in Hosts /\ wsHost'.persisted = wsHost.persisted /\ wsHost'.invocations = wsHost.invocations
        /\ wsHost'.launched = wsHost.launched /\ wsHost'.settled = wsHost.settled /\ wsHost'.todo = wsHost.todo
        /\ wsHost'.pc = "returned" /\ wsHost'.failed = wsHost.failed
    <3>1. CASE wsHost' = [wsHost EXCEPT !.passes = 0, !.pc = "returned"]
      BY <1>1, <3>1 DEF Hosts
    <3>2. CASE wsHost' = [wsHost EXCEPT !.pc = "returned"]
      BY <1>1, <3>2 DEF Hosts
    <3> QED
      BY <1>7, <3>1, <3>2
  <2>2. HostGoes
    BY <1>1, <1>2, <2>1 DEF HostGoes, ScriptTyped, NamesChildren
  <2>3. LeftIsTodo'
    BY <2>1 DEF LeftIsTodo
  <2>4. LaunchedAreSettled'
    BY <1>2, <1>4, <2>1 DEF LaunchedAreSettled, childEnded
  <2> QED
    BY <1>2, <2>2, <2>3, <2>4, HostKeeps
<1>8. CASE wsHost' = [wsHost EXCEPT !.passes = 0, !.failed = TRUE, !.todo = IF wsHost.ok THEN wsHost.launched ELSE none]
  <2> DEFINE again == IF wsHost.ok THEN wsHost.launched ELSE none
  <2>1. again \in Seq(Nat) /\ \A m \in DOMAIN again : again[m] \in DOMAIN wsChild
    BY <1>1, <1>5 DEF Hosts, NamesChildren
  <2> HIDE DEF again
  <2>2. wsHost' = [wsHost EXCEPT !.passes = 0, !.failed = TRUE, !.todo = again]
    BY <1>8 DEF again
  <2>3. /\ wsHost' \in Hosts /\ wsHost'.persisted = wsHost.persisted /\ wsHost'.invocations = wsHost.invocations
        /\ wsHost'.launched = wsHost.launched /\ wsHost'.settled = wsHost.settled /\ wsHost'.todo = again
        /\ wsHost'.pc = "canceling" /\ wsHost'.failed
    BY <1>1, <1>2, <2>1, <2>2 DEF Hosts
  <2>4. HostGoes
    BY <1>1, <1>2, <2>1, <2>3 DEF HostGoes, ScriptTyped
  <2>5. LeftIsTodo' /\ LaunchedAreSettled'
    BY <2>3 DEF LeftIsTodo, LaunchedAreSettled
  <2> QED
    BY <1>2, <2>4, <2>5, HostKeeps
<1> QED
  BY <1>6, <1>7, <1>8 DEF taskResults, none

\* The process dies: no call is left.
LEMMA DeathOfHost == ASSUME ScriptInv, HostDies PROVE ScriptInv'
<1>1. ScriptTyped /\ NamesChildren /\ Kid = DOMAIN wsChild /\ wsHost \in Hosts /\ wsChild \in Seq(ScriptChildren)
  BY DEF ScriptInv, Kid, ScriptTyped
<1>2. DOMAIN wsChild = 1..Len(wsChild) /\ Len(wsChild) \in Nat /\ \A c \in DOMAIN wsChild : wsChild[c] \in ScriptChildren
  BY <1>1
<1>3. wsHost' = [wsHost EXCEPT !.pc = "dead"] /\ wsLaunch' = NoCallback /\ wsCall' = [b \in Callbacks |-> Outside]
      /\ UNCHANGED <<wsGiven, wsEvents, wsEvaluations>>
  BY DEF HostDies
<1> DEFINE dead(c) == [wsChild[c] EXCEPT !.state = IF @ = "active" THEN "active" ELSE "ended"]
<1>4. \A c \in DOMAIN wsChild : /\ dead(c) \in ScriptChildren /\ dead(c).node = wsChild[c].node
                                /\ dead(c).index = wsChild[c].index /\ dead(c).by = wsChild[c].by
                                /\ wsChild[c].state = "ended" => dead(c).state = "ended"
  BY <1>2 DEF ScriptChildren
<1>5. wsChild' = [c \in DOMAIN wsChild |-> dead(c)]
  BY DEF HostDies
<1> HIDE DEF dead
<1>6. wsChild' = [c \in DOMAIN wsChild' |-> wsChild'[c]] /\ DOMAIN wsChild' = 1..Len(wsChild)
      /\ \A c \in DOMAIN wsChild : wsChild'[c] = dead(c)
  BY <1>2, <1>5
<1>7. wsChild' \in Seq(ScriptChildren)
  BY <1>2, <1>4, <1>6, IsASeq
<1>8. Len(wsChild') = Len(wsChild)
  BY <1>2, <1>6, <1>7
<1>9. /\ wsHost' \in Hosts /\ wsHost'.persisted = wsHost.persisted /\ wsHost'.invocations = wsHost.invocations
      /\ wsHost'.launched = wsHost.launched /\ wsHost'.settled = wsHost.settled /\ wsHost'.todo = wsHost.todo
      /\ wsHost'.pc = "dead"
  BY <1>1, <1>3 DEF Hosts
<1>10. wsCall' \in [Callbacks -> ScriptCalls] /\ \A a \in Callbacks : wsCall'[a].pc = "idle"
  BY <1>3, OutsideIs
<1>11. ScriptTyped'
  BY <1>1, <1>3, <1>7, <1>9, <1>10 DEF ScriptTyped
<1>12. LinksStay
  BY <1>1, <1>2, <1>3, <1>4, <1>6, <1>8, <1>9, <1>10, <1>11 DEF LinksStay, NamesChildren, childEnded
<1>13. LeftIsTodo' /\ LaunchedAreSettled'
  BY <1>9 DEF LeftIsTodo, LaunchedAreSettled
<1> QED
  BY <1>11, <1>12, <1>13, StayKeeps DEF ScriptInv

\* A new evaluation is to read back every link there is.
LEMMA AgainKeeps == ASSUME ScriptInv, RunAgain PROVE ScriptInv'
<1>1. ScriptTyped /\ LaunchHeld /\ LinksNameChildren /\ LaunchesInOrder
  BY DEF ScriptInv
<1>2. Kid = 1..Len(wsChild) /\ Len(wsChild) \in Nat /\ Kid = DOMAIN wsChild /\ \A c \in Kid : wsChild[c] \in ScriptChildren
  BY <1>1, KidIs DEF ScriptTyped, Kid
<1>3. wsHost.pc = "dead" /\ wsEvaluations' = wsEvaluations + 1 /\ wsGiven' = <<>> /\ wsEvents' = <<>>
      /\ UNCHANGED <<wsChild, wsLaunch, wsCall>> /\ wsEvaluations \in Nat
  BY <1>1 DEF RunAgain, ScriptTyped
<1>4. \A a \in Callbacks : wsCall[a].pc = "idle" /\ wsCall'[a].pc = "idle"
  BY <1>1, <1>3 DEF LaunchHeld
<1> DEFINE links == {LinkOf(c) : c \in DOMAIN wsChild}
           all == [c \in DOMAIN wsChild |-> c]
<1>5. wsHost' = [NewHost EXCEPT !.persisted = links, !.launched = all]
  BY DEF RunAgain, LinkOf
<1>6. links \in SUBSET (NodeKeys \X Nat) /\ \A c \in Kid : LinkOf(c) \in links
  BY <1>2 DEF LinkOf, ScriptChildren
<1>7. all = [c \in DOMAIN all |-> all[c]] /\ DOMAIN all = 1..Len(wsChild) /\ \A c \in 1..Len(wsChild) : all[c] = c /\ all[c] \in Nat
  BY <1>2
<1> HIDE DEF links, all
<1>8. all \in Seq(Nat)
  BY <1>2, <1>7, IsASeq
<1>9. /\ wsHost' \in Hosts /\ wsHost'.pc = "eval" /\ wsHost'.persisted = links /\ wsHost'.launched = all
      /\ wsHost'.settled = NewHost.settled /\ wsHost'.todo = NewHost.todo
  BY <1>5, <1>6, <1>8, NewHostIs DEF Hosts
<1>10. DOMAIN wsGiven' = {} /\ DOMAIN wsEvents' = {} /\ wsGiven' \in Seq(Nat) /\ wsEvents' \in Seq(Nat)
       /\ wsHost'.settled = {} /\ DOMAIN wsHost'.todo = {}
  BY <1>3, <1>9, NewHostIs
<1>11. ScriptTyped'
  BY <1>1, <1>3, <1>9, <1>10 DEF ScriptTyped
<1>12. Kid' = Kid /\ \A c \in Kid : LinkOf(c)' = LinkOf(c)
  BY <1>3 DEF Kid, LinkOf
<1>13. NamesChildren'
  BY <1>2, <1>4, <1>7, <1>9, <1>10, <1>12 DEF NamesChildren
<1>14. LaunchHeld'
  BY <1>4 DEF LaunchHeld, InLaunch
<1>15. LinksNameChildren'
  <2>1. \A c, d \in Kid' : LinkOf(c)' = LinkOf(d)' => c = d
    BY <1>1, <1>12 DEF LinksNameChildren
  <2>2. ASSUME NEW c \in Kid'
        PROVE  LinkOf(c)' \in wsHost'.persisted /\ wsChild'[c].by <= wsEvaluations' /\ wsChild'[c].by # wsEvaluations'
    <3>1. c \in Kid /\ wsChild[c].by <= wsEvaluations /\ wsChild[c].by \in Nat /\ wsChild' = wsChild
      BY <1>1, <1>2, <1>3, <1>12 DEF LinksNameChildren, ScriptChildren
    <3>2. LinkOf(c)' \in wsHost'.persisted
      BY <1>6, <1>9, <1>12, <3>1
    <3> QED
      BY <1>3, <3>1, <3>2
  <2> QED
    BY <2>1, <2>2 DEF LinksNameChildren
<1>16. GivenAreCalled' /\ OneChildPerCall'
  BY <1>10 DEF GivenAreCalled, OneChildPerCall
<1>17. LaunchesInOrder'
  BY <1>1, <1>3, <1>10 DEF LaunchesInOrder
<1>18. LeftIsTodo' /\ LaunchedAreSettled'
  BY <1>9 DEF LeftIsTodo, LaunchedAreSettled
<1> QED
  BY <1>11, <1>13, <1>14, <1>15, <1>16, <1>17, <1>18 DEF ScriptInv

\* Whoever launches does so alone.
LEMMA LaunchesAlone ==
  ASSUME ScriptInv, NEW b \in Callbacks, InLaunch(b)
  PROVE  wsLaunch = b /\ \A a \in Callbacks : InLaunch(a) => a = b
BY DEF ScriptInv, LaunchHeld

\* A call takes the next index of its node key.
LEMMA AgentCallKeeps ==
  ASSUME ScriptInv, NEW b \in Callbacks, NEW node \in NodeKeys, agentCall(b, node)
  PROVE  ScriptInv'
<1> DEFINE rec == [pc |-> "lookup", node |-> node, index |-> wsHost.invocations[node], child |-> 0]
           inv == [wsHost.invocations EXCEPT ![node] = @ + 1]
<1>1. /\ ScriptTyped /\ NamesChildren /\ LaunchHeld /\ LinksNameChildren /\ GivenAreCalled /\ OneChildPerCall /\ LaunchesInOrder
      /\ wsHost \in Hosts
  BY DEF ScriptInv, ScriptTyped
<1>2. Kid = 1..Len(wsChild) /\ Kid = DOMAIN wsChild /\ \A c \in Kid : wsChild[c] \in ScriptChildren
  BY <1>1, KidIs DEF ScriptTyped, Kid
<1>3. wsHost.pc = "eval" /\ wsLaunch = NoCallback /\ wsLaunch' = b /\ UNCHANGED <<wsChild, wsGiven, wsEvents, wsEvaluations>>
      /\ CallGoes(b, rec) /\ wsHost' = [wsHost EXCEPT !.invocations = inv]
  BY DEF agentCall, Evaluating
<1>4. wsHost.invocations[node] \in Nat /\ inv \in [NodeKeys -> Nat] /\ inv[node] = wsHost.invocations[node] + 1
      /\ \A k \in NodeKeys : k # node => inv[k] = wsHost.invocations[k]
  BY <1>1 DEF Hosts
<1>5. rec \in ScriptCalls /\ rec.pc = "lookup" /\ rec.node = node /\ rec.index = wsHost.invocations[node]
  BY <1>4 DEF ScriptCalls
<1> HIDE DEF rec, inv
<1>6. wsCall' \in [Callbacks -> ScriptCalls] /\ \A a \in Callbacks : wsCall'[a] = IF a = b THEN rec ELSE wsCall[a]
  BY <1>1, <1>3, <1>5, CallsGo
<1>7. /\ wsHost' \in Hosts /\ wsHost'.pc = "eval" /\ wsHost'.persisted = wsHost.persisted
      /\ wsHost'.invocations = inv /\ wsHost'.launched = wsHost.launched /\ wsHost'.todo = wsHost.todo
      /\ wsHost'.settled = wsHost.settled
  BY <1>1, <1>3, <1>4 DEF Hosts
<1>8. ScriptTyped'
  BY <1>1, <1>3, <1>6, <1>7 DEF ScriptTyped
<1>9. Kid' = Kid /\ \A c \in Kid : LinkOf(c)' = LinkOf(c)
  BY <1>3 DEF Kid, LinkOf
<1>10. \A a \in Callbacks : InLaunch(a)' => a = b
  BY <1>1, <1>3, <1>6, ScriptAssumption DEF LaunchHeld, InLaunch
<1>11. CallOf(b)' = <<node, wsHost.invocations[node]>>
  BY <1>5, <1>6 DEF CallOf
<1>12. NamesChildren'
  <2>1. \A a \in Callbacks : wsCall'[a].pc \in {"launched", "holds", "waiting"} => wsCall'[a].child \in Kid
    BY <1>1, <1>5, <1>6 DEF NamesChildren
  <2> QED
    BY <1>1, <1>3, <1>7, <1>9, <2>1 DEF NamesChildren, childEnded
<1>13. LaunchHeld'
  <2>1. \A c \in Kid : LinkOf(c) = <<node, wsHost.invocations[node]>> => LinkOf(c) \in wsHost.persisted
    BY <1>1, <1>2, <1>4 DEF LinksNameChildren, LinkOf
  <2>2. wsCall'[b] = rec
    BY <1>6
  <2> QED
    BY <1>3, <1>4, <1>5, <1>7, <1>9, <1>10, <1>11, <2>1, <2>2 DEF LaunchHeld
<1>14. LinksNameChildren'
  <2>1. \A c \in Kid : wsChild[c].node \in NodeKeys /\ wsChild[c].index \in Nat
    BY <1>2 DEF ScriptChildren
  <2>2. \A c \in Kid : wsChild[c].index < wsHost.invocations[wsChild[c].node] => wsChild[c].index < inv[wsChild[c].node]
    BY <1>4, <2>1
  <2> QED
    BY <1>1, <1>3, <1>7, <1>9, <2>2 DEF LinksNameChildren
<1>15. GivenAreCalled'
  <2> SUFFICES ASSUME NEW n \in DOMAIN wsGiven
               PROVE  /\ LinkOf(wsGiven[n]) \notin wsHost.persisted
                      /\ wsChild[wsGiven[n]].index < inv[wsChild[wsGiven[n]].node]
                      /\ \A a \in Callbacks : InLaunch(a)' => LinkOf(wsGiven[n]) # CallOf(a)'
    BY <1>3, <1>7 DEF GivenAreCalled, LinkOf
  <2> DEFINE c == wsGiven[n]
  <2>1. c \in Kid
    BY <1>1 DEF NamesChildren
  <2>2. LinkOf(c) \notin wsHost.persisted /\ wsChild[c].index < wsHost.invocations[wsChild[c].node]
    BY <1>1 DEF GivenAreCalled
  <2>3. wsChild[c].node \in NodeKeys /\ wsChild[c].index \in Nat
    BY <1>2, <2>1 DEF ScriptChildren
  <2>4. wsChild[c].index < inv[wsChild[c].node] /\ (wsChild[c].node = node => wsChild[c].index # wsHost.invocations[node])
    BY <1>4, <2>2, <2>3
  <2>5. LinkOf(c) # CallOf(b)'
    BY <1>11, <2>4 DEF LinkOf
  <2> QED
    BY <1>10, <2>2, <2>4, <2>5
<1>16. OneChildPerCall' /\ LaunchesInOrder'
  BY <1>1, <1>3 DEF OneChildPerCall, LaunchesInOrder
<1>17. LeftIsTodo' /\ LaunchedAreSettled'
  BY <1>7 DEF LeftIsTodo, LaunchedAreSettled
<1> QED
  BY <1>8, <1>12, <1>13, <1>14, <1>15, <1>16, <1>17 DEF ScriptInv

\* A call that launches nothing in the end leaves the links alone.
LEMMA CallFails ==
  ASSUME ScriptInv, NEW b \in Callbacks, InLaunch(b), CallGoes(b, Outside), Unlock(b), wsHost.pc = "eval",
         wsHost' \in Hosts, wsHost'.pc = "eval", wsHost'.persisted = wsHost.persisted,
         wsHost'.invocations = wsHost.invocations, wsHost'.todo = wsHost.todo, wsHost'.settled = wsHost.settled,
         \A m \in DOMAIN wsHost'.launched : wsHost'.launched[m] \in DOMAIN wsChild,
         UNCHANGED <<wsChild, wsGiven, wsEvents, wsEvaluations>>
  PROVE  ScriptInv'
<1>1. ScriptTyped /\ NamesChildren /\ Kid = DOMAIN wsChild
  BY DEF ScriptInv, Kid
<1>2. wsLaunch' = NoCallback
  BY LaunchesAlone DEF Unlock
<1>3. wsCall' \in [Callbacks -> ScriptCalls] /\ \A a \in Callbacks : wsCall'[a] = IF a = b THEN Outside ELSE wsCall[a]
  BY <1>1, OutsideIs, CallsGo
<1>4. \A a \in Callbacks : wsCall'[a] = wsCall[a] \/ wsCall'[a].pc = "idle"
  BY <1>3, OutsideIs
<1>5. \A a \in Callbacks : wsCall'[a].pc \in {"idle", "holds", "waiting"}
  <2>1. \A a \in Callbacks : wsCall'[a] \in ScriptCalls
    BY <1>3
  <2>2. \A a \in Callbacks : wsCall'[a].pc \notin {"lookup", "submit", "launched"}
    BY <1>3, OutsideIs, LaunchesAlone DEF InLaunch
  <2> QED
    BY <2>1, <2>2 DEF ScriptCalls
<1>6. ScriptTyped'
  BY <1>1, <1>2, <1>3 DEF ScriptTyped
<1>7. LinksStay
  BY <1>1, <1>4, <1>5, <1>6 DEF LinksStay, NamesChildren, childEnded
<1> QED
  BY <1>7, StayKeeps

\* The child of its link is given to the call, and the link is read back no more.
LEMMA GivesKeep ==
  ASSUME ScriptInv, NEW b \in Callbacks, InLaunch(b), NEW c \in Kid, LinkOf(c) = CallOf(b), Gives(b, c), Unlock(b),
         wsHost' \in Hosts, wsHost'.pc = "eval", wsHost'.persisted = wsHost.persisted \ {CallOf(b)},
         wsHost'.invocations = wsHost.invocations, wsHost'.todo = wsHost.todo, wsHost'.settled = wsHost.settled,
         \A m \in DOMAIN wsHost'.launched : wsHost'.launched[m] \in Kid,
         wsEvents' \in Seq(Nat), \A n \in DOMAIN wsEvents' : wsEvents'[n] \in Kid,
         \A m, n \in DOMAIN wsEvents' : m < n => wsEvents'[m] < wsEvents'[n],
         UNCHANGED <<wsChild, wsEvaluations>>
  PROVE  ScriptInv'
<1> DEFINE rec == [wsCall[b] EXCEPT !.pc = "holds", !.child = c]
<1>1. /\ ScriptTyped /\ NamesChildren /\ LaunchHeld /\ LinksNameChildren /\ GivenAreCalled /\ OneChildPerCall /\ LaunchesInOrder
      /\ wsHost \in Hosts /\ wsGiven \in Seq(Nat)
  BY DEF ScriptInv, ScriptTyped
<1>2. Kid = 1..Len(wsChild) /\ Kid = DOMAIN wsChild /\ Len(wsChild) \in Nat /\ \A d \in Kid : wsChild[d] \in ScriptChildren
  BY <1>1, KidIs DEF ScriptTyped, Kid
<1>3. c \in Nat /\ wsCall[b] \in ScriptCalls
  BY <1>1, <1>2 DEF ScriptTyped
<1>4. rec \in ScriptCalls /\ rec.pc = "holds" /\ rec.child = c
  BY <1>3 DEF ScriptCalls
<1>5. CallGoes(b, rec) /\ wsGiven' = Append(wsGiven, c)
  BY DEF Gives
<1> HIDE DEF rec
<1>6. wsCall' \in [Callbacks -> ScriptCalls] /\ \A a \in Callbacks : wsCall'[a] = IF a = b THEN rec ELSE wsCall[a]
  BY <1>1, <1>4, <1>5, CallsGo
<1>7. \A a \in Callbacks : ~InLaunch(a)'
  BY <1>4, <1>6, LaunchesAlone DEF InLaunch
<1>8. wsLaunch' = NoCallback
  BY LaunchesAlone DEF Unlock
<1>9. /\ wsGiven' \in Seq(Nat) /\ DOMAIN wsGiven = 1..Len(wsGiven) /\ DOMAIN wsGiven' = 1..(Len(wsGiven) + 1) /\ Len(wsGiven) \in Nat
      /\ \A n \in 1..(Len(wsGiven) + 1) : wsGiven'[n] = IF n \in DOMAIN wsGiven THEN wsGiven[n] ELSE c
  BY <1>1, <1>3, <1>5
<1>10. \A n \in DOMAIN wsGiven' : IF n \in DOMAIN wsGiven THEN wsGiven'[n] = wsGiven[n] ELSE wsGiven'[n] = c /\ n = Len(wsGiven) + 1
  BY <1>9
<1>11. Kid' = Kid /\ \A d \in Kid : LinkOf(d)' = LinkOf(d)
  BY DEF Kid, LinkOf
<1>12. ScriptTyped'
  BY <1>1, <1>6, <1>8, <1>9 DEF ScriptTyped
<1>13. NamesChildren'
  <2>1. \A a \in Callbacks : wsCall'[a].pc \in {"launched", "holds", "waiting"} => wsCall'[a].child \in Kid
    BY <1>1, <1>4, <1>6 DEF NamesChildren
  <2>2. \A n \in DOMAIN wsGiven' : wsGiven'[n] \in Kid
    BY <1>1, <1>10 DEF NamesChildren
  <2> QED
    BY <1>1, <1>11, <2>1, <2>2 DEF NamesChildren, childEnded
<1>14. LaunchHeld'
  BY <1>7 DEF LaunchHeld
<1>15. wsCall[b].node \in NodeKeys /\ wsHost.invocations[wsCall[b].node] = wsCall[b].index + 1 /\ wsCall[b].index \in Nat
       /\ wsChild[c].node = wsCall[b].node /\ wsChild[c].index = wsCall[b].index
       /\ wsChild[c].index < wsHost.invocations[wsChild[c].node]
  <2>1. wsCall[b].node \in NodeKeys /\ wsHost.invocations[wsCall[b].node] = wsCall[b].index + 1
    BY <1>1 DEF LaunchHeld
  <2>2. wsCall[b].index \in Nat
    BY <1>3 DEF ScriptCalls
  <2>3. wsChild[c].node = wsCall[b].node /\ wsChild[c].index = wsCall[b].index
    BY DEF LinkOf, CallOf
  <2> QED
    BY <2>1, <2>2, <2>3
<1>16. LinksNameChildren'
  <2>1. \A d, e \in Kid' : LinkOf(d)' = LinkOf(e)' => d = e
    BY <1>1, <1>11 DEF LinksNameChildren
  <2>2. ASSUME NEW d \in Kid
        PROVE  LinkOf(d)' \in wsHost'.persisted \/ wsChild'[d].index < wsHost'.invocations[wsChild'[d].node]
    <3>1. CASE d = c
      BY <1>15, <3>1
    <3>2. CASE d # c
      <4>1. LinkOf(d) # CallOf(b)
        BY <1>1, <3>2 DEF LinksNameChildren
      <4> QED
        BY <1>1, <1>11, <4>1 DEF LinksNameChildren
    <3> QED
      BY <3>1, <3>2
  <2> QED
    BY <1>1, <1>11, <2>1, <2>2 DEF LinksNameChildren
<1>17. GivenAreCalled'
  <2> SUFFICES ASSUME NEW n \in DOMAIN wsGiven', NEW d \in Kid, wsGiven'[n] = d
               PROVE  LinkOf(d) \notin wsHost'.persisted /\ wsChild[d].index < wsHost.invocations[wsChild[d].node]
    BY <1>7, <1>13, <1>11 DEF GivenAreCalled, NamesChildren, LinkOf
  <2>1. CASE n \in DOMAIN wsGiven
    <3>1. wsGiven[n] = d
      BY <1>10, <2>1
    <3> QED
      BY <1>1, <2>1, <3>1 DEF GivenAreCalled
  <2>2. CASE n \notin DOMAIN wsGiven
    <3>1. d = c
      BY <1>10, <2>2
    <3> QED
      BY <1>15, <3>1
  <2> QED
    BY <2>1, <2>2
<1>18. OneChildPerCall'
  <2>1. \A n \in DOMAIN wsGiven : wsGiven[n] # c
    BY <1>1 DEF GivenAreCalled
  <2>2. ASSUME NEW m \in DOMAIN wsGiven', NEW n \in DOMAIN wsGiven', wsGiven'[m] = wsGiven'[n] PROVE m = n
    <3>1. CASE m \in DOMAIN wsGiven /\ n \in DOMAIN wsGiven
      BY <1>1, <1>10, <2>2, <3>1 DEF OneChildPerCall
    <3>2. CASE ~(m \in DOMAIN wsGiven /\ n \in DOMAIN wsGiven)
      BY <1>10, <2>1, <2>2, <3>2
    <3> QED
      BY <3>1, <3>2
  <2> QED
    BY <2>2 DEF OneChildPerCall
<1>19. LaunchesInOrder'
  BY <1>1 DEF LaunchesInOrder
<1>20. LeftIsTodo' /\ LaunchedAreSettled'
  BY DEF LeftIsTodo, LaunchedAreSettled
<1> QED
  BY <1>12, <1>13, <1>14, <1>16, <1>17, <1>18, <1>19, <1>20 DEF ScriptInv

\* A link is read back once; the call of one that is not persisted goes on to submit.
LEMMA PersistedKeeps ==
  ASSUME ScriptInv, NEW b \in Callbacks, persistedTask(b)
  PROVE  ScriptInv'
<1> DEFINE key == <<wsCall[b].node, wsCall[b].index>>
           rec == [wsCall[b] EXCEPT !.pc = "submit"]
<1>1. /\ ScriptTyped /\ NamesChildren /\ LaunchHeld /\ LinksNameChildren /\ GivenAreCalled /\ OneChildPerCall /\ LaunchesInOrder
      /\ wsHost \in Hosts /\ wsCall[b] \in ScriptCalls /\ Kid = DOMAIN wsChild
  BY DEF ScriptInv, ScriptTyped, Kid
<1>2. wsHost.pc = "eval" /\ wsCall[b].pc = "lookup" /\ InLaunch(b) /\ UNCHANGED <<wsChild, wsEvents, wsEvaluations>> /\ key = CallOf(b)
  BY DEF persistedTask, Evaluating, InLaunch, CallOf
<1>3. CASE /\ \E c \in Linked(key[1], key[2]) : Gives(b, c)
           /\ wsHost' = [wsHost EXCEPT !.persisted = @ \ {key}] /\ Unlock(b)
  <2>1. PICK c \in Linked(key[1], key[2]) : Gives(b, c)
    BY <1>3
  <2>2. c \in Kid /\ LinkOf(c) = CallOf(b)
    BY <1>1 DEF Linked, LinkOf, CallOf
  <2> DEFINE left == wsHost.persisted \ {CallOf(b)}
  <2>3. left \in SUBSET (NodeKeys \X Nat)
    BY <1>1 DEF Hosts
  <2> HIDE DEF left
  <2>4. wsHost' = [wsHost EXCEPT !.persisted = left]
    BY <1>2, <1>3 DEF left
  <2>5. /\ wsHost' \in Hosts /\ wsHost'.pc = "eval" /\ wsHost'.persisted = left
        /\ wsHost'.invocations = wsHost.invocations /\ wsHost'.todo = wsHost.todo /\ wsHost'.settled = wsHost.settled
        /\ wsHost'.launched = wsHost.launched
    BY <1>1, <1>2, <2>3, <2>4 DEF Hosts
  <2>6. wsEvents' \in Seq(Nat) /\ (\A n \in DOMAIN wsEvents' : wsEvents'[n] \in Kid)
        /\ \A m, n \in DOMAIN wsEvents' : m < n => wsEvents'[m] < wsEvents'[n]
    BY <1>1, <1>2 DEF ScriptTyped, NamesChildren, LaunchesInOrder
  <2>7. \A m \in DOMAIN wsHost'.launched : wsHost'.launched[m] \in Kid
    BY <1>1, <2>5 DEF NamesChildren
  <2> QED
    BY <1>2, <1>3, <2>1, <2>2, <2>5, <2>6, <2>7, GivesKeep DEF left
<1>4. CASE FailsCall(b) /\ UNCHANGED wsHost /\ Unlock(b)
  <2>1. CallGoes(b, Outside) /\ UNCHANGED <<wsHost, wsChild, wsGiven, wsEvents, wsEvaluations>> /\ Unlock(b)
    BY <1>2, <1>4 DEF FailsCall
  <2>2. \A m \in DOMAIN wsHost'.launched : wsHost'.launched[m] \in DOMAIN wsChild
    BY <1>1, <2>1 DEF NamesChildren
  <2> QED
    BY <1>1, <1>2, <2>1, <2>2, CallFails
<1>5. CASE key \notin wsHost.persisted /\ CallGoes(b, rec) /\ UNCHANGED <<wsHost, wsLaunch, wsGiven>>
  <2>1. rec \in ScriptCalls /\ rec.pc = "submit" /\ rec.node = wsCall[b].node /\ rec.index = wsCall[b].index
    BY <1>1 DEF ScriptCalls
  <2> HIDE DEF rec
  <2>2. wsCall' \in [Callbacks -> ScriptCalls] /\ \A a \in Callbacks : wsCall'[a] = IF a = b THEN rec ELSE wsCall[a]
    BY <1>1, <1>5, <2>1, CallsGo
  <2>3. ScriptTyped'
    BY <1>1, <1>2, <1>5, <2>2 DEF ScriptTyped
  <2>4. Kid' = Kid /\ \A d \in Kid : LinkOf(d)' = LinkOf(d)
    BY <1>2 DEF Kid, LinkOf
  <2>5. \A a \in Callbacks : (InLaunch(a)' => a = b) /\ (InLaunch(a)' => InLaunch(a)) /\ CallOf(a)' = CallOf(a)
    BY <1>2, <2>1, <2>2, LaunchesAlone DEF InLaunch, CallOf
  <2>6. NamesChildren'
    <3>1. \A a \in Callbacks : wsCall'[a].pc \in {"launched", "holds", "waiting"} => wsCall'[a].child \in Kid
      BY <1>1, <2>1, <2>2 DEF NamesChildren
    <3> QED
      BY <1>1, <1>2, <1>5, <2>4, <3>1 DEF NamesChildren, childEnded
  <2>7. LaunchHeld'
    <3>1. /\ wsLaunch = b /\ wsCall[b].node \in NodeKeys /\ wsHost.invocations[wsCall[b].node] = wsCall[b].index + 1
          /\ \A c \in Kid : LinkOf(c) = CallOf(b) => CallOf(b) \in wsHost.persisted
      BY <1>1, <1>2 DEF LaunchHeld
    <3>2. wsCall'[b] = rec
      BY <2>2
    <3> QED
      BY <1>2, <1>5, <2>1, <2>4, <2>5, <3>1, <3>2 DEF LaunchHeld
  <2>8. LinksNameChildren'
    BY <1>1, <1>2, <1>5, <2>4 DEF LinksNameChildren
  <2>9. GivenAreCalled'
    <3>1. \A n \in DOMAIN wsGiven : wsGiven[n] \in Kid
      BY <1>1 DEF NamesChildren
    <3>2. wsGiven' = wsGiven /\ wsChild' = wsChild /\ wsHost' = wsHost
      BY <1>2, <1>5
    <3> QED
      BY <1>1, <2>5, <3>1, <3>2 DEF GivenAreCalled, LinkOf
  <2>10. OneChildPerCall' /\ LaunchesInOrder'
    BY <1>1, <1>2, <1>5 DEF OneChildPerCall, LaunchesInOrder
  <2>11. LeftIsTodo' /\ LaunchedAreSettled'
    BY <1>2, <1>5 DEF LeftIsTodo, LaunchedAreSettled
  <2> QED
    BY <2>3, <2>6, <2>7, <2>8, <2>9, <2>10, <2>11 DEF ScriptInv
<1> QED
  BY <1>3, <1>4, <1>5 DEF persistedTask

\* A child that is linked is the last: its call is the only one that launches.
LEMMA LinkKeeps ==
  ASSUME ScriptInv, NEW b \in Callbacks, wsCall[b].pc = "submit", wsHost.pc = "eval",
         NEW kid \in ScriptChildren, wsChild' = Append(wsChild, kid),
         kid.node = wsCall[b].node, kid.index = wsCall[b].index, kid.by = wsEvaluations,
         UNCHANGED <<wsHost, wsGiven, wsEvents, wsEvaluations>>,
         NEW rec \in ScriptCalls, CallGoes(b, rec),
         \/ /\ rec.pc = "launched" /\ rec.node = wsCall[b].node /\ rec.index = wsCall[b].index
            /\ rec.child = Len(wsChild) + 1 /\ wsLaunch' = wsLaunch
         \/ rec.pc = "idle" /\ Unlock(b)
  PROVE  ScriptInv'
<1>0. PICK k \in Nat : k = Len(wsChild) + 1
  BY DEF ScriptInv, ScriptTyped
<1>1. /\ ScriptTyped /\ NamesChildren /\ LaunchHeld /\ LinksNameChildren /\ GivenAreCalled /\ OneChildPerCall /\ LaunchesInOrder
      /\ wsHost \in Hosts /\ wsCall[b] \in ScriptCalls /\ InLaunch(b) /\ wsEvaluations \in Nat
  BY DEF ScriptInv, ScriptTyped, InLaunch
<1>2. Kid = 1..Len(wsChild) /\ Kid = DOMAIN wsChild /\ Len(wsChild) \in Nat /\ \A d \in Kid : wsChild[d] \in ScriptChildren
  BY <1>1, KidIs DEF ScriptTyped, Kid
<1>3. /\ wsChild' \in Seq(ScriptChildren) /\ Len(wsChild') = k /\ k \in Nat /\ DOMAIN wsChild' = 1..k /\ wsChild'[k] = kid
      /\ \A d \in Kid : wsChild'[d] = wsChild[d]
  BY <1>0, <1>1, <1>2 DEF ScriptTyped
<1>4. Kid' = Kid \cup {k} /\ k \notin Kid /\ k \in Kid' /\ Kid \subseteq Kid' /\ \A d \in Kid : d < k
  BY <1>0, <1>2, <1>3 DEF Kid
<1>5. LinkOf(k)' = CallOf(b) /\ \A d \in Kid : LinkOf(d)' = LinkOf(d)
  BY <1>3 DEF LinkOf, CallOf
<1>6. wsCall' \in [Callbacks -> ScriptCalls] /\ \A a \in Callbacks : wsCall'[a] = IF a = b THEN rec ELSE wsCall[a]
  BY <1>1, CallsGo
<1>7. /\ wsLaunch = b /\ wsCall[b].node \in NodeKeys /\ wsHost.invocations[wsCall[b].node] = wsCall[b].index + 1
      /\ CallOf(b) \notin wsHost.persisted /\ \A d \in Kid : LinkOf(d) # CallOf(b)
  BY <1>1 DEF LaunchHeld
<1>8. \A a \in Callbacks : InLaunch(a)' => a = b /\ rec.pc = "launched" /\ CallOf(a)' = CallOf(b)
  BY <1>1, <1>6, LaunchesAlone DEF InLaunch, CallOf
<1>9. wsLaunch' = b \/ wsLaunch' = NoCallback
  BY <1>7 DEF Unlock
<1>10. ScriptTyped'
  BY <1>1, <1>3, <1>6, <1>9 DEF ScriptTyped
<1>11. NamesChildren'
  <2>1. \A a \in Callbacks : wsCall'[a].pc \in {"launched", "holds", "waiting"} => wsCall'[a].child \in Kid'
    BY <1>0, <1>1, <1>4, <1>6 DEF NamesChildren
  <2>2. \A c \in wsHost.settled : c \in Kid' /\ childEnded(c)'
    BY <1>1, <1>3, <1>4 DEF NamesChildren, childEnded
  <2> QED
    BY <1>1, <1>4, <2>1, <2>2 DEF NamesChildren
<1>12. LaunchHeld'
  <2>1. \A n \in DOMAIN wsEvents : wsEvents[n] < k
    BY <1>1, <1>4 DEF NamesChildren
  <2> SUFFICES ASSUME NEW a \in Callbacks, InLaunch(a)'
               PROVE  /\ wsLaunch' = a /\ wsCall'[a].node \in NodeKeys /\ wsHost.invocations[wsCall'[a].node] = wsCall'[a].index + 1
                      /\ wsCall'[a].pc = "launched" /\ CallOf(a)' \notin wsHost.persisted
                      /\ wsCall'[a].child = Len(wsChild') /\ LinkOf(k)' = CallOf(a)'
                      /\ \A n \in DOMAIN wsEvents : wsEvents[n] < wsCall'[a].child
    BY <1>3 DEF LaunchHeld, LinkOf
  <2>2. a = b /\ rec.pc = "launched" /\ CallOf(a)' = CallOf(b) /\ wsCall'[a] = rec
    BY <1>6, <1>8
  <2>3. rec.node = wsCall[b].node /\ rec.index = wsCall[b].index /\ rec.child = k /\ wsLaunch' = wsLaunch
    BY <1>0, <2>2
  <2> QED
    BY <1>3, <1>5, <1>7, <2>1, <2>2, <2>3
<1>13. wsCall[b].index \in Nat /\ \A d \in Kid : wsChild[d].index \in Nat /\ wsChild[d].node \in NodeKeys
  BY <1>1, <1>2 DEF ScriptCalls, ScriptChildren
<1>14. LinksNameChildren'
  <2>1. \A c, d \in Kid' : LinkOf(c)' = LinkOf(d)' => c = d
    <3>1. \A c, d \in Kid : LinkOf(c)' = LinkOf(d)' => c = d
      BY <1>1, <1>5 DEF LinksNameChildren
    <3>2. \A d \in Kid : LinkOf(d)' # LinkOf(k)'
      BY <1>5, <1>7
    <3> QED
      BY <1>4, <3>1, <3>2
  <2>2. ASSUME NEW c \in Kid'
        PROVE  /\ LinkOf(c)' \in wsHost'.persisted \/ wsChild'[c].index < wsHost'.invocations[wsChild'[c].node]
               /\ wsChild'[c].by <= wsEvaluations'
               /\ wsChild'[c].by = wsEvaluations' => wsChild'[c].index < wsHost'.invocations[wsChild'[c].node]
    <3>1. CASE c = k
      BY <1>1, <1>3, <1>7, <1>13, <3>1
    <3>2. CASE c # k
      <4>1. c \in Kid
        BY <1>4, <3>2
      <4> QED
        BY <1>1, <1>3, <1>5, <4>1 DEF LinksNameChildren
    <3> QED
      BY <3>1, <3>2
  <2> QED
    BY <2>1, <2>2 DEF LinksNameChildren
<1>15. GivenAreCalled'
  <2>1. \A n \in DOMAIN wsGiven : wsGiven[n] \in Kid
    BY <1>1 DEF NamesChildren
  <2> SUFFICES ASSUME NEW n \in DOMAIN wsGiven
               PROVE  /\ LinkOf(wsGiven[n]) \notin wsHost.persisted
                      /\ wsChild[wsGiven[n]].index < wsHost.invocations[wsChild[wsGiven[n]].node]
                      /\ \A a \in Callbacks : InLaunch(a)' => LinkOf(wsGiven[n]) # CallOf(a)'
    BY <1>3, <2>1 DEF GivenAreCalled, LinkOf
  <2> QED
    BY <1>1, <1>8 DEF GivenAreCalled
<1>16. OneChildPerCall'
  BY <1>1 DEF OneChildPerCall
<1>17. LaunchesInOrder'
  <2>1. ASSUME NEW c \in Kid', NEW d \in Kid', c < d, wsChild'[c].node = wsChild'[d].node, wsChild'[c].by = wsChild'[d].by
        PROVE  wsChild'[c].index < wsChild'[d].index
    <3>1. c \in Kid
      BY <1>2, <1>4, <2>1
    <3>2. CASE d \in Kid
      BY <1>1, <1>2, <1>3, <2>1, <3>1, <3>2 DEF LaunchesInOrder
    <3>3. CASE d = k
      <4>1. wsChild[c].node = wsCall[b].node /\ wsChild[c].by = wsEvaluations
        BY <1>3, <2>1, <3>1, <3>3
      <4>2. wsChild[c].index < wsCall[b].index + 1
        BY <1>1, <1>7, <3>1, <4>1 DEF LinksNameChildren
      <4>3. wsChild[c].index # wsCall[b].index
        BY <1>7, <3>1, <4>1 DEF LinkOf, CallOf
      <4>4. wsChild[c].index < wsCall[b].index
        BY <1>13, <3>1, <4>2, <4>3
      <4> QED
        BY <1>3, <3>1, <3>3, <4>4
    <3> QED
      BY <1>4, <3>2, <3>3
  <2>2. \A m, n \in DOMAIN wsEvents : m < n => wsEvents[m] < wsEvents[n]
    BY <1>1 DEF LaunchesInOrder
  <2> QED
    BY <2>1, <2>2 DEF LaunchesInOrder, Kid
<1>18. LeftIsTodo' /\ LaunchedAreSettled'
  BY DEF LeftIsTodo, LaunchedAreSettled
<1> QED
  BY <1>10, <1>11, <1>12, <1>14, <1>15, <1>16, <1>17, <1>18 DEF ScriptInv

\* A submission links a child of its call, or none.
LEMMA SubmitChildKeeps ==
  ASSUME ScriptInv, NEW b \in Callbacks, SubmitChild(b)
  PROVE  ScriptInv'
<1> DEFINE linked == Linked(wsCall[b].node, wsCall[b].index)
           kid(state) == [node |-> wsCall[b].node, index |-> wsCall[b].index, state |-> state, by |-> wsEvaluations]
           k == Len(wsChild) + 1
           rec == [wsCall[b] EXCEPT !.pc = "launched", !.child = k]
<1>1. /\ ScriptTyped /\ NamesChildren /\ LaunchHeld /\ wsCall[b] \in ScriptCalls /\ wsEvaluations \in Nat
      /\ wsHost \in Hosts /\ wsHost.pc = "eval" /\ wsCall[b].pc = "submit" /\ InLaunch(b) /\ Len(wsChild) \in Nat
      /\ UNCHANGED <<wsHost, wsEvents, wsEvaluations>>
  BY DEF SubmitChild, Evaluating, ScriptInv, ScriptTyped, InLaunch
<1>2. linked = {}
  BY <1>1 DEF LaunchHeld, Linked, LinkOf, CallOf, Kid
<1>3. wsCall[b].node \in NodeKeys /\ wsCall[b].index \in Nat
  BY <1>1 DEF LaunchHeld, ScriptCalls
<1>4. /\ kid("active") \in ScriptChildren /\ kid("active").node = wsCall[b].node /\ kid("active").index = wsCall[b].index
      /\ kid("active").by = wsEvaluations
      /\ kid("ended") \in ScriptChildren /\ kid("ended").node = wsCall[b].node /\ kid("ended").index = wsCall[b].index
      /\ kid("ended").by = wsEvaluations
  BY <1>1, <1>3 DEF ScriptChildren
<1>5. /\ rec \in ScriptCalls /\ rec.pc = "launched" /\ rec.node = wsCall[b].node /\ rec.index = wsCall[b].index /\ rec.child = k
  <2>1. k \in Nat
    BY <1>1
  <2> HIDE DEF k
  <2> QED
    BY <1>1, <2>1 DEF ScriptCalls
<1>6. CASE /\ wsChild' = (IF linked = {} THEN Append(wsChild, kid("active")) ELSE wsChild)
           /\ CallGoes(b, [wsCall[b] EXCEPT !.pc = "launched",
                       !.child = IF linked = {} THEN Len(wsChild) + 1 ELSE CHOOSE c \in linked : TRUE])
           /\ UNCHANGED <<wsLaunch, wsGiven>>
  <2>1. wsChild' = Append(wsChild, kid("active")) /\ CallGoes(b, rec) /\ UNCHANGED <<wsLaunch, wsGiven>>
    BY <1>2, <1>6
  <2> HIDE DEF rec, kid
  <2> QED
    BY <1>1, <1>4, <1>5, <2>1, LinkKeeps
<1>7. CASE wsChild' \in {wsChild, Append(wsChild, kid("ended"))} /\ FailsCall(b) /\ Unlock(b)
  <2>1. CallGoes(b, Outside) /\ wsGiven' = wsGiven /\ Unlock(b)
    BY <1>7 DEF FailsCall
  <2> HIDE DEF rec, kid
  <2>2. CASE wsChild' = wsChild
    <3>1. \A m \in DOMAIN wsHost'.launched : wsHost'.launched[m] \in DOMAIN wsChild
      BY <1>1 DEF NamesChildren, Kid
    <3> QED
      BY <1>1, <2>1, <2>2, <3>1, CallFails
  <2>3. CASE wsChild' = Append(wsChild, kid("ended"))
    BY <1>1, <1>4, <2>1, <2>3, OutsideIs, LinkKeeps
  <2> QED
    BY <1>7, <2>2, <2>3
<1> QED
  BY <1>6, <1>7 DEF SubmitChild

\* A child is announced after those linked before it.
LEMMA PublishLaunchKeeps ==
  ASSUME ScriptInv, NEW b \in Callbacks, publishLaunch(b)
  PROVE  ScriptInv'
<1> DEFINE c == wsCall[b].child
           more == Append(wsHost.launched, c)
<1>1. /\ ScriptTyped /\ NamesChildren /\ LaunchHeld /\ LaunchesInOrder /\ wsCall[b] \in ScriptCalls
      /\ wsHost \in Hosts /\ wsHost.pc = "eval" /\ wsCall[b].pc = "launched" /\ InLaunch(b) /\ Kid = DOMAIN wsChild
      /\ UNCHANGED <<wsChild, wsEvaluations>> /\ Unlock(b) /\ wsHost' = [wsHost EXCEPT !.launched = more]
  BY DEF publishLaunch, Evaluating, ScriptInv, ScriptTyped, InLaunch, Kid
<1>2. c \in Kid /\ c \in Nat /\ LinkOf(c) = CallOf(b) /\ CallOf(b) \notin wsHost.persisted /\ \A n \in DOMAIN wsEvents : wsEvents[n] < c
  BY <1>1 DEF NamesChildren, LaunchHeld, ScriptCalls
<1>3. wsHost.launched \in Seq(Nat) /\ wsEvents \in Seq(Nat)
  BY <1>1 DEF Hosts, ScriptTyped
<1> HIDE DEF c
<1>4. more \in Seq(Nat) /\ \A m \in DOMAIN more : more[m] = c \/ \E n \in DOMAIN wsHost.launched : more[m] = wsHost.launched[n]
  BY <1>2, <1>3
<1> HIDE DEF more
<1>5. /\ wsHost' \in Hosts /\ wsHost'.pc = "eval" /\ wsHost'.persisted = wsHost.persisted
      /\ wsHost'.invocations = wsHost.invocations /\ wsHost'.todo = wsHost.todo /\ wsHost'.settled = wsHost.settled
      /\ wsHost'.launched = more
  BY <1>1, <1>4 DEF Hosts
<1>6. \A m \in DOMAIN wsHost'.launched : wsHost'.launched[m] \in Kid
  BY <1>1, <1>2, <1>4, <1>5 DEF NamesChildren
<1>7. CASE wsEvents' = Append(wsEvents, c) /\ Gives(b, c)
  <2>1. /\ wsEvents' \in Seq(Nat) /\ DOMAIN wsEvents' = 1..(Len(wsEvents) + 1) /\ DOMAIN wsEvents = 1..Len(wsEvents) /\ Len(wsEvents) \in Nat
        /\ \A n \in DOMAIN wsEvents' : IF n \in DOMAIN wsEvents THEN wsEvents'[n] = wsEvents[n]
                                       ELSE wsEvents'[n] = c /\ n = Len(wsEvents) + 1
    BY <1>2, <1>3, <1>7
  <2>2. \A n \in DOMAIN wsEvents' : wsEvents'[n] \in Kid
    BY <1>1, <1>2, <2>1 DEF NamesChildren
  <2>3. ASSUME NEW m \in DOMAIN wsEvents', NEW n \in DOMAIN wsEvents', m < n PROVE wsEvents'[m] < wsEvents'[n]
    <3>1. m \in DOMAIN wsEvents
      BY <2>1, <2>3
    <3>2. CASE n \in DOMAIN wsEvents
      BY <1>1, <2>1, <2>3, <3>1, <3>2 DEF LaunchesInOrder
    <3>3. CASE n \notin DOMAIN wsEvents
      BY <1>2, <2>1, <3>1, <3>3
    <3> QED
      BY <3>2, <3>3
  <2>4. wsHost'.persisted = wsHost.persisted \ {CallOf(b)}
    BY <1>2, <1>5
  <2> QED
    BY <1>1, <1>2, <1>5, <1>6, <1>7, <2>1, <2>2, <2>3, <2>4, GivesKeep
<1>8. CASE UNCHANGED wsEvents /\ FailsCall(b)
  <2>1. CallGoes(b, Outside) /\ UNCHANGED <<wsGiven, wsEvents>>
    BY <1>8 DEF FailsCall
  <2> QED
    BY <1>1, <1>5, <1>6, <2>1, CallFails
<1> QED
  BY <1>7, <1>8 DEF publishLaunch, c

\* Every step of a script and its host keeps the invariant.
LEMMA ScriptInvNext == ScriptInv /\ [ScriptNext]_wsVars => ScriptInv'
<1> SUFFICES ASSUME ScriptInv, [ScriptNext]_wsVars PROVE ScriptInv'
  OBVIOUS
<1>1. CASE ScriptNext
  BY <1>1, AgentCallKeeps, PersistedKeeps, SubmitChildKeeps, PublishLaunchKeeps, WaitsKeep, CancelCallKeeps, ChildEndKeeps,
     ReturnKeeps, CancelNextKeeps, SettleNextKeeps, ResultsKeep, DeathOfHost, AgainKeeps DEF ScriptNext
<1>2. CASE UNCHANGED wsVars
  BY <1>2 DEF wsVars, ScriptInv, ScriptTyped, NamesChildren, LaunchHeld, LinksNameChildren, GivenAreCalled, LeftIsTodo,
     OneChildPerCall, LaunchesInOrder, LaunchedAreSettled, Kid, LinkOf, CallOf, InLaunch, childEnded
<1> QED
  BY <1>1, <1>2

--------------------------------------------------------------------------------
(* The emitter of a script's progress: the event that is with the sink was          *)
(* validated against what the watchers last saw, and holds the lock.                *)

SeenStates == States \cup {""}
Emissions == [pc : {"idle", "sink"}, event : Announcements \cup {Nothing}, number : Nat]

AnnounceTyped ==
    /\ spEmitter \in [phases : [Phases -> SeenStates], items : [WorkItems -> SeenStates], count : Nat]
    /\ spLock \in Emitting \cup {Unheld} /\ spCall \in [Emitting -> Emissions]
    /\ spSent \in Seq([event : Announcements, number : Nat])

\* The event with the sink is valid, has the next number and holds the lock.
InSinkIsNext ==
    /\ spEmitter.count = Len(spSent)
    /\ \A b \in Emitting : spCall[b].pc = "sink" =>
          /\ spLock = b /\ spCall[b].event \in Announcements /\ validates(spCall[b].event)
          /\ spCall[b].number = Len(spSent) + 1

\* A final state that was announced is the state still, and a phase with a state was announced.
FinalIsKept ==
    /\ \A n \in DOMAIN spSent : spSent[n].event.state \in Final =>
          /\ spSent[n].event.kind = "phase" => spEmitter.phases["p"] \in Final
          /\ spSent[n].event.kind = "item" => spEmitter.items["i"] \in Final
    /\ spEmitter.phases["p"] # "" => \E n \in DOMAIN spSent : spSent[n].event.kind = "phase"

\* The state a phase was last announced in.
LatestOf(s) == CHOOSE n \in s : \A m \in s : m <= n
PhasesSaid == {n \in DOMAIN spSent : spSent[n].event.kind = "phase" /\ spSent[n].event.id = "p"}
Judged == spEmitter.phases["p"] = IF PhasesSaid = {} THEN "" ELSE spSent[LatestOf(PhasesSaid)].event.state

AnnounceInv == AnnounceTyped /\ InSinkIsNext /\ FinalIsKept /\ WatchersCanFollow /\ JudgedAsSeen

\* Indices that are not none have a last one.
LEMMA MaxOfSome == ASSUME NEW k \in Nat, NEW s \in SUBSET (1..k), s # {} PROVE \E n \in s : \A m \in s : m <= n
<1> DEFINE T == {n \in Nat : \A r \in SUBSET (1..n) : r # {} => \E i \in r : \A j \in r : j <= i}
<1>1. 0 \in T
  <2>1. SUBSET (1..0) = {{}}
    OBVIOUS
  <2> QED
    BY <2>1
<1>2. ASSUME NEW n \in Nat, n \in T PROVE n + 1 \in T
  <2> SUFFICES ASSUME NEW r \in SUBSET (1..(n + 1)), r # {} PROVE \E i \in r : \A j \in r : j <= i
    OBVIOUS
  <2>1. CASE n + 1 \in r
    BY <2>1
  <2>2. CASE n + 1 \notin r
    <3>1. r \in SUBSET (1..n)
      BY <2>2
    <3> QED
      BY <1>2, <3>1
  <2> QED
    BY <2>1, <2>2
<1> HIDE DEF T
<1>3. Nat \subseteq T
  BY <1>1, <1>2, NatsByInduction
<1> QED
  BY <1>3 DEF T

\* What announcements are made of.
LEMMA AnnouncementIs ==
  ASSUME NEW e \in Announcements
  PROVE  /\ e.kind \in {"phase", "item", "log", "event"} /\ e.state \in SeenStates
         /\ e.kind = "phase" => e.id = "p" /\ e.phase = "" /\ e.state \in States
         /\ e.kind = "item" => e.id = "i" /\ e.phase \in {"p", ""} /\ e.state \in States
         /\ e.kind \in {"log", "event"} => e.phase = "" /\ e.state = ""
<1> USE DEF SeenStates, Phases, WorkItems
<1>1. CASE e \in [kind : {"phase"}, id : Phases, phase : {""}, state : States]
  <2>1. e.kind = "phase" /\ e.id = "p" /\ e.phase = "" /\ e.state \in States
    BY <1>1
  <2> QED
    BY <2>1
<1>2. CASE e \in [kind : {"item"}, id : WorkItems, phase : Phases \cup {""}, state : States]
  <2>1. e.kind = "item" /\ e.id = "i" /\ e.phase \in {"p", ""} /\ e.state \in States
    BY <1>2
  <2> QED
    BY <2>1
<1>3. CASE e \in [kind : {"log", "event"}, id : {""}, phase : {""}, state : {""}]
  <2>1. e.kind \in {"log", "event"} /\ e.phase = "" /\ e.state = ""
    BY <1>3
  <2> QED
    BY <2>1
<1> QED
  BY <1>1, <1>2, <1>3 DEF Announcements

\* What the state of the phase is judged by.
LEMMA JudgedIs == JudgedAsSeen <=> Judged
<1> DEFINE said(p) == {n \in DOMAIN spSent : spSent[n].event.kind = "phase" /\ spSent[n].event.id = p}
           judged(p) == spEmitter.phases[p] = IF said(p) = {} THEN ""
                                              ELSE spSent[CHOOSE n \in said(p) : \A m \in said(p) : m <= n].event.state
<1>1. JudgedAsSeen <=> \A p \in Phases : judged(p)
  BY Zenon DEF JudgedAsSeen
<1>2. judged("p") <=> Judged
  BY Zenon DEF Judged, PhasesSaid, LatestOf
<1> HIDE DEF judged
<1>3. (\A p \in Phases : judged(p)) <=> judged("p")
  BY DEF Phases
<1> QED
  BY <1>1, <1>2, <1>3

\* Nothing is announced yet.
LEMMA AnnounceInvInit == AnnounceInit => AnnounceInv
<1> SUFFICES ASSUME AnnounceInit PROVE AnnounceInv
  OBVIOUS
<1>1. Quiet \in Emissions /\ Quiet.pc = "idle"
  BY DEF Quiet, Emissions
<1>2. AnnounceTyped
  <2> DEFINE start == [phases |-> [p \in Phases |-> ""], items |-> [i \in WorkItems |-> ""], count |-> 0]
  <2>1. start \in [phases : [Phases -> SeenStates], items : [WorkItems -> SeenStates], count : Nat]
    BY DEF SeenStates
  <2> HIDE DEF start
  <2>2. spEmitter = start
    BY DEF AnnounceInit, start
  <2> QED
    <3>1. spCall = [b \in Emitting |-> Quiet] /\ spLock = Unheld /\ spSent = <<>>
      BY DEF AnnounceInit
    <3>2. spCall \in [Emitting -> Emissions] /\ spSent \in Seq([event : Announcements, number : Nat])
      BY <1>1, <3>1
    <3> QED
      BY <2>1, <2>2, <3>1, <3>2 DEF AnnounceTyped
<1>3. spEmitter.count = 0 /\ spEmitter.phases["p"] = ""
  BY DEF AnnounceInit, Phases
<1>4. Len(spSent) = 0 /\ DOMAIN spSent = {}
  <2>1. spSent = <<>>
    BY DEF AnnounceInit
  <2> QED
    BY <2>1
<1>5. InSinkIsNext
  BY <1>1, <1>3, <1>4 DEF AnnounceInit, InSinkIsNext
<1>6. FinalIsKept
  BY <1>3, <1>4 DEF FinalIsKept
<1>7. WatchersCanFollow
  BY <1>4 DEF WatchersCanFollow
<1>8. JudgedAsSeen
  BY <1>3, <1>4, JudgedIs DEF Judged, PhasesSaid
<1> QED
  BY <1>2, <1>5, <1>6, <1>7, <1>8 DEF AnnounceInv

\* What was seen is what was sent.
LEMMA SeenKept ==
  ASSUME FinalIsKept, WatchersCanFollow, JudgedAsSeen, UNCHANGED <<spEmitter, spSent>>
  PROVE  FinalIsKept' /\ WatchersCanFollow' /\ JudgedAsSeen'
<1>1. FinalIsKept'
  BY DEF FinalIsKept
<1>2. WatchersCanFollow'
  BY DEF WatchersCanFollow
<1>3. PhasesSaid' = PhasesSaid
  BY DEF PhasesSaid
<1>4. Judged
  BY JudgedIs
<1>5. Judged'
  BY <1>3, <1>4 DEF Judged, LatestOf
<1>6. JudgedAsSeen' <=> Judged'
  BY JudgedIs, PTL
<1> QED
  BY <1>1, <1>2, <1>5, <1>6

\* An event that is valid is numbered under the lock.
LEMMA EmitKeeps ==
  ASSUME AnnounceInv, NEW b \in Emitting, NEW event \in Announcements, emitEvent(b, event)
  PROVE  AnnounceInv'
<1> DEFINE call == [pc |-> "sink", event |-> event, number |-> spEmitter.count + 1]
<1>1. AnnounceTyped /\ InSinkIsNext /\ FinalIsKept /\ WatchersCanFollow /\ JudgedAsSeen
  BY DEF AnnounceInv
<1>2. spEmitter.count = Len(spSent) /\ Len(spSent) \in Nat
  BY <1>1 DEF AnnounceTyped, InSinkIsNext
<1>3. call \in Emissions /\ call.pc = "sink" /\ call.event = event /\ call.number = Len(spSent) + 1
  BY <1>2 DEF Emissions
<1> HIDE DEF call
<1>4. spCall' = [spCall EXCEPT ![b] = call] /\ spLock = Unheld /\ spLock' = b /\ validates(event)
      /\ UNCHANGED <<spEmitter, spSent>>
  BY DEF emitEvent, call
<1>5. AnnounceTyped'
  BY <1>1, <1>3, <1>4 DEF AnnounceTyped
<1>6. InSinkIsNext'
  <2>1. \A a \in Emitting : spCall[a].pc # "sink"
    BY <1>1, <1>4, ProgressContract DEF InSinkIsNext
  <2>2. \A a \in Emitting : spCall'[a] = IF a = b THEN call ELSE spCall[a]
    BY <1>1, <1>4 DEF AnnounceTyped
  <2>3. validates(event)'
    BY <1>4 DEF validates
  <2>4. ASSUME NEW a \in Emitting, spCall'[a].pc = "sink" PROVE a = b /\ spCall'[a] = call
    BY <2>1, <2>2, <2>4
  <2> QED
    BY <1>2, <1>3, <1>4, <2>3, <2>4 DEF InSinkIsNext
<1>7. FinalIsKept' /\ WatchersCanFollow' /\ JudgedAsSeen'
  BY <1>1, <1>4, SeenKept
<1> QED
  BY <1>5, <1>6, <1>7 DEF AnnounceInv

\* The call that was with the sink is over: no other is.
LEMMA SinkIsOver ==
  ASSUME AnnounceInv, NEW b \in Emitting, spCall[b].pc = "sink", EmitReturns(b)
  PROVE  /\ spCall' \in [Emitting -> Emissions] /\ spLock' \in Emitting \cup {Unheld}
         /\ \A a \in Emitting : spCall'[a].pc # "sink"
<1>1. Quiet \in Emissions /\ Quiet.pc = "idle"
  BY DEF Quiet, Emissions
<1>2. AnnounceTyped /\ spLock = b /\ \A a \in Emitting : spCall[a].pc = "sink" => a = b
  BY DEF AnnounceInv, InSinkIsNext
<1>3. \A a \in Emitting : spCall'[a] = IF a = b THEN Quiet ELSE spCall[a]
  BY <1>2 DEF EmitReturns, AnnounceTyped
<1>4. spCall' \in [Emitting -> Emissions]
  BY <1>1, <1>2 DEF EmitReturns, AnnounceTyped
<1>5. spLock' \in Emitting \cup {Unheld}
  BY <1>2 DEF EmitReturns
<1>6. \A a \in Emitting : spCall'[a].pc # "sink"
  BY <1>1, <1>2, <1>3
<1> QED
  BY <1>4, <1>5, <1>6

\* A refusal leaves the states and the count.
LEMMA RefusalKeeps ==
  ASSUME AnnounceInv, NEW b \in Emitting, sinkRefuses(b)
  PROVE  AnnounceInv'
<1>1. spCall[b].pc = "sink" /\ EmitReturns(b) /\ UNCHANGED <<spEmitter, spSent>>
  BY DEF sinkRefuses
<1>2. AnnounceTyped'
  BY <1>1, SinkIsOver DEF AnnounceInv, AnnounceTyped
<1>3. InSinkIsNext'
  BY <1>1, SinkIsOver DEF AnnounceInv, InSinkIsNext
<1>4. FinalIsKept' /\ WatchersCanFollow' /\ JudgedAsSeen'
  BY <1>1, SeenKept DEF AnnounceInv
<1> QED
  BY <1>2, <1>3, <1>4 DEF AnnounceInv

\* What the sink takes is committed: the watchers' states are the emitter's.
LEMMA AcceptKeeps ==
  ASSUME AnnounceInv, NEW b \in Emitting, sinkAccepts(b)
  PROVE  AnnounceInv'
<1> DEFINE event == spCall[b].event
           sent == [event |-> event, number |-> spCall[b].number]
           k == Len(spSent) + 1
<1>1. AnnounceTyped /\ InSinkIsNext /\ FinalIsKept /\ WatchersCanFollow /\ JudgedAsSeen
  BY DEF AnnounceInv
<1>2. spCall[b].pc = "sink" /\ EmitReturns(b)
  BY DEF sinkAccepts
<1>3. event \in Announcements /\ validates(event) /\ spCall[b].number = k /\ k \in Nat /\ Len(spSent) \in Nat
      /\ spEmitter.count = Len(spSent)
  BY <1>1, <1>2 DEF InSinkIsNext, AnnounceTyped
<1>4. sent.event = event /\ sent.number = k /\ sent \in [event : Announcements, number : Nat]
  BY <1>3
<1>5. spSent' = Append(spSent, sent)
  BY DEF sinkAccepts
<1> DEFINE after == Committed(event)
<1>6. spEmitter' = after
  BY DEF sinkAccepts
<1>7. /\ after.count = k
      /\ after.phases \in [Phases -> SeenStates] /\ after.items \in [WorkItems -> SeenStates]
      /\ after.phases["p"] = IF event.kind = "phase" THEN event.state ELSE spEmitter.phases["p"]
      /\ after.items["i"] = IF event.kind = "item" THEN event.state ELSE spEmitter.items["i"]
      /\ after \in [phases : [Phases -> SeenStates], items : [WorkItems -> SeenStates], count : Nat]
  <2>1. CASE event.kind = "phase"
    BY <1>1, <1>3, <2>1, AnnouncementIs DEF Committed, AnnounceTyped, Phases, WorkItems
  <2>2. CASE event.kind = "item"
    BY <1>1, <1>3, <2>2, AnnouncementIs DEF Committed, AnnounceTyped, Phases, WorkItems
  <2>3. CASE event.kind \notin {"phase", "item"}
    BY <1>1, <1>3, <2>3 DEF Committed, AnnounceTyped, Phases, WorkItems
  <2> QED
    BY <2>1, <2>2, <2>3
<1> HIDE DEF sent, after
<1>8. /\ spSent' \in Seq([event : Announcements, number : Nat]) /\ Len(spSent') = k
      /\ DOMAIN spSent' = 1..k /\ DOMAIN spSent = 1..(k - 1)
      /\ spSent'[k] = sent /\ \A n \in 1..(k - 1) : spSent'[n] = spSent[n]
  BY <1>1, <1>3, <1>4, <1>5 DEF AnnounceTyped
<1>9. AnnounceTyped'
  BY <1>2, <1>6, <1>7, <1>8, SinkIsOver DEF AnnounceTyped
<1>10. InSinkIsNext'
  BY <1>2, <1>6, <1>7, <1>8, SinkIsOver DEF InSinkIsNext
<1>11. /\ event.kind = "phase" => spEmitter.phases["p"] \notin Final
       /\ event.kind = "item" => spEmitter.items["i"] \notin Final
       /\ event.phase # "" => spEmitter.phases["p"] # ""
  BY <1>3, AnnouncementIs DEF validates, validateTransition
<1>12. FinalIsKept'
  <2>1. ASSUME NEW n \in 1..k, spSent'[n].event.state \in Final
        PROVE  /\ spSent'[n].event.kind = "phase" => spEmitter'.phases["p"] \in Final
               /\ spSent'[n].event.kind = "item" => spEmitter'.items["i"] \in Final
    <3>1. CASE n = k
      BY <1>4, <1>6, <1>7, <1>8, <2>1, <3>1
    <3>2. CASE n # k
      <4>1. n \in 1..(k - 1) /\ n \in DOMAIN spSent /\ spSent'[n] = spSent[n]
        BY <1>3, <1>8, <3>2
      <4>2. /\ spSent[n].event.kind = "phase" => spEmitter.phases["p"] \in Final
            /\ spSent[n].event.kind = "item" => spEmitter.items["i"] \in Final
        BY <1>1, <2>1, <4>1 DEF FinalIsKept
      <4> QED
        BY <1>6, <1>7, <1>11, <4>1, <4>2
    <3> QED
      BY <3>1, <3>2
  <2>2. spEmitter'.phases["p"] # "" => \E n \in 1..k : spSent'[n].event.kind = "phase"
    <3>1. CASE event.kind = "phase"
      <4>1. k \in 1..k /\ spSent'[k].event.kind = "phase"
        BY <1>3, <1>4, <1>8, <3>1
      <4> QED
        BY <4>1
    <3>2. CASE event.kind # "phase"
      <4>1. spEmitter'.phases["p"] # "" => \E n \in 1..(k - 1) : spSent[n].event.kind = "phase"
        BY <1>1, <1>6, <1>7, <1>8, <3>2 DEF FinalIsKept
      <4>2. \A n \in 1..(k - 1) : n \in 1..k /\ spSent'[n] = spSent[n]
        BY <1>3, <1>8
      <4> QED
        BY <4>1, <4>2
    <3> QED
      BY <3>1, <3>2
  <2> QED
    BY <1>8, <2>1, <2>2 DEF FinalIsKept
<1>13. WatchersCanFollow'
  <2>1. \A n \in 1..k : spSent'[n].number = n
    <3>1. \A n \in 1..(k - 1) : spSent[n].number = n
      BY <1>1, <1>8 DEF WatchersCanFollow
    <3> QED
      BY <1>3, <1>4, <1>8, <3>1
  <2>2. ASSUME NEW n \in 1..k
        PROVE  /\ \A m \in 1..(n - 1) : spSent'[m].event.kind = spSent'[n].event.kind /\ spSent'[n].event.kind \in {"phase", "item"}
                                    => spSent'[m].event.state \notin Final
               /\ spSent'[n].event.phase # "" => \E m \in 1..(n - 1) : spSent'[m].event.kind = "phase"
    <3>1. CASE n = k
      <4>1. spSent'[n].event = event
        BY <1>4, <1>8, <3>1
      <4>2. ASSUME NEW m \in 1..(n - 1), spSent[m].event.kind = event.kind, event.kind \in {"phase", "item"}
            PROVE  spSent[m].event.state \notin Final
        BY <1>1, <1>8, <1>11, <3>1, <4>2 DEF FinalIsKept
      <4>3. event.phase # "" => \E m \in 1..(n - 1) : spSent[m].event.kind = "phase"
        BY <1>1, <1>8, <1>11, <3>1 DEF FinalIsKept
      <4> QED
        BY <1>8, <3>1, <4>1, <4>2, <4>3
    <3>2. CASE n # k
      <4>1. n \in 1..(k - 1) /\ n \in DOMAIN spSent /\ spSent'[n] = spSent[n]
        BY <1>3, <1>8, <3>2
      <4>2. \A m \in 1..(n - 1) : spSent'[m] = spSent[m]
        BY <1>3, <1>8, <4>1
      <4>3. /\ \A m \in 1..(n - 1) : spSent[m].event.kind = spSent[n].event.kind /\ spSent[n].event.kind \in {"phase", "item"}
                                    => spSent[m].event.state \notin Final
            /\ spSent[n].event.phase # "" => \E m \in 1..(n - 1) : spSent[m].event.kind = "phase"
        BY <1>1, <4>1 DEF WatchersCanFollow
      <4> QED
        BY <4>1, <4>2, <4>3
    <3> QED
      BY <3>1, <3>2
  <2> QED
    BY <1>8, <2>1, <2>2 DEF WatchersCanFollow
<1>14. JudgedAsSeen'
  <2>1. Judged
    BY <1>1, JudgedIs
  <2>2. PhasesSaid \subseteq 1..(k - 1) /\ PhasesSaid \in SUBSET (1..Len(spSent))
    BY <1>3, <1>8 DEF PhasesSaid
  <2>3. Judged'
    <3>1. CASE event.kind = "phase"
      <4>1. event.id = "p"
        BY <1>3, <3>1, AnnouncementIs
      <4>2. k \in PhasesSaid'
        BY <1>3, <1>4, <1>8, <3>1, <4>1 DEF PhasesSaid
      <4>3. \A m \in PhasesSaid' : m <= k /\ m \in Nat
        BY <1>3, <1>8 DEF PhasesSaid
      <4>4. LatestOf(PhasesSaid') \in PhasesSaid' /\ \A m \in PhasesSaid' : m <= LatestOf(PhasesSaid')
        BY <4>2, <4>3 DEF LatestOf
      <4>5. LatestOf(PhasesSaid') = k
        BY <1>3, <4>2, <4>3, <4>4
      <4> QED
        BY <1>4, <1>6, <1>7, <1>8, <3>1, <4>2, <4>5 DEF Judged
    <3>2. CASE event.kind # "phase"
      <4>1. PhasesSaid' = PhasesSaid
        <5>1. spSent'[k].event.kind # "phase"
          BY <1>4, <1>8, <3>2
        <5> QED
          BY <1>3, <1>8, <5>1 DEF PhasesSaid
      <4>2. spEmitter'.phases["p"] = spEmitter.phases["p"]
        BY <1>6, <1>7, <3>2
      <4>3. PhasesSaid # {} => LatestOf(PhasesSaid) \in PhasesSaid
        <5> SUFFICES ASSUME PhasesSaid # {} PROVE \E n \in PhasesSaid : \A m \in PhasesSaid : m <= n
          BY DEF LatestOf
        <5> QED
          BY <1>3, <2>2, MaxOfSome
      <4>4. PhasesSaid # {} => spSent'[LatestOf(PhasesSaid)] = spSent[LatestOf(PhasesSaid)]
        BY <1>8, <2>2, <4>3
      <4> QED
        BY <2>1, <4>1, <4>2, <4>4 DEF Judged
    <3> QED
      BY <3>1, <3>2
  <2>4. JudgedAsSeen' <=> Judged'
    BY JudgedIs, PTL
  <2> QED
    BY <2>3, <2>4
<1> QED
  BY <1>9, <1>10, <1>12, <1>13, <1>14 DEF AnnounceInv

\* Every step of the emitter keeps its invariant.
LEMMA AnnounceInvNext == AnnounceInv /\ [AnnounceNext]_spVars => AnnounceInv'
<1>1. AnnounceInv /\ AnnounceNext => AnnounceInv'
  BY EmitKeeps, AcceptKeeps, RefusalKeeps DEF AnnounceNext
<1>2. AnnounceInv /\ UNCHANGED spVars => AnnounceInv'
  <2> SUFFICES ASSUME AnnounceInv, UNCHANGED spVars PROVE AnnounceInv'
    OBVIOUS
  <2>1. AnnounceTyped' /\ InSinkIsNext'
    BY DEF spVars, AnnounceInv, AnnounceTyped, InSinkIsNext, validates
  <2> QED
    BY <2>1, SeenKept DEF spVars, AnnounceInv
<1> QED
  BY <1>1, <1>2

--------------------------------------------------------------------------------
(* The components that a behaviour picks from.  One that is not picked stays as it *)
(* began.                                                                          *)

PartsSpec == PartsInit /\ [][PartsNext]_<<part, storesVars, loopVars, filesVars, userVars>>

PartsInv ==
    /\ part = "credentials" => CredentialsInv
    /\ part = "catalog" => CatalogInv
    /\ part = "events" => EvInv
    /\ part = "watch" => WatchInv
    /\ part = "scripts" => ScriptInv
    /\ part = "announce" => AnnounceInv

\* Each component keeps its own invariant; the steps of another leave it alone.
LEMMA PartsInvariance == PartsSpec => []PartsInv
<1>1. PartsInit => PartsInv
  BY CredentialsInvInit, CatalogInvInit, EvInvInit, WatchInvInit, ScriptInvInit, AnnounceInvInit
     DEF PartsInit, StoresInit, LoopInit, UserInit, PartsInv
<1>2. PartsInv /\ [PartsNext]_<<part, storesVars, loopVars, filesVars, userVars>> => PartsInv'
  <2> SUFFICES ASSUME PartsInv, [PartsNext]_<<part, storesVars, loopVars, filesVars, userVars>> PROVE PartsInv'
    OBVIOUS
  <2>1. part' = part
    BY DEF PartsNext, StoresNext, LoopNext, FilesNext, UserNext
  <2>2. part = "credentials" => [CredentialsNext]_auVars
    BY DEF PartsNext, StoresNext, LoopNext, FilesNext, UserNext, loopVars
  <2>3. part = "catalog" => [CatalogNext]_mcVars
    BY DEF PartsNext, StoresNext, LoopNext, FilesNext, UserNext, loopVars
  <2>4. part = "events" => [EventNext]_evVars
    BY DEF PartsNext, StoresNext, LoopNext, FilesNext, UserNext, storesVars
  <2>5. part = "watch" => [WatchNext]_wVars
    BY DEF PartsNext, StoresNext, LoopNext, FilesNext, UserNext, storesVars
  <2>6. part = "scripts" => [ScriptNext]_wsVars
    BY DEF PartsNext, StoresNext, LoopNext, FilesNext, UserNext, userVars
  <2>7. part = "announce" => [AnnounceNext]_spVars
    BY DEF PartsNext, StoresNext, LoopNext, FilesNext, UserNext, userVars
  <2> QED
    BY <2>1, <2>2, <2>3, <2>4, <2>5, <2>6, <2>7, CredentialsInvNext, CatalogInvNext, EvInvNext, WatchInvNext,
       ScriptInvNext, AnnounceInvNext DEF PartsInv
<1> QED
  BY <1>1, <1>2, PTL DEF PartsSpec

\* The credentials file is whole at every moment, never loses another writer's provider and holds
\* what a refresh gave before it is used (auth/storage.go, resolver.go), and a catalog that is cached is
\* called current only when it is; the registry lists every model once, as the last catalog that
\* has it describes it (model/discovery_cache.go, registry_merge.go).
THEOREM StoredIsSound == PartsSpec => []StoredSound
<1>1. PartsInv => StoredSound
  BY CredentialsInvEnough, MergedAreSound DEF PartsInv, StoredSound, CatalogInv, RequestSound, ModelsMerged, Configs
<1> QED
  BY <1>1, PartsInvariance, PTL

\* However its flushes are canceled, repeated and raced by the end of its run, the events of an agent
\* task reach the log in order and without a gap (taskprogress/writer.go), the end of the task reaches
\* who waits for it (agenttask), and a watch of the terminal forwards the log from its first event or
\* says that it stopped (terminal/agent_tasks.go).
THEOREM EventsAreDelivered == PartsSpec => []EventsDelivered
<1>1. PartsInv => EventsDelivered
  BY EvInvEnough DEF PartsInv, EventsDelivered, WatchInv
<1> QED
  BY <1>1, PartsInvariance, PTL

\* However its callbacks interleave, its host dies and its evaluation is repeated, a workflow script
\* is given one child for each of its calls, in the order of the calls, and returns without an error
\* only when every child has ended (workflow/workflow.go); what it announces is numbered without a
\* gap and judged against what its watchers saw (workflowprogress).
THEOREM ScriptsAreSound == PartsSpec => []ScriptsSound
<1>1. PartsInv => ScriptsSound
  BY DEF PartsInv, ScriptsSound, ScriptInv, AnnounceInv
<1> QED
  BY <1>1, PartsInvariance, PTL
================================================================================
