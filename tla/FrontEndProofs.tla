--------------------------- MODULE FrontEndProofs ---------------------------
(***************************************************************************)
(* Proofs about the parts that build a simulation and that serve it to the *)
(* outside, for any types, configurations, components, HTTP threads and    *)
(* requests: fields agree with the registry of types, the guard against    *)
(* recursion stops nothing else, a configuration is applied and stays so   *)
(* over any stores and restores; a value read over HTTP is whole and       *)
(* nothing is left behind by the request, and times are scheduled as       *)
(* asked.                                                                  *)
(***************************************************************************)
EXTENDS Storage, RestService, SequenceTheorems, WellFoundedInduction, TLAPS

-----------------------------------------------------------------------------
(***************************************************************************)
(* The registry of types, as a function of the list of types.              *)
(***************************************************************************)

\* What GetType finds in ts.
TypeIn(ts, u) ==
  IF u \in DOMAIN BuiltIn THEN BuiltIn[u]
  ELSE LET found == {i \in DOMAIN ts : ts[i].uuid = u}
       IN IF found = {} THEN NoType ELSE ts[Min(found)]

KnownIn(ts, u) == TypeIn(ts, u) # NoType

\* A list of elements of whatever kind.
IsList(s) == \E S : s \in Seq(S)

\* A type that the registry takes: its uuid is not that of a built-in type,
\* and that of an array says how many items it has.
IsType(t) ==
  /\ t.class # "none"
  /\ t.uuid[1] # "kind"
  /\ t.uuid[1] = "array" => t.count = t.uuid[3]

Registry(ts) ==
  /\ IsList(ts)
  /\ \A i \in DOMAIN ts : IsType(ts[i])
  /\ \A i, j \in DOMAIN ts : ts[i].uuid = ts[j].uuid => i = j

\* One call of an Add operation.
Grown(ts, us) ==
  \/ us = ts
  \/ \E t : /\ us = Append(ts, t)
            /\ IsType(t)
            /\ ~KnownIn(ts, t.uuid)

LEMMA AppendedToList ==
  ASSUME NEW s, IsList(s), NEW x
  PROVE  /\ IsList(Append(s, x))
         /\ Len(s) \in Nat /\ DOMAIN s = 1 .. Len(s)
         /\ DOMAIN Append(s, x) = 1 .. Len(s) + 1
         /\ \A i \in DOMAIN s : Append(s, x)[i] = s[i]
         /\ Append(s, x)[Len(s) + 1] = x
<1>1. PICK S : s \in Seq(S)
  BY DEF IsList
<1>2. s \in Seq(S \union {x}) /\ x \in S \union {x}
  <2>1. S \subseteq S \union {x}
    OBVIOUS
  <2>. QED  BY <1>1, <2>1
<1>3. Append(s, x) \in Seq(S \union {x})
  BY <1>2
<1>. QED  BY <1>2, <1>3 DEF IsList

LEMMA SmallestOfOne ==
  ASSUME NEW i \in Nat  PROVE Min({i}) = i
BY DEF Min

LEMMA BuiltInTypes ==
  ASSUME NEW u \in DOMAIN BuiltIn
  PROVE  /\ u[1] = "kind"
         /\ BuiltIn[u].class # "none"
         /\ BuiltIn[u].uuid = u
         /\ BuiltIn[u].count = 1
<1>1. PICK k \in BuiltInKinds : u = <<"kind", k>>
  BY DEF BuiltIn
<1>2. BuiltIn[u] = IF u[2] = "String8" THEN Type(u, "string", "String8", u, 1)
                   ELSE Simple(u, u[2])
  BY DEF BuiltIn
<1>. QED  BY <1>1, <1>2 DEF Simple, Type

\* GetType finds the only type there is.
LEMMA TypesAreFound ==
  ASSUME NEW ts, Registry(ts)
  PROVE  /\ \A u \in DOMAIN BuiltIn : TypeIn(ts, u) = BuiltIn[u] /\ KnownIn(ts, u)
         /\ \A i \in DOMAIN ts : TypeIn(ts, ts[i].uuid) = ts[i] /\ KnownIn(ts, ts[i].uuid)
         /\ \A u : KnownIn(ts, u) => \/ u \in DOMAIN BuiltIn
                                     \/ \E i \in DOMAIN ts : ts[i].uuid = u
<1>1. ASSUME NEW t, t.class # "none"  PROVE t # NoType
  BY <1>1 DEF NoType, Type
<1>2. ASSUME NEW u \in DOMAIN BuiltIn
      PROVE  TypeIn(ts, u) = BuiltIn[u] /\ KnownIn(ts, u)
  BY <1>1, BuiltInTypes DEF TypeIn, KnownIn
<1>3. ASSUME NEW i \in DOMAIN ts
      PROVE  TypeIn(ts, ts[i].uuid) = ts[i] /\ KnownIn(ts, ts[i].uuid)
  <2>. DEFINE u == ts[i].uuid
  <2>1. u \notin DOMAIN BuiltIn
    BY BuiltInTypes DEF Registry, IsType
  <2>2. {j \in DOMAIN ts : ts[j].uuid = u} = {i}
    BY DEF Registry
  <2>3. i \in Nat
    BY DEF Registry, IsList
  <2>4. TypeIn(ts, u) = ts[i]
    <3>1. Min({i}) = i
      BY <2>3, SmallestOfOne
    <3>2. {i} # {}
      OBVIOUS
    <3>. HIDE DEF u
    <3>. QED  BY <2>1, <2>2, <3>1, <3>2 DEF TypeIn
  <2>5. ts[i].class # "none"
    BY DEF Registry, IsType
  <2>. QED  BY <1>1, <2>4, <2>5 DEF KnownIn
<1>4. ASSUME NEW u, u \notin DOMAIN BuiltIn, ~ \E i \in DOMAIN ts : ts[i].uuid = u
      PROVE  ~KnownIn(ts, u)
  <2>1. {i \in DOMAIN ts : ts[i].uuid = u} = {}
    BY <1>4
  <2>. QED  BY <1>4, <2>1 DEF KnownIn, TypeIn
<1>. QED  BY <1>2, <1>3, <1>4

LEMMA TypesHaveTheirUuid ==
  ASSUME NEW ts, Registry(ts), NEW u, KnownIn(ts, u)
  PROVE  TypeIn(ts, u).uuid = u
<1>1. CASE u \in DOMAIN BuiltIn
  BY <1>1, TypesAreFound, BuiltInTypes
<1>2. ASSUME NEW i \in DOMAIN ts, ts[i].uuid = u  PROVE TypeIn(ts, u).uuid = u
  BY <1>2, TypesAreFound
<1>. QED  BY <1>1, <1>2, TypesAreFound

\* A call of Add keeps what the registry said of the types it had.
LEMMA RegistryGrows ==
  ASSUME NEW ts, Registry(ts), NEW us, Grown(ts, us)
  PROVE  /\ Registry(us)
         /\ \A u : KnownIn(ts, u) => KnownIn(us, u) /\ TypeIn(us, u) = TypeIn(ts, u)
<1>1. CASE us = ts
  BY <1>1
<1>2. ASSUME NEW t, us = Append(ts, t), IsType(t), ~KnownIn(ts, t.uuid)
      PROVE  /\ Registry(us)
             /\ \A u : KnownIn(ts, u) => KnownIn(us, u) /\ TypeIn(us, u) = TypeIn(ts, u)
  <2>1. /\ IsList(us)
        /\ Len(ts) \in Nat /\ DOMAIN ts = 1 .. Len(ts)
        /\ DOMAIN us = 1 .. Len(ts) + 1
        /\ \A i \in DOMAIN ts : us[i] = ts[i]
        /\ us[Len(ts) + 1] = t
    BY <1>2, AppendedToList DEF Registry
  <2>2. \A i \in DOMAIN us : i \in DOMAIN ts \/ i = Len(ts) + 1
    BY <2>1
  <2>3. \A i \in DOMAIN ts : ts[i].uuid # t.uuid /\ i # Len(ts) + 1
    BY <1>2, <2>1, TypesAreFound
  <2>4. Registry(us)
    <3>1. \A i \in DOMAIN us : IsType(us[i])
      BY <1>2, <2>1, <2>2 DEF Registry
    <3>2. \A i, j \in DOMAIN us : us[i].uuid = us[j].uuid => i = j
      BY <2>1, <2>2, <2>3 DEF Registry
    <3>. QED  BY <2>1, <3>1, <3>2 DEF Registry
  <2>5. ASSUME NEW u, KnownIn(ts, u)
        PROVE  KnownIn(us, u) /\ TypeIn(us, u) = TypeIn(ts, u)
    <3>1. CASE u \in DOMAIN BuiltIn
      BY <2>4, <3>1, TypesAreFound
    <3>2. ASSUME NEW i \in DOMAIN ts, ts[i].uuid = u
          PROVE  KnownIn(us, u) /\ TypeIn(us, u) = TypeIn(ts, u)
      <4>1. i \in DOMAIN us /\ us[i] = ts[i]
        BY <2>1
      <4>. QED  BY <2>4, <3>2, <4>1, TypesAreFound
    <3>. QED  BY <2>5, <3>1, <3>2, TypesAreFound
  <2>. QED  BY <2>4, <2>5
<1>. QED  BY <1>1, <1>2 DEF Grown

-----------------------------------------------------------------------------
(***************************************************************************)
(* Induction on the natural numbers, for sets.                             *)
(***************************************************************************)

\* A set of numbers that is not empty has a smallest one.
LEMMA SomeIsSmallest ==
  ASSUME NEW S, S \subseteq Nat, S # {}
  PROVE  \E n \in S : \A m \in S : n <= m
<1>. DEFINE Before == OpToRel(<, Nat)
<1>1. IsWellFoundedOn(Before, Nat)
  BY NatLessThanWellFounded
<1>2. \A m, n \in Nat : m < n => <<m, n>> \in Before
  BY DEF OpToRel
<1>. HIDE DEF Before
<1>3. PICK n \in S : \A m \in S : ~ (<<m, n>> \in Before)
  BY <1>1, WFMin
<1>4. ASSUME NEW m \in S  PROVE n <= m
  <2>1. m \in Nat /\ n \in Nat /\ ~(m < n)
    BY <1>2, <1>3
  <2>. QED  BY <2>1
<1>. QED  BY <1>4

LEMMA InductionInSet ==
  ASSUME NEW S, 0 \in S, \A n \in Nat : n \in S => n + 1 \in S
  PROVE  Nat \subseteq S
<1>1. SUFFICES ASSUME Nat \ S # {}  PROVE FALSE
  OBVIOUS
<1>2. PICK n \in Nat \ S : \A m \in Nat \ S : n <= m
  BY <1>1, SomeIsSmallest
<1>3. n # 0 /\ n - 1 \in Nat /\ ~(n <= n - 1) /\ (n - 1) + 1 = n
  OBVIOUS
<1>. QED  BY <1>2, <1>3

-----------------------------------------------------------------------------
(***************************************************************************)
(* What is left of a list without some names.                              *)
(***************************************************************************)

\* The values that the recursion of Without goes through, up to n.
Leaves(fs, names, n, g) ==
  /\ g[0] = <<>>
  /\ \A i \in 1 .. n : g[i] = IF fs[i].name \in names THEN g[i - 1]
                               ELSE Append(g[i - 1], fs[i])

LEMMA LeavingExists ==
  ASSUME NEW fs, NEW names
  PROVE  \A n \in Nat : \E g : DOMAIN g = 0 .. n /\ Leaves(fs, names, n, g)
<1>. DEFINE S == {n \in Nat : \E g : DOMAIN g = 0 .. n /\ Leaves(fs, names, n, g)}
            After(g, i) == IF fs[i].name \in names THEN g ELSE Append(g, fs[i])
<1>1. 0 \in S
  <2>. DEFINE g == [i \in 0 .. 0 |-> <<>>]
  <2>1. DOMAIN g = 0 .. 0 /\ Leaves(fs, names, 0, g)
    BY DEF Leaves
  <2>. QED  BY <2>1
<1>2. ASSUME NEW n \in Nat, n \in S  PROVE n + 1 \in S
  <2>1. PICK g : DOMAIN g = 0 .. n /\ Leaves(fs, names, n, g)
    BY <1>2
  <2>. DEFINE h == [i \in 0 .. n + 1 |->
                      IF i = n + 1 THEN After(g[n], n + 1) ELSE g[i]]
  <2>. HIDE DEF After
  <2>2. \A i \in 0 .. n : h[i] = g[i]
    OBVIOUS
  <2>3. h[n + 1] = After(h[n], n + 1) /\ (n + 1) - 1 = n
    <3>1. n + 1 \in 0 .. n + 1 /\ n \in 0 .. n /\ (n + 1) - 1 = n
      OBVIOUS
    <3>2. h[n + 1] = After(g[n], n + 1)
      BY <3>1, Zenon
    <3>. QED  BY <2>2, <3>1, <3>2, Zenon
  <2>4. \A i \in 1 .. n + 1 : i # n + 1 => i \in 1 .. n /\ i - 1 \in 0 .. n /\ i \in 0 .. n
    OBVIOUS
  <2>5. DOMAIN h = 0 .. n + 1
    OBVIOUS
  <2>. HIDE DEF h
  <2>6. h[0] = <<>>
    BY <2>1, <2>2 DEF Leaves
  <2>7. ASSUME NEW i \in 1 .. n + 1  PROVE h[i] = After(h[i - 1], i)
    <3>1. CASE i = n + 1
      BY <2>3, <3>1, Zenon
    <3>2. CASE i # n + 1
      <4>1. h[i] = g[i] /\ h[i - 1] = g[i - 1]
        BY <2>2, <2>4, <3>2
      <4>2. g[i] = After(g[i - 1], i)
        BY <2>1, <2>4, <3>2, Zenon DEF Leaves, After
      <4>. QED  BY <4>1, <4>2, Zenon
    <3>. QED  BY <3>1, <3>2
  <2>8. Leaves(fs, names, n + 1, h)
    BY <2>6, <2>7, Zenon DEF Leaves, After
  <2>. QED  BY <2>5, <2>8
<1>3. Nat \subseteq S
  <2>. HIDE DEF S
  <2>. QED  BY <1>1, <1>2, InductionInSet
<1>. QED  BY <1>3

LEMMA WithoutLeaves ==
  ASSUME NEW fs, IsList(fs), NEW names
  PROVE  \E g : Leaves(fs, names, Len(fs), g) /\ Without(fs, names) = g[Len(fs)]
<1>. DEFINE n == Len(fs)
            After(g, i) == IF fs[i].name \in names THEN g ELSE Append(g, fs[i])
            Rule(g) == g = [i \in 0 .. n |->
                              IF i = 0 THEN <<>>
                              ELSE IF fs[i].name \in names THEN g[i - 1]
                              ELSE Append(g[i - 1], fs[i])]
            u == CHOOSE g : Rule(g)
<1>1. n \in Nat
  BY DEF IsList
<1>2. PICK f : DOMAIN f = 0 .. n /\ Leaves(fs, names, n, f)
  BY <1>1, LeavingExists
<1>. DEFINE g == [i \in 0 .. n |-> f[i]]
<1>3. Rule(g)
  <2>1. \A i \in 0 .. n : i = 0 \/ (i \in 1 .. n /\ i - 1 \in 0 .. n)
    BY <1>1
  <2>2. \A i \in 0 .. n : g[i] = f[i]
    OBVIOUS
  <2>3. \A i \in 0 .. n : f[i] = IF i = 0 THEN <<>> ELSE After(f[i - 1], i)
    BY <1>2, <2>1, Zenon DEF Leaves
  <2>4. \A i \in 0 .. n : f[i] = IF i = 0 THEN <<>> ELSE After(g[i - 1], i)
    <3>. HIDE DEF After, g
    <3>. QED  BY <2>1, <2>2, <2>3, Zenon
  <2>. QED  BY <2>4
<1>4. Without(fs, names) = u[n]
  BY Zenon DEF Without
<1>5. Rule(u)
  <2>. HIDE DEF Rule, g
  <2>. QED  BY <1>3
<1>. HIDE DEF u
<1>6. Leaves(fs, names, n, u)
  <2>1. \A i \in 0 .. n : u[i] = IF i = 0 THEN <<>> ELSE After(u[i - 1], i)
    BY <1>5, Zenon
  <2>2. 0 \in 0 .. n /\ \A i \in 1 .. n : i \in 0 .. n /\ i # 0
    BY <1>1
  <2>. QED  BY <2>1, <2>2, Zenon DEF Leaves
<1>. QED  BY <1>4, <1>6

\* Unpublish leaves nothing that was not there.
LEMMA WithoutAddsNothing ==
  ASSUME NEW fs, IsList(fs), NEW names
  PROVE  Without(fs, names) \in Seq({fs[i] : i \in DOMAIN fs})
<1>. DEFINE E == {fs[i] : i \in DOMAIN fs}
<1>1. PICK g : Leaves(fs, names, Len(fs), g) /\ Without(fs, names) = g[Len(fs)]
  BY WithoutLeaves
<1>2. Len(fs) \in Nat /\ DOMAIN fs = 1 .. Len(fs)
  BY DEF IsList
<1>. DEFINE S == {n \in Nat : n <= Len(fs) => g[n] \in Seq(E)}
<1>3. 0 \in S
  <2>1. g[0] = <<>>
    BY <1>1 DEF Leaves
  <2>2. <<>> \in Seq(E)
    <3>. HIDE DEF E
    <3>. QED  OBVIOUS
  <2>. HIDE DEF E
  <2>. QED  BY <2>1, <2>2
<1>4. ASSUME NEW n \in Nat, n \in S  PROVE n + 1 \in S
  <2>1. SUFFICES ASSUME n + 1 <= Len(fs)  PROVE g[n + 1] \in Seq(E)
    OBVIOUS
  <2>2. n + 1 \in 1 .. Len(fs) /\ (n + 1) - 1 = n /\ n <= Len(fs)
    BY <1>2, <2>1
  <2>3. g[n] \in Seq(E) /\ fs[n + 1] \in E
    BY <1>2, <1>4, <2>2
  <2>4. g[n + 1] = IF fs[n + 1].name \in names THEN g[n] ELSE Append(g[n], fs[n + 1])
    BY <1>1, <2>2, Zenon DEF Leaves
  <2>. HIDE DEF E
  <2>. QED  BY <2>3, <2>4
<1>5. Nat \subseteq S
  <2>. HIDE DEF S
  <2>. QED  BY <1>3, <1>4, InductionInSet
<1>. QED  BY <1>1, <1>2, <1>5

-----------------------------------------------------------------------------
(***************************************************************************)
(* What may become of the fields of a component.                           *)
(***************************************************************************)

IsFieldRecord(f) ==
  f = [name |-> f.name, type |-> f.type, count |-> f.count, value |-> f.value]

\* The type of the field is registered and has its size.
IsTyped(f, ts) ==
  /\ KnownIn(ts, f.type)
  /\ f.count = TypeIn(ts, f.type).count

IsNew(f, ts) == IsFieldRecord(f) /\ IsTyped(f, ts) /\ f.value = "initial"

\* A call leaves the list of fields, adds a field to it, or removes some.
Edited(fs, gs, ts) ==
  \/ gs = fs
  \/ \E f : IsNew(f, ts) /\ gs = Append(fs, f)
  \/ \E names : gs = Without(fs, names)

\* Only the values of the fields are changed.
Revalued(fs, gs) ==
  /\ DOMAIN gs = DOMAIN fs
  /\ gs = [i \in DOMAIN fs |-> gs[i]]
  /\ \A i \in DOMAIN fs : \E v : gs[i] = [fs[i] EXCEPT !.value = v]

AreFields(fs) == IsList(fs) /\ \A i \in DOMAIN fs : IsFieldRecord(fs[i])

AreTyped(fs, ts) == \A i \in DOMAIN fs : IsTyped(fs[i], ts)

LEMMA ElementsOfEdited ==
  ASSUME NEW fs, AreFields(fs), NEW gs, NEW ts, Edited(fs, gs, ts)
  PROVE  /\ AreFields(gs)
         /\ \A i \in DOMAIN gs : IsNew(gs[i], ts) \/ \E j \in DOMAIN fs : gs[i] = fs[j]
<1>1. CASE gs = fs
  BY <1>1
<1>2. ASSUME NEW f, IsNew(f, ts), gs = Append(fs, f)
      PROVE  /\ AreFields(gs)
             /\ \A i \in DOMAIN gs : IsNew(gs[i], ts) \/ \E j \in DOMAIN fs : gs[i] = fs[j]
  <2>1. /\ IsList(gs)
        /\ Len(fs) \in Nat /\ DOMAIN fs = 1 .. Len(fs)
        /\ DOMAIN gs = 1 .. Len(fs) + 1
        /\ \A i \in DOMAIN fs : gs[i] = fs[i]
        /\ gs[Len(fs) + 1] = f
    BY <1>2, AppendedToList DEF AreFields
  <2>2. \A i \in DOMAIN gs : i \in DOMAIN fs \/ i = Len(fs) + 1
    BY <2>1
  <2>. QED  BY <1>2, <2>1, <2>2 DEF AreFields, IsNew
<1>3. ASSUME NEW names, gs = Without(fs, names)
      PROVE  /\ AreFields(gs)
             /\ \A i \in DOMAIN gs : \E j \in DOMAIN fs : gs[i] = fs[j]
  <2>. DEFINE E == {fs[i] : i \in DOMAIN fs}
  <2>1. gs \in Seq(E)
    BY <1>3, WithoutAddsNothing DEF AreFields
  <2>2. \A i \in DOMAIN gs : gs[i] \in E
    <3>. HIDE DEF E
    <3>. QED  BY <2>1
  <2>3. \A i \in DOMAIN gs : \E j \in DOMAIN fs : gs[i] = fs[j]
    BY <2>2
  <2>4. IsList(gs)
    BY <2>1, Zenon DEF IsList
  <2>. QED  BY <2>3, <2>4 DEF AreFields
<1>. QED  BY <1>1, <1>2, <1>3 DEF Edited

LEMMA EditedAreTyped ==
  ASSUME NEW ts, Registry(ts), NEW us, Grown(ts, us),
         NEW fs, AreFields(fs), AreTyped(fs, ts), NEW gs, Edited(fs, gs, us)
  PROVE  AreTyped(gs, us)
<1>1. \A u : KnownIn(ts, u) => KnownIn(us, u) /\ TypeIn(us, u) = TypeIn(ts, u)
  BY RegistryGrows
<1>2. \A i \in DOMAIN fs : IsTyped(fs[i], us)
  BY <1>1 DEF AreTyped, IsTyped
<1>3. \A i \in DOMAIN gs : IsNew(gs[i], us) \/ \E j \in DOMAIN fs : gs[i] = fs[j]
  BY ElementsOfEdited
<1>. QED  BY <1>2, <1>3 DEF AreTyped, IsNew

LEMMA RevaluedFields ==
  ASSUME NEW fs, AreFields(fs), NEW gs, Revalued(fs, gs)
  PROVE  /\ AreFields(gs)
         /\ \A i \in DOMAIN gs : /\ gs[i].name = fs[i].name
                                 /\ gs[i].type = fs[i].type
                                 /\ gs[i].count = fs[i].count
         /\ NamesOf(gs) = NamesOf(fs)
<1>1. \A i \in DOMAIN fs : \E v : gs[i] = [fs[i] EXCEPT !.value = v]
  BY DEF Revalued
<1>2. \A i \in DOMAIN gs : /\ IsFieldRecord(gs[i])
                           /\ gs[i].name = fs[i].name
                           /\ gs[i].type = fs[i].type
                           /\ gs[i].count = fs[i].count
  BY <1>1 DEF Revalued, AreFields, IsFieldRecord
<1>3. IsList(gs)
  <2>. DEFINE S == {gs[i] : i \in DOMAIN gs}
  <2>1. PICK n \in Nat : DOMAIN gs = 1 .. n
    BY DEF Revalued, AreFields, IsList
  <2>2. gs \in [1 .. n -> S]
    BY <2>1 DEF Revalued
  <2>3. gs \in Seq(S)
    <3>. HIDE DEF S
    <3>. QED  BY <2>2
  <2>. QED  BY <2>3 DEF IsList
<1>4. NamesOf(gs) = NamesOf(fs)
  BY <1>2 DEF NamesOf, Revalued
<1>. QED  BY <1>2, <1>3, <1>4 DEF AreFields

-----------------------------------------------------------------------------
(***************************************************************************)
(* The calls of the components.                                            *)
(***************************************************************************)

LEMMA Lookups ==
  /\ \A u : GetTypeOfUuid(u) = TypeIn(types, u)
  /\ \A u : Known(u) <=> KnownIn(types, u)
BY DEF GetTypeOfUuid, Known, FirstOf, TypeIn, KnownIn

\* The type of a kind is registered.
LEMMA KindsHaveAType ==
  ASSUME Registry(types), NEW k, GetTypeOfKind(k) # NoType
  PROVE  Known(GetTypeOfKind(k).uuid)
<1>1. CASE k \in BuiltInKinds
  <2>1. <<"kind", k>> \in DOMAIN BuiltIn
    BY <1>1 DEF BuiltIn
  <2>. QED  BY <1>1, <2>1, Lookups, TypesAreFound, BuiltInTypes DEF GetTypeOfKind
<1>2. CASE k \notin BuiltInKinds
  <2>. DEFINE found == {i \in DOMAIN types : types[i].kind = k}
  <2>1. found # {} /\ GetTypeOfKind(k) = types[Min(found)]
    BY <1>2 DEF GetTypeOfKind, FirstOf
  <2>2. found \subseteq Nat
    BY DEF Registry, IsList
  <2>. HIDE DEF found
  <2>3. Min(found) \in found
    <3>1. \E n \in found : \A m \in found : n <= m
      BY <2>1, <2>2, SomeIsSmallest
    <3>. QED  BY <3>1 DEF Min
  <2>4. Min(found) \in DOMAIN types
    BY <2>3 DEF found
  <2>. QED  BY <2>1, <2>4, Lookups, TypesAreFound
<1>. QED  BY <1>1, <1>2

\* Registering a type is one call of Add, for a uuid that is not one of those
\* of the built-in types.
LEMMA AddedTypes ==
  ASSUME NEW u, u[1] # "kind", NEW class, class # "none", NEW k, NEW item, NEW n,
         u[1] = "array" => n = u[3],
         AddUnlessKnown(u, Type(u, class, k, item, n))
  PROVE  Grown(types, types') /\ (Known(u) => types' = types)
<1>. DEFINE t == Type(u, class, k, item, n)
<1>1. IsType(t) /\ t.uuid = u
  BY DEF IsType, Type
<1>. HIDE DEF t
<1>. QED  BY <1>1, Lookups DEF t, AddUnlessKnown, Refuse, Add, Grown

LEMMA ClientsAdd ==
  ASSUME Registry(types), NEW u \in UserUuid, NEW k, NEW n, Clients(u, k, n)
  PROVE  Grown(types, types')
<1>1. u[1] # "kind" /\ u[1] # "array"
  BY TypesAssumption
<1>2. ASSUME NEW class, class # "none", NEW kind, NEW item, NEW m,
             AddUnlessKnown(u, Type(u, class, kind, item, m))
      PROVE  Grown(types, types')
  BY <1>1, <1>2, AddedTypes
<1>3. ASSUME NEW kind, AddUnlessKnown(u, Simple(u, kind))
      PROVE  Grown(types, types')
  BY <1>2, <1>3 DEF Simple
<1>4. ASSUME Refuse  PROVE Grown(types, types')
  BY <1>4 DEF Refuse, Grown
<1>5. CASE AddFloatType(u, k) \/ AddIntegerType(u, k) \/ AddType(u, k)
  BY <1>3, <1>4, <1>5 DEF AddFloatType, AddIntegerType, AddType
<1>6. CASE AddEnumerationType(u) \/ AddStructureType(u) \/ AddClassType(u)
  BY <1>2, <1>6 DEF AddEnumerationType, AddStructureType, AddClassType
<1>7. CASE \E item \in UserUuid \union {<<"kind", k>>} : AddArrayType(u, item, n)
  BY <1>2, <1>4, <1>7 DEF AddArrayType
<1>8. CASE AddStringType(u)
  BY <1>4, <1>8 DEF AddStringType
<1>. QED  BY <1>5, <1>6, <1>7, <1>8 DEF Clients

\* What a call of component c does to the types and to the fields of everyone.
Called(c) ==
  /\ Grown(types, types')
  /\ DOMAIN fields' = Component
  /\ \A d \in Component : d # c => fields'[d] = fields[d]
  /\ Edited(fields[c], fields'[c], types')

LEMMA AddingAChild ==
  ASSUME NEW c \in Component, NEW f, Grown(types, types'), IsNew(f, types'), AddChild(c, f)
  PROVE  Called(c)
<1>1. CASE UNCHANGED fields
  BY <1>1 DEF Called, Edited, Component
<1>2. CASE fields' = [fields EXCEPT ![c] = Append(@, f)]
  <2>1. DOMAIN fields' = Component /\ fields'[c] = Append(fields[c], f)
        /\ \A d \in Component : d # c => fields'[d] = fields[d]
    BY <1>2 DEF Component
  <2>. QED  BY <2>1 DEF Called, Edited
<1>. QED  BY <1>1, <1>2 DEF AddChild, AddField

LEMMA NothingCalled ==
  ASSUME NEW c, UNCHANGED <<types, fields>>  PROVE Called(c)
BY DEF Called, Grown, Edited, Component

LEMMA PublishTypedCalls ==
  ASSUME Registry(types), NEW c \in Component, NEW n, NEW k, PublishTyped(c, n, k)
  PROVE  Called(c)
<1>. DEFINE u == <<"kind", k>>
            f == Field(n, GetTypeOfUuid(u), 1)
<1>1. u \in DOMAIN BuiltIn
  <2>1. KnownIn(types, u)
    BY Lookups DEF PublishTyped
  <2>2. \A i \in DOMAIN types : types[i].uuid[1] # "kind"
    BY DEF Registry, IsType
  <2>. QED  BY <2>1, <2>2, TypesAreFound
<1>2. types' = types /\ AddChild(c, f)
  BY DEF PublishTyped
<1>3. GetTypeOfUuid(u) = BuiltIn[u] /\ BuiltIn[u].uuid = u /\ BuiltIn[u].count = 1
      /\ KnownIn(types, u)
  BY <1>1, Lookups, TypesAreFound, BuiltInTypes
<1>4. IsNew(f, types)
  <2>. HIDE DEF u
  <2>. QED  BY <1>3, Lookups DEF IsNew, IsFieldRecord, IsTyped, Field
<1>. HIDE DEF f
<1>. QED  BY <1>2, <1>4, AddingAChild DEF Grown

\* A field that gets its size from its type.
LEMMA FieldOfItsType ==
  ASSUME Registry(types), NEW n, NEW u, Known(u)
  PROVE  IsNew(Field(n, GetTypeOfUuid(u), GetTypeOfUuid(u).count), types)
<1>1. GetTypeOfUuid(u).uuid = u /\ KnownIn(types, u) /\ GetTypeOfUuid(u) = TypeIn(types, u)
  BY Lookups, TypesHaveTheirUuid
<1>. QED  BY <1>1 DEF IsNew, IsFieldRecord, IsTyped, Field

LEMMA PublishIFieldCalls ==
  ASSUME Registry(types), NEW c \in Component, NEW n, NEW u, PublishIField(c, n, u)
  PROVE  Called(c)
<1>. DEFINE f == Field(n, GetTypeOfUuid(u), GetTypeOfUuid(u).count)
<1>1. IsNew(f, types)
  BY FieldOfItsType DEF PublishIField
<1>2. types' = types /\ AddChild(c, f)
  BY DEF PublishIField
<1>. HIDE DEF f
<1>. QED  BY <1>1, <1>2, AddingAChild DEF Grown

LEMMA PublishByUuidCalls ==
  ASSUME Registry(types), NEW c \in Component, NEW n, NEW u, PublishByUuid(c, n, u)
  PROVE  Called(c)
<1>1. types' = types
  BY DEF PublishByUuid
<1>2. CASE UNCHANGED fields
  BY <1>1, <1>2, NothingCalled
<1>3. CASE Known(u) /\ PublishByType(c, n, GetTypeOfUuid(u))
  <2>. DEFINE f == Field(n, GetTypeOfUuid(u), GetTypeOfUuid(u).count)
  <2>1. IsNew(f, types) /\ AddChild(c, f)
    BY <1>3, FieldOfItsType DEF PublishByType
  <2>. HIDE DEF f
  <2>. QED  BY <1>1, <2>1, AddingAChild DEF Grown
<1>. QED  BY <1>2, <1>3 DEF PublishByUuid

LEMMA PublishArrayCalls ==
  ASSUME Registry(types), NEW c \in Component, NEW n, NEW k, NEW count,
         PublishArray(c, n, k, count)
  PROVE  Called(c)
<1>. DEFINE u == ArrayUuid(k, count)
            f == Field(n, [uuid |-> u], count)
            item == GetTypeOfKind(k)
<1>1. CASE item = NoType
  BY <1>1, NothingCalled DEF PublishArray
<1>2. CASE item # NoType
  <2>1. AddChild(c, f) /\ IF Known(u) THEN types' = types ELSE AddArrayType(u, item.uuid,
       count)
    BY <1>2 DEF PublishArray
  <2>2. Known(item.uuid)
    BY <1>2, KindsHaveAType
  <2>3. u[1] = "array" /\ u[3] = count
    BY DEF ArrayUuid
  <2>. HIDE DEF u, item
  <2>4. Grown(types, types') /\ Registry(types') /\ KnownIn(types', u)
    <3>1. CASE Known(u)
      BY <2>1, <3>1, Lookups DEF Grown
    <3>2. CASE ~Known(u)
      <4>. DEFINE t == Type(u, "array", GetTypeOfUuid(item.uuid).kind, item.uuid, count)
      <4>1. AddUnlessKnown(u, t)
        BY <2>1, <2>2, <3>2 DEF AddArrayType
      <4>2. Grown(types, types')
        BY <2>3, <4>1, AddedTypes
      <4>3. types' = Append(types, t)
        BY <3>2, <4>1 DEF AddUnlessKnown, Add
      <4>4. t.uuid = u
        BY DEF Type
      <4>. HIDE DEF t
      <4>5. Registry(types')
        BY <4>2, RegistryGrows
      <4>6. Len(types) + 1 \in DOMAIN types' /\ types'[Len(types) + 1] = t
        BY <4>3, AppendedToList DEF Registry
      <4>. QED  BY <4>2, <4>4, <4>5, <4>6, TypesAreFound
    <3>. QED  BY <3>1, <3>2
  <2>5. TypeIn(types', u).count = count
    <3>1. u \notin DOMAIN BuiltIn
      BY <2>3, BuiltInTypes
    <3>2. PICK i \in DOMAIN types' : types'[i].uuid = u
      BY <2>4, <3>1, TypesAreFound
    <3>3. TypeIn(types', u) = types'[i] /\ IsType(types'[i])
      BY <2>4, <3>2, TypesAreFound DEF Registry
    <3>. QED  BY <2>3, <3>2, <3>3 DEF IsType
  <2>6. IsNew(f, types')
    BY <2>4, <2>5 DEF IsNew, IsFieldRecord, IsTyped, Field
  <2>. HIDE DEF f
  <2>. QED  BY <2>1, <2>4, <2>6, AddingAChild
<1>. QED  BY <1>1, <1>2

LEMMA UnpublishCalls ==
  ASSUME NEW c \in Component, Unpublish(c)
  PROVE  Called(c)
<1>1. types' = types /\ fields' = [fields EXCEPT ![c] = Without(@, published[c])]
  BY DEF Unpublish
<1>2. DOMAIN fields' = Component /\ fields'[c] = Without(fields[c], published[c])
      /\ \A d \in Component : d # c => fields'[d] = fields[d]
  BY <1>1 DEF Component
<1>. QED  BY <1>1, <1>2 DEF Called, Edited, Grown

LEMMA PublishesCalls ==
  ASSUME Registry(types), NEW c \in Component, Publishes(c)
  PROVE  Called(c)
<1>1. ASSUME NEW n \in FieldName, NEW k \in Kind, NEW m \in Count, PublishLuaValue(c, n,
     k, m)
      PROVE  Called(c)
  BY <1>1, PublishTypedCalls, PublishArrayCalls DEF PublishLuaValue
<1>2. ASSUME PublishNothing(c)  PROVE Called(c)
  BY <1>2, NothingCalled DEF PublishNothing
<1>3. ASSUME NEW n, NEW u, PublishProperty(c, n, u)  PROVE Called(c)
  BY <1>3, NothingCalled DEF PublishProperty
<1>. QED
  BY <1>1, <1>2, <1>3, PublishTypedCalls, PublishIFieldCalls, PublishByUuidCalls,
     PublishArrayCalls, UnpublishCalls DEF Publishes

-----------------------------------------------------------------------------
(***************************************************************************)
(* The fields and their types.                                             *)
(***************************************************************************)

FieldsInv ==
  /\ Registry(types)
  /\ \A c \in Component : AreFields(fields[c]) /\ AreTyped(fields[c], types)

LEMMA FieldsInvImplies ==
  ASSUME FieldsInv  PROVE FieldsKnowTheirType
<1>1. \A i \in DOMAIN types : types[i].uuid \notin DOMAIN BuiltIn
  BY BuiltInTypes DEF FieldsInv, Registry, IsType
<1>2. \A i, j \in DOMAIN types : types[i].uuid = types[j].uuid => i = j
  BY DEF FieldsInv, Registry
<1>3. \A c \in Component : \A i \in DOMAIN fields[c] :
        /\ Known(fields[c][i].type)
        /\ fields[c][i].count = GetTypeOfUuid(fields[c][i].type).count
  BY Lookups DEF FieldsInv, AreTyped, IsTyped
<1>. QED  BY <1>1, <1>2, <1>3 DEF FieldsKnowTheirType

LEMMA FieldsInvInit ==
  ASSUME Init  PROVE FieldsInv
<1>1. types = <<>> /\ fields = <<>>
  BY DEF Init, BuilderInit
<1>2. <<>> \in Seq({}) /\ DOMAIN <<>> = {}
  OBVIOUS
<1>. QED  BY <1>1, <1>2 DEF FieldsInv, Registry, IsList, Component

\* Values are all that a step changes in the fields.
OnlyValues ==
  /\ types' = types
  /\ DOMAIN fields' = Component
  /\ \A c \in Component : Revalued(fields[c], fields'[c])

LEMMA SameIsRevalued ==
  ASSUME NEW fs, AreFields(fs)  PROVE Revalued(fs, fs)
<1>1. fs = [i \in DOMAIN fs |-> fs[i]]
  BY DEF AreFields, IsList
<1>2. \A i \in DOMAIN fs : fs[i] = [fs[i] EXCEPT !.value = fs[i].value]
  BY DEF AreFields, IsFieldRecord
<1>. QED  BY <1>1, <1>2 DEF Revalued

LEMMA SetValuesRevalues ==
  ASSUME NEW entries, SetValues(entries), types' = types  PROVE OnlyValues
<1>. DEFINE Value(c, i) == IF \E e \in entries : e.comp = c /\ i \in Targets(e)
                           THEN "configured" ELSE "default"
             New(c) == [i \in DOMAIN fields[c] |-> [fields[c][i] EXCEPT !.value = Value(c,
               i)]]
<1>1. fields' = [c \in Component |-> New(c)]
  BY DEF SetValues
<1>2. ASSUME NEW c  PROVE Revalued(fields[c], New(c))
  <2>. HIDE DEF Value
  <2>. QED  BY DEF Revalued
<1>. HIDE DEF New
<1>. QED  BY <1>1, <1>2 DEF OnlyValues

LEMMA RestoreRevalues ==
  ASSUME FieldsInv, NEW x, Front(x.path) \in Component \/ x.kind # "field",
         RestoreField(x), types' = types
  PROVE  OnlyValues
<1>1. \A c \in Component : Revalued(fields[c], fields[c])
  BY SameIsRevalued DEF FieldsInv
<1>2. CASE x.kind # "field"
  BY <1>1, <1>2 DEF RestoreField, OnlyValues, Component
<1>3. CASE x.kind = "field"
  <2>. DEFINE d == Front(x.path)
              New == [i \in DOMAIN fields[d] |->
                        IF fields[d][i].name = Last(x.path)
                        THEN [fields[d][i] EXCEPT !.value = "undefined"] ELSE fields[d][i]]
  <2>1. fields' = [fields EXCEPT ![d] = New]
    BY <1>3 DEF RestoreField
  <2>2. Revalued(fields[d], New)
    <3>1. ASSUME NEW i \in DOMAIN fields[d]
          PROVE  \E v : New[i] = [fields[d][i] EXCEPT !.value = v]
      <4>1. Revalued(fields[d], fields[d])
        BY <1>1, <1>3
      <4>. QED  BY <4>1 DEF Revalued
    <3>2. DOMAIN New = DOMAIN fields[d] /\ New = [i \in DOMAIN fields[d] |-> New[i]]
      OBVIOUS
    <3>. HIDE DEF New
    <3>. QED  BY <3>1, <3>2 DEF Revalued
  <2>. HIDE DEF d, New
  <2>3. DOMAIN fields' = Component /\ \A c \in Component :
          fields'[c] = IF c = d THEN New ELSE fields[c]
    BY <2>1 DEF Component
  <2>. QED  BY <1>1, <2>2, <2>3 DEF OnlyValues
<1>. QED  BY <1>2, <1>3

LEMMA OnlyValuesKeepsFields ==
  ASSUME FieldsInv, OnlyValues  PROVE FieldsInv'
<1>1. ASSUME NEW c \in Component
      PROVE  AreFields(fields'[c]) /\ AreTyped(fields'[c], types)
  <2>1. AreFields(fields[c]) /\ AreTyped(fields[c], types) /\ Revalued(fields[c],
       fields'[c])
    BY DEF FieldsInv, OnlyValues
  <2>2. DOMAIN fields'[c] = DOMAIN fields[c]
    BY <2>1 DEF Revalued
  <2>. QED  BY <2>1, <2>2, RevaluedFields DEF AreTyped, IsTyped
<1>. QED  BY <1>1 DEF FieldsInv, OnlyValues, Component

LEMMA CallsKeepFields ==
  ASSUME FieldsInv, NEW c \in Component, Called(c)  PROVE FieldsInv'
<1>1. Registry(types') /\ Grown(types, types')
  BY RegistryGrows DEF FieldsInv, Called
<1>2. ASSUME NEW d \in Component
      PROVE  AreFields(fields'[d]) /\ AreTyped(fields'[d], types')
  <2>1. AreFields(fields[d]) /\ AreTyped(fields[d], types)
    BY DEF FieldsInv
  <2>2. Edited(fields[d], fields'[d], types')
    BY DEF Called, Edited
  <2>. QED  BY <1>1, <2>1, <2>2, ElementsOfEdited, EditedAreTyped DEF FieldsInv
<1>. QED  BY <1>1, <1>2 DEF FieldsInv, Called, Component

LEMMA RegistersKeepsFields ==
  ASSUME FieldsInv, Registers  PROVE FieldsInv'
<1>1. Grown(types, types') /\ fields' = fields
  BY ClientsAdd DEF FieldsInv, Registers
<1>2. Registry(types')
  BY <1>1, RegistryGrows DEF FieldsInv
<1>3. ASSUME NEW c \in Component  PROVE AreTyped(fields[c], types')
  BY <1>1, EditedAreTyped DEF FieldsInv, Edited
<1>. QED  BY <1>1, <1>2, <1>3 DEF FieldsInv, Component

\* The components are created without fields.
LEMMA FreshKeepsFields ==
  ASSUME FieldsInv, NEW cfg, SetConfiguration(cfg)  PROVE FieldsInv'
<1>1. types' = types /\ fields' = [c \in DOMAIN sub' |-> <<>>]
  BY DEF SetConfiguration, Fresh
<1>2. AreFields(<<>>) /\ AreTyped(<<>>, types)
  <2>1. <<>> \in Seq({}) /\ DOMAIN <<>> = {}
    OBVIOUS
  <2>. QED  BY <2>1 DEF AreFields, AreTyped, IsList
<1>. QED  BY <1>1, <1>2 DEF FieldsInv, Component

LEMMA TailOfFields ==
  ASSUME NEW fs, AreFields(fs), AreTyped(fs, types), fs # <<>>
  PROVE  AreFields(Tail(fs)) /\ AreTyped(Tail(fs), types)
<1>1. PICK S : fs \in Seq(S)
  BY DEF AreFields, IsList
<1>2. Tail(fs) \in Seq(S)
  BY <1>1
<1>3. \A i \in DOMAIN Tail(fs) : i + 1 \in DOMAIN fs /\ Tail(fs)[i] = fs[i + 1]
  BY <1>1
<1>. QED  BY <1>2, <1>3 DEF AreFields, AreTyped, IsList

LEMMA RestartKeepsFields ==
  ASSUME FieldsInv, Restart  PROVE FieldsInv'
<1>1. types' = types /\ DOMAIN sub' \subseteq Component
  BY DEF Restart
<1>2. PICK less \in {{}} \union {{c} : c \in {c \in DOMAIN sub' : fields[c] # <<>>}} :
        fields' = [c \in DOMAIN sub' |-> IF c \in less THEN Tail(fields[c]) ELSE fields[c]]
  BY DEF Restart
<1>3. \A c \in less : fields[c] # <<>>
  OBVIOUS
<1>4. \A c \in Component : AreFields(fields[c]) /\ AreTyped(fields[c], types)
  BY DEF FieldsInv
<1>5. ASSUME NEW c \in DOMAIN sub'
      PROVE  AreFields(fields'[c]) /\ AreTyped(fields'[c], types)
  <2>1. CASE c \in less
    BY <1>1, <1>2, <1>3, <1>4, <2>1, TailOfFields
  <2>2. CASE c \notin less
    BY <1>1, <1>2, <1>4, <2>2
  <2>. QED  BY <2>1, <2>2
<1>. QED  BY <1>1, <1>2, <1>5 DEF FieldsInv, Component

LEMMA FieldsInvStep ==
  ASSUME FieldsInv, [Next]_vars  PROVE FieldsInv'
<1>1. ASSUME UNCHANGED <<types, fields>>  PROVE FieldsInv'
  BY <1>1 DEF FieldsInv, Component
<1>2. ASSUME NEW cfg \in Configs, SetConfiguration(cfg)  PROVE FieldsInv'
  BY <1>2, FreshKeepsFields
<1>3. CASE ClientCall
  BY <1>3, PublishesCalls, CallsKeepFields, RegistersKeepsFields DEF ClientCall, FieldsInv
<1>4. CASE Configure
  BY <1>4, SetValuesRevalues, OnlyValuesKeepsFields DEF Configure
<1>5. CASE Connect
  BY <1>1, <1>5 DEF Connect
<1>6. CASE Store \/ WriteLine \/ StoreDone \/ Restore \/ ParseLine \/ ParseDone \/
     RestoreDone
  BY <1>1, <1>6 DEF Store, WriteLine, StoreDone, Restore, ParseLine, ParseDone, RestoreDone,
     pubVars
<1>7. CASE RestoreItem
  <2>1. types' = types
    BY <1>7 DEF RestoreItem
  <2>2. CASE CanRestore(parsed[at + 1]) /\ RestoreField(parsed[at + 1])
    BY <2>1, <2>2, RestoreRevalues, OnlyValuesKeepsFields DEF CanRestore
  <2>3. CASE UNCHANGED fields
    BY <1>1, <2>1, <2>3
  <2>. QED  BY <1>7, <2>2, <2>3 DEF RestoreItem
<1>8. CASE Restart
  BY <1>8, RestartKeepsFields
<1>9. CASE UNCHANGED vars
  BY <1>1, <1>9 DEF vars, pubVars
<1>. QED  BY <1>2, <1>3, <1>4, <1>5, <1>6, <1>7, <1>8, <1>9 DEF Next

LEMMA FieldsInvHolds == Spec => []FieldsInv
<1>1. Init => FieldsInv
  BY FieldsInvInit
<1>2. FieldsInv /\ [Next]_vars => FieldsInv'
  BY FieldsInvStep
<1>. QED  BY <1>1, <1>2, PTL DEF Spec

\* Whatever the components register and publish, and in whatever order, the
\* type of every field is registered, once, and has the size of the field
\* (Publication::PublishArray, TypeRegistry::Add*). Types are only ever added,
\* so that what was found stays what is found.
THEOREM FieldsAreTyped == Spec => []FieldsKnowTheirType
<1>1. FieldsInv => FieldsKnowTheirType
  BY FieldsInvImplies
<1>. QED  BY <1>1, FieldsInvHolds, PTL

-----------------------------------------------------------------------------
(***************************************************************************)
(* The guard against recursion.                                            *)
(***************************************************************************)

\* A guard that is closed between two calls was left so by an exception.
GuardInv ==
  /\ DOMAIN guard = Component
  /\ \A c \in Component : guard[c] # NoUuid => c \in escaped
  /\ denied # NoComponent => denied \in escaped

LEMMA GuardStays ==
  ASSUME GuardInv, UNCHANGED guard, DOMAIN fields' = Component,
         escaped' = escaped, denied' \in {denied, NoComponent}
  PROVE  GuardInv'
BY DEF GuardInv, Component

LEMMA FreshGuards ==
  ASSUME NEW comps, fields' = [c \in comps |-> fields'[c]],
         guard' = [c \in comps |-> NoUuid], denied' = NoComponent
  PROVE  GuardInv'
BY DEF GuardInv, Component

LEMMA ByUuidKeepsGuard ==
  ASSUME GuardInv, NEW c \in Component, NEW n,
         NEW u \in UserUuid \union {UuidString}, PublishByUuid(c, n, u),
         DOMAIN fields' = Component
  PROVE  GuardInv'
<1>1. u # NoUuid
  <2>1. \A v \in UserUuid : v[1] # "none"
    BY TypesAssumption
  <2>2. NoUuid[1] = "none" /\ UuidString[1] = "kind"
    BY DEF NoUuid, NoType, Type, UuidString
  <2>. QED  BY <2>1, <2>2
<1>2. CASE Served /\ UNCHANGED <<guard, escaped>>
  BY <1>2, GuardStays DEF Served
<1>3. CASE guard[c] = u /\ denied' = c /\ SetGuard(c, NoUuid) /\ UNCHANGED escaped
  <2>1. c \in escaped
    BY <1>1, <1>3 DEF GuardInv
  <2>. QED  BY <1>3, <2>1 DEF GuardInv, SetGuard, Component
<1>4. CASE Served /\ PublishByType(c, n, GetTypeOfUuid(u))
  <2>. DEFINE t == GetTypeOfUuid(u)
  <2>. HIDE DEF t
  <2>1. CASE SetGuard(c, t.uuid) /\ escaped' = escaped \union {c}
    BY <1>4, <2>1 DEF GuardInv, SetGuard, Served, Component
  <2>2. CASE SetGuard(c, NoUuid) /\ UNCHANGED escaped
    BY <1>4, <2>2 DEF GuardInv, SetGuard, Served, Component
  <2>. QED  BY <1>4, <2>1, <2>2 DEF PublishByType, LeaveGuard, t
<1>. QED  BY <1>2, <1>3, <1>4 DEF PublishByUuid

LEMMA PublishesKeepsGuard ==
  ASSUME GuardInv, NEW c \in Component, Publishes(c), DOMAIN fields' = Component
  PROVE  GuardInv'
<1>1. ASSUME Served, UNCHANGED <<guard, escaped>>  PROVE GuardInv'
  BY <1>1, GuardStays DEF Served
<1>2. ASSUME NEW n, NEW k, PublishTyped(c, n, k)  PROVE GuardInv'
  BY <1>1, <1>2 DEF PublishTyped
<1>3. ASSUME NEW n, NEW u, PublishIField(c, n, u)  PROVE GuardInv'
  BY <1>1, <1>3 DEF PublishIField
<1>4. ASSUME NEW n, NEW k, NEW m, PublishArray(c, n, k, m)  PROVE GuardInv'
  BY <1>1, <1>4 DEF PublishArray
<1>5. ASSUME PublishNothing(c)  PROVE GuardInv'
  BY <1>1, <1>5 DEF PublishNothing
<1>6. ASSUME NEW n, NEW u, PublishProperty(c, n, u)  PROVE GuardInv'
  BY <1>1, <1>6 DEF PublishProperty
<1>7. ASSUME NEW n, NEW k, NEW m, PublishLuaValue(c, n, k, m)  PROVE GuardInv'
  BY <1>2, <1>4, <1>7 DEF PublishLuaValue
<1>8. ASSUME Unpublish(c)  PROVE GuardInv'
  BY <1>1, <1>8 DEF Unpublish
<1>. QED
  BY <1>2, <1>3, <1>4, <1>5, <1>6, <1>7, <1>8, ByUuidKeepsGuard DEF Publishes

LEMMA GuardInvInit ==
  ASSUME Init  PROVE GuardInv
<1>1. fields = <<>> /\ guard = <<>> /\ denied = NoComponent
  BY DEF Init, BuilderInit
<1>2. DOMAIN <<>> = {}
  OBVIOUS
<1>. QED  BY <1>1, <1>2 DEF GuardInv, Component

LEMMA GuardInvStep ==
  ASSUME FieldsInv, GuardInv, [Next]_vars  PROVE GuardInv'
<1>1. ASSUME UNCHANGED <<fields, guard, escaped>>, denied' \in {denied, NoComponent}
      PROVE  GuardInv'
  BY <1>1, GuardStays DEF Component
<1>2. ASSUME OnlyValues, UNCHANGED <<guard, escaped>>, denied' \in {denied, NoComponent}
      PROVE  GuardInv'
  BY <1>2, GuardStays DEF OnlyValues
<1>3. ASSUME NEW cfg \in Configs, SetConfiguration(cfg)  PROVE GuardInv'
  <2>1. Fresh(DOMAIN sub')
    BY <1>3 DEF SetConfiguration
  <2>2. /\ fields' = [c \in DOMAIN sub' |-> <<>>]
        /\ guard' = [c \in DOMAIN sub' |-> NoUuid]
        /\ denied' = NoComponent
    BY <2>1 DEF Fresh, Served
  <2>. QED  BY <2>2, FreshGuards
<1>4. CASE ClientCall
  <2>1. ASSUME NEW c \in Component, Publishes(c)  PROVE GuardInv'
    <3>1. DOMAIN fields' = Component
      BY <2>1, PublishesCalls DEF Called, FieldsInv
    <3>. QED  BY <2>1, <3>1, PublishesKeepsGuard
  <2>2. CASE Registers
    BY <1>1, <2>2 DEF Registers, Served
  <2>. QED  BY <1>4, <2>1, <2>2 DEF ClientCall
<1>5. CASE Configure
  <2>1. PICK entries : SetValues(entries)
    BY <1>5 DEF Configure
  <2>. QED  BY <1>2, <1>5, <2>1, SetValuesRevalues DEF Configure, Served
<1>6. CASE Connect
  BY <1>1, <1>6 DEF Connect, Served
<1>7. CASE Store \/ WriteLine \/ StoreDone \/ Restore \/ ParseLine \/ ParseDone \/
     RestoreDone
  BY <1>1, <1>7 DEF Store, WriteLine, StoreDone, Restore, ParseLine, ParseDone, RestoreDone,
     pubVars
<1>8. CASE RestoreItem
  <2>1. UNCHANGED <<types, guard, escaped, denied>>
    BY <1>8 DEF RestoreItem
  <2>2. CASE CanRestore(parsed[at + 1]) /\ RestoreField(parsed[at + 1])
    BY <1>2, <2>1, <2>2, RestoreRevalues DEF CanRestore
  <2>3. CASE UNCHANGED fields
    BY <1>1, <2>1, <2>3
  <2>. QED  BY <1>8, <2>2, <2>3 DEF RestoreItem
<1>9. CASE Restart
  <2>1. /\ \E less : fields' = [c \in DOMAIN sub' |-> IF c \in less THEN Tail(fields[c])
                                                      ELSE fields[c]]
        /\ guard' = [c \in DOMAIN sub' |-> NoUuid]
        /\ denied' = NoComponent
    BY <1>9 DEF Restart
  <2>. QED  BY <2>1, FreshGuards
<1>10. CASE UNCHANGED vars
  BY <1>1, <1>10 DEF vars, pubVars
<1>. QED  BY <1>3, <1>4, <1>5, <1>6, <1>7, <1>8, <1>9, <1>10 DEF Next

\* PublishField by uuid is refused as recursive only after an exception went
\* through the type of an earlier call of that component
\* (Publication::_recursivePubGuard).
THEOREM GuardStopsRecursionOnly == Spec => []GuardIsForRecursion
<1>1. Init => GuardInv
  BY GuardInvInit
<1>2. FieldsInv /\ GuardInv /\ [Next]_vars => GuardInv'
  BY GuardInvStep
<1>3. GuardInv => GuardIsForRecursion
  BY DEF GuardInv, GuardIsForRecursion
<1>. QED  BY <1>1, <1>2, <1>3, FieldsInvHolds, PTL DEF Spec

-----------------------------------------------------------------------------
(***************************************************************************)
(* The values and the connections of the configuration.                    *)
(***************************************************************************)

Built == phase \notin {"new", "publishing", "failed"}

\* Field f has got the value of entry e, if it was there when it was given.
Fits(f, e) ==
  f.name = e.field => /\ f.value # "default"
                      /\ f.value = "configured" => f.count = e.size

FieldIn(fs, p) == p # <<>> /\ Front(p) \in DOMAIN fs /\ Last(p) \in NamesOf(fs[Front(p)])

OutputIn(fs, p) == FieldIn(fs, p) /\ Last(p) \in OutputName

ValuesFit(cfg, fs) ==
  \A e \in cfg.values : e.comp \in DOMAIN fs =>
    \A i \in DOMAIN fs[e.comp] : Fits(fs[e.comp][i], e)

ConnectionsMade(cfg, fs, pairs) ==
  /\ \A pair \in pairs : OutputIn(fs, pair[1]) /\ FieldIn(fs, pair[2])
  /\ \A e \in cfg.connections :
       OutputIn(fs, e.from) /\ OutputIn(fs, e.to) =>
         <<e.from, e.to>> \in pairs \/ <<e.to, e.from>> \in pairs

ConfigInv ==
  Built => /\ ValuesFit(config, fields)
           /\ config # NoConfig /\ phase # "configured" =>
                ConnectionsMade(config, fields, connected)

LEMMA ConfigInvImplies ==
  ASSUME ConfigInv  PROVE ConfigurationIsApplied
<1>1. ASSUME Built, NEW e \in config.values, NEW i \in Targets(e)
      PROVE  LET f == fields[e.comp][i]
             IN /\ f.value # "default"
                /\ f.value = "configured" => f.count = e.size
  BY <1>1 DEF ConfigInv, ValuesFit, Fits, Targets, Component
<1>2. ASSUME Built, config # NoConfig, phase # "configured"
      PROVE  /\ \A pair \in connected : IsOutput(pair[1]) /\ IsField(pair[2])
             /\ \A e \in config.connections :
                  IsOutput(e.from) /\ IsOutput(e.to) =>
                     <<e.from, e.to>> \in connected \/ <<e.to, e.from>> \in connected
  BY <1>2 DEF ConfigInv, ConnectionsMade, OutputIn, FieldIn, IsOutput, IsField, Component
<1>. QED  BY <1>1, <1>2 DEF ConfigurationIsApplied, Built

LEMMA FieldsStayWhere ==
  ASSUME NEW fs, NEW gs, DOMAIN gs = DOMAIN fs,
         \A c \in DOMAIN fs : NamesOf(gs[c]) = NamesOf(fs[c])
  PROVE  \A p : /\ FieldIn(gs, p) <=> FieldIn(fs, p)
                /\ OutputIn(gs, p) <=> OutputIn(fs, p)
BY DEF FieldIn, OutputIn

\* Calls after configure add fields with their initial values.
LEMMA CallsKeepValues ==
  ASSUME FieldsInv, ValuesFit(config, fields), NEW c \in Component, Called(c)
  PROVE  ValuesFit(config, fields')
<1>1. SUFFICES ASSUME NEW e \in config.values, e.comp \in DOMAIN fields',
                      NEW i \in DOMAIN fields'[e.comp]
               PROVE  Fits(fields'[e.comp][i], e)
  BY DEF ValuesFit
<1>2. e.comp \in Component /\ DOMAIN fields' = Component
  BY <1>1 DEF Called
<1>3. \A j \in DOMAIN fields[e.comp] : Fits(fields[e.comp][j], e)
  BY <1>2 DEF ValuesFit, Component
<1>4. CASE e.comp # c
  BY <1>2, <1>3, <1>4 DEF Called
<1>5. CASE e.comp = c
  <2>1. \/ IsNew(fields'[c][i], types')
        \/ \E j \in DOMAIN fields[c] : fields'[c][i] = fields[c][j]
    BY <1>2, <1>5, ElementsOfEdited DEF Called, FieldsInv
  <2>2. ASSUME IsNew(fields'[c][i], types')  PROVE Fits(fields'[c][i], e)
    BY <2>2 DEF IsNew, Fits
  <2>. QED  BY <1>3, <1>5, <2>1, <2>2
<1>. QED  BY <1>4, <1>5

\* configure gives its value to every field that an entry names.
LEMMA ConfigureFits ==
  ASSUME FieldsInv, SetValues(config.values), ~ \E e \in config.values : Unfit(e),
         config' = config
  PROVE  ValuesFit(config', fields')
<1>1. SUFFICES ASSUME NEW e \in config.values, e.comp \in DOMAIN fields',
                      NEW i \in DOMAIN fields'[e.comp]
               PROVE  Fits(fields'[e.comp][i], e)
  BY DEF ValuesFit
<1>. DEFINE c == e.comp
            f == fields[c][i]
            value == IF \E d \in config.values : d.comp = c /\ i \in Targets(d)
                     THEN "configured" ELSE "default"
<1>2. c \in Component /\ i \in DOMAIN fields[c]
  BY <1>1 DEF SetValues
<1>3. fields'[c][i] = [f EXCEPT !.value = value]
  BY <1>1, <1>2 DEF SetValues
<1>4. f = [name |-> f.name, type |-> f.type, count |-> f.count, value |-> f.value]
  BY <1>2 DEF FieldsInv, AreFields, IsFieldRecord
<1>. HIDE DEF value, f
<1>5. /\ fields'[c][i].value = value
      /\ fields'[c][i].name = f.name
      /\ fields'[c][i].count = f.count
  BY <1>3, <1>4
<1>6. ASSUME f.name = e.field  PROVE value = "configured" /\ f.count = e.size
  <2>1. i \in Targets(e)
    BY <1>2, <1>6 DEF Targets, f
  <2>2. f.count = e.size
    BY <2>1 DEF Unfit, f
  <2>. QED  BY <2>1, <2>2 DEF value
<1>. QED  BY <1>5, <1>6 DEF Fits

LEMMA ConnectMakes ==
  ASSUME connected' = {Ends(e) : e \in {e \in config.connections : Joins(e)}}
  PROVE  ConnectionsMade(config, fields, connected')
<1>1. /\ \A p : IsField(p) <=> FieldIn(fields, p)
      /\ \A p : IsOutput(p) <=> OutputIn(fields, p)
  BY DEF IsOutput, IsField, OutputIn, FieldIn, Component
<1>2. ASSUME NEW pair \in connected'
      PROVE  OutputIn(fields, pair[1]) /\ FieldIn(fields, pair[2])
  BY <1>1 DEF Joins
<1>3. ASSUME NEW e \in config.connections, OutputIn(fields, e.from), OutputIn(fields, e.to)
      PROVE  <<e.from, e.to>> \in connected' \/ <<e.to, e.from>> \in connected'
  <2>1. IsOutput(e.from) /\ IsOutput(e.to) /\ IsField(e.from) /\ IsField(e.to)
    BY <1>1, <1>3 DEF IsOutput
  <2>2. Ends(e) = <<e.to, e.from>> \/ Ends(e) = <<e.from, e.to>>
    BY DEF Ends
  <2>3. Joins(e)
    BY <2>1, <2>2 DEF Joins
  <2>. QED  BY <2>2, <2>3
<1>. QED  BY <1>2, <1>3 DEF ConnectionsMade

\* Restoring a field changes neither its name nor that of another one, and
\* it does not give it the default value.
LEMMA RestoreKeepsConfig ==
  ASSUME FieldsInv, ConfigInv, NEW x, Front(x.path) \in Component \/ x.kind # "field",
         RestoreField(x), UNCHANGED <<types, config, phase, connected>>
  PROVE  ConfigInv'
<1>1. OnlyValues
  BY RestoreRevalues
<1>2. DOMAIN fields' = DOMAIN fields /\ \A c \in DOMAIN fields :
        NamesOf(fields'[c]) = NamesOf(fields[c])
  BY <1>1, RevaluedFields DEF OnlyValues, FieldsInv, Component
<1>3. \A p : /\ FieldIn(fields', p) <=> FieldIn(fields, p)
             /\ OutputIn(fields', p) <=> OutputIn(fields, p)
  BY <1>2, FieldsStayWhere
<1>4. ConnectionsMade(config, fields, connected) => ConnectionsMade(config, fields',
     connected)
  BY <1>3, Zenon DEF ConnectionsMade
<1>5. ASSUME NEW c \in Component, NEW i \in DOMAIN fields[c], NEW e, Fits(fields[c][i], e)
      PROVE  Fits(fields'[c][i], e)
  <2>1. AreFields(fields[c]) /\ Revalued(fields[c], fields'[c])
    BY <1>1 DEF FieldsInv, OnlyValues
  <2>2. fields'[c][i].name = fields[c][i].name /\ fields'[c][i].count = fields[c][i].count
    <3>1. i \in DOMAIN fields'[c]
      BY <2>1 DEF Revalued
    <3>. QED  BY <2>1, <3>1, RevaluedFields
  <2>3. fields'[c][i].value = fields[c][i].value \/ fields'[c][i].value = "undefined"
    <3>1. CASE x.kind # "field"
      BY <3>1 DEF RestoreField
    <3>2. CASE x.kind = "field"
      <4>1. fields[c][i] = [name |-> fields[c][i].name, type |-> fields[c][i].type,
                            count |-> fields[c][i].count, value |-> fields[c][i].value]
        BY <2>1 DEF AreFields, IsFieldRecord
      <4>2. \/ fields'[c][i] = fields[c][i]
            \/ fields'[c][i] = [fields[c][i] EXCEPT !.value = "undefined"]
        BY <3>2 DEF RestoreField, Component
      <4>. QED  BY <4>1, <4>2
    <3>. QED  BY <3>1, <3>2
  <2>. QED  BY <1>5, <2>2, <2>3 DEF Fits
<1>6. \A c \in Component : DOMAIN fields'[c] = DOMAIN fields[c]
  BY <1>1 DEF OnlyValues, Revalued
<1>7. ValuesFit(config, fields) => ValuesFit(config, fields')
  BY <1>2, <1>5, <1>6 DEF ValuesFit, Component
<1>. QED  BY <1>4, <1>7 DEF ConfigInv, Built

LEMMA ConfigInvStep ==
  ASSUME FieldsInv, ConfigInv, [Next]_vars  PROVE ConfigInv'
<1>1. ASSUME UNCHANGED <<config, fields, connected>>,
             \/ phase' = phase
             \/ phase \in {"Standby", "Storing", "Restoring"}
      PROVE  ConfigInv'
  BY <1>1 DEF ConfigInv, Built
<1>2. ASSUME NEW cfg \in Configs, SetConfiguration(cfg)  PROVE ConfigInv'
  BY <1>2 DEF SetConfiguration, ConfigInv, Built
<1>3. CASE ClientCall
  <2>1. UNCHANGED <<config, phase, connected>> /\ phase \in {"publishing", "configured"}
    BY <1>3 DEF ClientCall
  <2>2. ASSUME NEW c \in Component, Publishes(c)  PROVE ConfigInv'
    <3>1. Called(c)
      BY <2>2, PublishesCalls DEF FieldsInv
    <3>2. ValuesFit(config, fields) => ValuesFit(config, fields')
      BY <3>1, CallsKeepValues
    <3>. QED  BY <2>1, <3>2 DEF ConfigInv, Built
  <2>3. CASE Registers
    BY <1>1, <2>1, <2>3 DEF Registers
  <2>. QED  BY <1>3, <2>2, <2>3 DEF ClientCall
<1>4. CASE Configure
  <2>. DEFINE unfit == {e \in config.values : Unfit(e)}
  <2>1. CASE phase' = "failed"
    BY <2>1 DEF ConfigInv, Built
  <2>2. CASE unfit = {} /\ SetValues(config.values) /\ phase' = "configured"
    <3>1. config' = config /\ ~ \E e \in config.values : Unfit(e)
      BY <1>4, <2>2 DEF Configure
    <3>2. ValuesFit(config', fields')
      BY <2>2, <3>1, ConfigureFits
    <3>. QED  BY <2>2, <3>2 DEF ConfigInv
  <2>. QED  BY <1>4, <2>1, <2>2 DEF Configure
<1>5. CASE Connect
  <2>1. /\ phase = "configured"
        /\ UNCHANGED <<config, fields>>
        /\ connected' = {Ends(e) : e \in {e \in config.connections : Joins(e)}}
    BY <1>5 DEF Connect
  <2>2. ConnectionsMade(config, fields, connected')
    BY <2>1, ConnectMakes
  <2>. QED  BY <2>1, <2>2 DEF ConfigInv, Built
<1>6. CASE Store \/ WriteLine \/ StoreDone \/ Restore \/ ParseLine \/ ParseDone \/
     RestoreDone
  BY <1>1, <1>6 DEF Store, WriteLine, StoreDone, Restore, ParseLine, ParseDone, RestoreDone,
     pubVars, builderVars
<1>7. CASE RestoreItem
  <2>1. UNCHANGED <<types, config, phase, connected>>
    BY <1>7 DEF RestoreItem, builderVars
  <2>2. CASE CanRestore(parsed[at + 1]) /\ RestoreField(parsed[at + 1])
    BY <2>1, <2>2, RestoreKeepsConfig DEF CanRestore
  <2>3. CASE UNCHANGED fields
    BY <1>1, <2>1, <2>3
  <2>. QED  BY <1>7, <2>2, <2>3 DEF RestoreItem
<1>8. CASE Restart
  <2>1. config' = NoConfig
    BY <1>8 DEF Restart
  <2>2. NoConfig.values = {}
    BY DEF NoConfig
  <2>. QED  BY <2>1, <2>2 DEF ConfigInv, ValuesFit
<1>9. CASE UNCHANGED vars
  BY <1>1, <1>9 DEF vars, pubVars, builderVars
<1>. QED  BY <1>2, <1>3, <1>4, <1>5, <1>6, <1>7, <1>8, <1>9 DEF Next

\* A simulation that got as far as Configure ended has its values and its
\* connections, and keeps them until the process ends, whatever is published
\* later, stored and restored (LuaBuilder::initComponents, connect).
THEOREM ConfigurationsAreApplied == Spec => []ConfigurationIsApplied
<1>1. Init => ConfigInv
  BY DEF Init, BuilderInit, ConfigInv, Built
<1>2. FieldsInv /\ ConfigInv /\ [Next]_vars => ConfigInv'
  BY ConfigInvStep
<1>3. ConfigInv => ConfigurationIsApplied
  BY ConfigInvImplies
<1>. QED  BY <1>1, <1>2, <1>3, FieldsInvHolds, PTL DEF Spec

-----------------------------------------------------------------------------
(***************************************************************************)
(* The REST service: types of its state.                                   *)
(***************************************************************************)

\* The two halves of a value are of the same writing.
Whole(e) == e[1] = e[2]

Events == [what : {"read", "set"}, of : Worker \union {Gone}]
            \union [what : {"entryPoint", "stop"}, of : {None}]

Elements == [{1, 2} -> Values]

Handlers == [buf : {<<>>} \union Elements, short : BOOLEAN, got : Elements,
             updated : BOOLEAN, queued : BOOLEAN, raced : BOOLEAN]

PcStates == {"idle", "lock", "ask", "wait", "set", "asked", "ending", "stuck",
             "scheduled", "start", "joining", "flag", "unflag", "hold", "held",
             "storage", "exit", "abort", "abortState"}

RestTypes ==
  /\ queue \in Seq(Events)
  /\ cur \in Events \union {None}
  /\ th \in {"none", "step", "event", "writing", "stopped", "returning"}
  /\ th = "event" => cur \in Events
  /\ element \in Elements
  /\ pc \in [Worker -> PcStates]
  /\ handler \in [Worker -> Handlers]

\* No event is the absence of one.
LEMMA NoneIsNoEvent == None \notin Events
<1>1. Events \subseteq [what : {"read", "set", "entryPoint", "stop"},
                        of : Worker \union {None, Gone}]
  BY DEF Events
<1>. QED  BY <1>1, RestAssumption

LEMMA PairsAreElements ==
  ASSUME NEW n \in Values
  PROVE  /\ Pair(n) \in Elements /\ Whole(Pair(n))
         /\ <<n, n>> \in Elements /\ Whole(<<n, n>>)
<1>1. {1, 2} = 1 .. 2
  OBVIOUS
<1>2. <<n, n>> \in [1 .. 2 -> Values]
  OBVIOUS
<1>. QED  BY <1>1, <1>2 DEF Pair, Elements, Whole

LEMMA NewHandlers ==
  ASSUME NEW buf \in {<<>>} \union Elements
  PROVE  NewHandler(buf) \in Handlers
  BY PairsAreElements, RestAssumption DEF NewHandler, Handlers

\* Destroying a handler changes whose an event is, and nothing else of it.
LEMMA Dangled ==
  ASSUME NEW e \in Events \union {None}, NEW w \in Worker
  PROVE  /\ Dangle(e, w) \in Events \union {None}
         /\ e \in Events => /\ Dangle(e, w) \in Events
                            /\ Dangle(e, w).what = e.what
                            /\ Dangle(e, w).of = IF e.of = w THEN Gone ELSE e.of
         /\ e = None => Dangle(e, w) = None
<1>1. CASE e = None
  BY <1>1, NoneIsNoEvent DEF Dangle
<1>2. CASE e \in Events
  BY <1>2, NoneIsNoEvent, RestAssumption DEF Dangle, Events
<1>. QED  BY <1>1, <1>2

LEMMA Destroyed ==
  ASSUME RestTypes, NEW w \in Worker, Destroy(w)
  PROVE  /\ queue' \in Seq(Events) /\ Len(queue') = Len(queue)
         /\ \A i \in 1 .. Len(queue) : queue'[i] = Dangle(queue[i], w)
         /\ cur' = Dangle(cur, w)
         /\ handler' = [handler EXCEPT ![w] = NewHandler(<<>>)]
         /\ handler' \in [Worker -> Handlers]
         /\ cur' \in Events \union {None}
         /\ cur \in Events => cur' \in Events
<1>1. queue' = [i \in 1 .. Len(queue) |-> Dangle(queue[i], w)]
  BY DEF Destroy, RestTypes
<1>2. \A i \in 1 .. Len(queue) : Dangle(queue[i], w) \in Events
  BY Dangled DEF RestTypes
<1>3. queue' \in Seq(Events) /\ Len(queue') = Len(queue)
  BY <1>1, <1>2 DEF RestTypes
<1>4. NewHandler(<<>>) \in Handlers
  BY NewHandlers
<1>. QED  BY <1>1, <1>3, <1>4, Dangled DEF Destroy, RestTypes

LEMMA UpdatedHandlers ==
  ASSUME RestTypes, NEW w \in Worker
  PROVE  /\ Written(handler[w]) \in Elements
         /\ Updated(handler[w]) \in Handlers
         /\ Updated(handler[w]).buf = <<>>
         /\ Updated(handler[w]).got = Written(handler[w])
         /\ Updated(handler[w]).updated
         /\ Updated(handler[w]).queued = handler[w].queued
         /\ Updated(handler[w]).raced = handler[w].raced
  BY DEF RestTypes, Written, Updated, Handlers

LEMMA EventsTyped ==
  /\ \A w \in Worker : /\ Event("read", w) \in Events
                       /\ Event("set", w) \in Events
  /\ Event("stop", None) \in Events /\ Event("entryPoint", None) \in Events
  BY DEF Event, Events

LEMMA Appended ==
  ASSUME NEW q \in Seq(Events), NEW e \in Events
  PROVE  /\ Append(q, e) \in Seq(Events)
         /\ Len(Append(q, e)) = Len(q) + 1
         /\ \A i \in 1 .. Len(q) : Append(q, e)[i] = q[i]
         /\ Append(q, e)[Len(q) + 1] = e
  OBVIOUS

LEMMA Popped ==
  ASSUME NEW q \in Seq(Events), q # <<>>
  PROVE  /\ Head(q) \in Events /\ Head(q) = q[1]
         /\ Tail(q) \in Seq(Events) /\ Len(Tail(q)) = Len(q) - 1 /\ Len(q) \in Nat \ {0}
         /\ \A i \in 1 .. Len(q) - 1 : Tail(q)[i] = q[i + 1]
  OBVIOUS

LEMMA RestTypesInit == RestInit => RestTypes
<1> SUFFICES ASSUME RestInit PROVE RestTypes
  OBVIOUS
<1>1. Pair(0) \in Elements /\ NewHandler(<<>>) \in Handlers
  BY PairsAreElements, NewHandlers, RestAssumption
<1>. QED  BY <1>1 DEF RestInit, RestTypes, PcStates

LEMMA RestTypesStep == RestTypes /\ [RestNext]_restVars => RestTypes'
<1> SUFFICES ASSUME RestTypes, [RestNext]_restVars PROVE RestTypes'
  OBVIOUS
<1>1. CASE UNCHANGED restVars
  BY <1>1 DEF RestTypes, restVars, simVars, thVars, workVars
<1>2. CASE Connected
  BY <1>2 DEF Connected, RestTypes, thVars, workVars
<1>3. CASE Pop
  BY <1>3, Popped DEF Pop, RestTypes, simVars, workVars
<1>4. CASE Update
  <2>1. CASE cur.of = Gone
    BY <1>4, <2>1 DEF Update, RestTypes, thVars, simVars, workVars
  <2>2. CASE cur.of # Gone /\ cur.of \in Worker
    <3>1. /\ element' = Written(handler[cur.of])
          /\ handler' = [handler EXCEPT ![cur.of] = Updated(handler[cur.of])]
      BY <1>4, <2>2 DEF Update, RestTypes
    <3>. QED  BY <1>4, <2>2, <3>1, UpdatedHandlers DEF Update, RestTypes, simVars
  <2>3. cur.of = Gone \/ cur.of \in Worker
    BY <1>4 DEF Update, RestTypes, Events
  <2>. QED  BY <2>1, <2>2, <2>3, RestAssumption
<1>5. CASE EntryPoint
  BY <1>5 DEF EntryPoint, RestTypes, Events, thVars, simVars, workVars
<1>6. CASE ModelWrites
  BY <1>6 DEF ModelWrites, RestTypes, Elements, simVars, workVars
<1>7. CASE ModelReturns
  <2>1. element[1] \in Values
    BY DEF RestTypes, Elements
  <2>2. element' \in Elements
    BY <1>7, <2>1, PairsAreElements DEF ModelReturns
  <2>3. queue' \in Seq(Events)
    BY <1>7, EventsTyped, Appended DEF ModelReturns, RestTypes
  <2>. QED  BY <1>7, <2>2, <2>3 DEF ModelReturns, RestTypes, simVars, workVars
<1>8. CASE Stop
  BY <1>8 DEF Stop, RestTypes, Events, thVars, simVars, workVars
<1>9. CASE StopNotifies \/ ThreadReturns
  BY <1>9 DEF StopNotifies, ThreadReturns, RestTypes, Events, thVars, simVars, workVars
<1>10. ASSUME NEW w \in Worker, Request(w) PROVE RestTypes'
  <2>1. CASE Get(w)
    BY <1>10, <2>1 DEF Get, RestTypes, Goto, PcStates, Event, Events, thVars, simVars,
       workVars
  <2>2. CASE GetStatus(w)
    BY <1>10, <2>2 DEF GetStatus, RestTypes, Goto, PcStates, Event, Events, thVars,
       simVars, workVars
  <2>3. CASE Post(w)
    <3>1. PICK n \in Values, short \in BOOLEAN :
            handler' = [handler EXCEPT ![w] = [NewHandler(<<n, n>>) EXCEPT !.short = short]]
      BY <2>3 DEF Post
    <3>2. [NewHandler(<<n, n>>) EXCEPT !.short = short] \in Handlers
      BY NewHandlers, PairsAreElements DEF Handlers
    <3>. QED  BY <1>10, <2>3, <3>1, <3>2 DEF Post, RestTypes, Goto, PcStates, thVars,
         simVars
  <2>4. CASE PostSchedule(w)
    <3>1. queue' \in Seq(Events)
      BY <2>4, EventsTyped, Appended DEF PostSchedule, RestTypes
    <3>2. pc' \in [Worker -> PcStates]
      BY <1>10, <2>4 DEF PostSchedule, RestTypes, Goto, PcStates
    <3>. QED  BY <2>4, <3>1, <3>2 DEF PostSchedule, RestTypes
  <2>5. CASE PostRun(w)
    BY <1>10, <2>5 DEF PostRun, RestTypes, Goto, PcStates, Event, Events, thVars,
       simVars, workVars
  <2>6. CASE PostHold(w)
    BY <1>10, <2>6 DEF PostHold, RestTypes, Goto, PcStates, Event, Events, thVars,
       simVars, workVars
  <2>7. CASE PostStorage(w)
    BY <1>10, <2>7 DEF PostStorage, RestTypes, Goto, PcStates, Event, Events, thVars,
       simVars, workVars
  <2>8. CASE PostExit(w)
    BY <1>10, <2>8 DEF PostExit, RestTypes, Goto, PcStates, Event, Events, thVars,
       simVars, workVars
  <2>9. CASE PostAbort(w)
    BY <1>10, <2>9 DEF PostAbort, RestTypes, Goto, PcStates, Event, Events, thVars,
       simVars, workVars
  <2>. QED  BY <1>10, <2>1, <2>2, <2>3, <2>4, <2>5, <2>6, <2>7, <2>8, <2>9 DEF Request
<1>11. ASSUME NEW w \in Worker, WorkerStep(w) PROVE RestTypes'
  <2>1. CASE ReadLocks(w)
    BY <1>11, <2>1 DEF ReadLocks, RestTypes, Goto, PcStates, Event, Events, thVars,
       simVars, workVars
  <2>2. CASE setBinValue(w)
    <3>1. queue' \in Seq(Events)
      BY <1>11, <2>2, EventsTyped, Appended DEF setBinValue, RestTypes
    <3>. QED  BY <1>11, <2>2, <3>1 DEF setBinValue, RestTypes, Goto, PcStates, simVars
  <2>3. CASE onSimExecuting(w)
    BY <1>11, <2>3 DEF onSimExecuting, RestTypes, Goto, PcStates, Event, Events, thVars,
       simVars, workVars
  <2>4. CASE onSimLeavingExec(w)
    BY <1>11, <2>4 DEF onSimLeavingExec, RestTypes, Goto, PcStates, Event, Events,
       thVars, simVars, workVars
  <2>5. CASE ReadAsks(w)
    <3>1. queue' \in Seq(Events)
      BY <1>11, <2>5, EventsTyped, Appended DEF ReadAsks, scheduleUpdate, RestTypes
    <3>2. handler' \in [Worker -> Handlers] /\ element' \in Elements
      <4>1. CASE simIsRunning
        <5>1. [handler[w] EXCEPT !.queued = TRUE] \in Handlers
          BY <1>11 DEF RestTypes, Handlers
        <5>2. element' = element
              /\ handler' = [handler EXCEPT ![w] = [handler[w] EXCEPT !.queued = TRUE]]
          BY <1>11, <2>5, <4>1 DEF ReadAsks, scheduleUpdate
        <5>. QED  BY <1>11, <5>1, <5>2 DEF RestTypes
      <4>2. CASE ~simIsRunning
        <5>1. [Updated(handler[w]) EXCEPT !.raced = InLoop] \in Handlers
          BY <1>11, UpdatedHandlers DEF Handlers, InLoop
        <5>2. /\ element' = Written(handler[w])
              /\ handler' = [handler EXCEPT
                               ![w] = [Updated(handler[w]) EXCEPT !.raced = InLoop]]
          BY <1>11, <2>5, <4>2 DEF ReadAsks, scheduleUpdate, RestTypes
        <5>. QED  BY <1>11, <5>1, <5>2, UpdatedHandlers DEF RestTypes
      <4>. QED  BY <4>1, <4>2
    <3>. QED  BY <1>11, <2>5, <3>1, <3>2 DEF ReadAsks, RestTypes, Goto, PcStates, simVars
  <2>6. CASE ReadReturns(w)
    BY <1>11, <2>6, Destroyed DEF ReadReturns, RestTypes, Goto, PcStates, simVars
  <2>7. CASE SetUnlocks(w)
    BY <1>11, <2>7 DEF SetUnlocks, RestTypes, Goto, PcStates, Event, Events, thVars,
       simVars, workVars
  <2>8. CASE SetReturns(w)
    BY <1>11, <2>8, Destroyed DEF SetReturns, RestTypes, Goto, PcStates, simVars
  <2>9. CASE StartThread(w)
    BY <1>11, <2>9 DEF StartThread, RestTypes, Goto, PcStates, Event, Events, thVars,
       simVars, workVars
  <2>10. CASE ScheduleReturns(w)
    BY <1>11, <2>10 DEF ScheduleReturns, RestTypes, Goto, PcStates, Event, Events,
       thVars, simVars, workVars
  <2>11. CASE HoldWaits(w)
    BY <1>11, <2>11 DEF HoldWaits, RestTypes, Goto, PcStates, Event, Events, thVars,
       simVars, workVars
  <2>12. CASE HoldReturns(w)
    BY <1>11, <2>12 DEF HoldReturns, RestTypes, Goto, PcStates, Event, Events, thVars,
       simVars, workVars
  <2>13. CASE StorageReturns(w)
    BY <1>11, <2>13 DEF StorageReturns, RestTypes, Goto, PcStates, Event, Events, thVars,
       simVars, workVars
  <2>14. CASE AbortJoins(w) \/ AbortReturns(w) \/ EnterExecuting(w)
    BY <1>11, <2>14 DEF AbortJoins, AbortReturns, EnterExecuting, RestTypes, Goto,
       PcStates, Event, Events, thVars, simVars, workVars
  <2>. QED  BY <1>11, <2>1, <2>2, <2>3, <2>4, <2>5, <2>6, <2>7, <2>8, <2>9, <2>10, <2>11,
      <2>12, <2>13, <2>14 DEF WorkerStep, Locks
<1>12. ASSUME NEW w \in Worker, ServerStops(w) PROVE RestTypes'
  BY <1>12 DEF ServerStops, RestTypes, Goto, PcStates, thVars, simVars
<1>. QED  BY <1>1, <1>2, <1>3, <1>4, <1>5, <1>6, <1>7, <1>8, <1>9, <1>10, <1>11, <1>12
     DEF RestNext, ThreadStep

-----------------------------------------------------------------------------
(***************************************************************************)
(* The events of the handlers.                                             *)
(***************************************************************************)

\* An event of a handler is in the queue only as long as the request of that
\* handler waits for it, or, if it sets a value, has not ended.
Placed(e, p, h) ==
  /\ e.of \in Worker => \/ (e.what = "read" /\ p[e.of] = "wait" /\ ~h[e.of].updated)
                         \/ (e.what = "set" /\ p[e.of] \in {"asked", "ending"})
  /\ e.of = Gone => e.what = "set"

QueueInv ==
  /\ \A i \in 1 .. Len(queue) : Placed(queue[i], pc, handler)
  /\ cur # None => Placed(cur, pc, handler)
  /\ \A i, j \in 1 .. Len(queue) :
       queue[i].what = "read" /\ queue[i] = queue[j] => i = j
  /\ cur # None /\ cur.what = "read" => \A i \in 1 .. Len(queue) : queue[i] # cur

\* A handler that was updated by the scheduler thread, or while no scheduler
\* thread ran, has got a whole value; nobody else than its request clears it.
HandlerInv ==
  \A w \in Worker :
    /\ pc[w] \notin {"wait", "ending"} => ~handler[w].updated
    /\ pc[w] # "wait" => ~handler[w].queued
    /\ handler[w].updated /\ (handler[w].queued \/ ~handler[w].raced)
         => Whole(handler[w].got)
    /\ handler[w].buf = <<>> \/ Whole(handler[w].buf)

RestInv ==
  /\ QueueInv
  /\ HandlerInv
  /\ th # "writing" => Whole(element)
  /\ crash = "dangling" => cur # None /\ cur.what = "set"

LEMMA RestInvInit == RestInit => RestInv
<1> SUFFICES ASSUME RestInit PROVE RestInv
  OBVIOUS
<1>1. Whole(Pair(0))
  BY PairsAreElements, RestAssumption
<1>. QED  BY <1>1 DEF RestInit, RestInv, QueueInv, HandlerInv, NewHandler

\* A step of a thread that no event and no answer depends on.
LEMMA Moves ==
  ASSUME RestTypes, QueueInv, HandlerInv, handler' = handler,
         \/ pc' = pc
         \/ \E w \in Worker, to \in PcStates :
              /\ pc' = [pc EXCEPT ![w] = to]
              /\ \/ pc[w] \notin {"wait", "asked", "ending"}
                 \/ (pc[w] = "asked" /\ to = "ending"),
         cur' \in {cur, None},
         \/ queue' = queue
         \/ \E e \in Events : e.of = None /\ queue' = Append(queue, e)
  PROVE  QueueInv' /\ HandlerInv'
<1>1. \A e \in Events : Placed(e, pc, handler) => Placed(e, pc', handler')
  BY RestAssumption DEF Placed, RestTypes, Events, HandlerInv
<1>2. HandlerInv'
  BY DEF HandlerInv, RestTypes
<1>3. CASE queue' = queue
  BY <1>1, <1>2, <1>3 DEF QueueInv, RestTypes
<1>4. ASSUME NEW e \in Events, e.of = None, queue' = Append(queue, e)
      PROVE  QueueInv'
  <2>1. e.what # "read" /\ Placed(e, pc', handler')
    BY <1>4, RestAssumption DEF Events, Placed
  <2>2. /\ Len(queue') = Len(queue) + 1 /\ Len(queue) \in Nat
        /\ \A i \in 1 .. Len(queue) : queue'[i] = queue[i] /\ queue[i] \in Events
        /\ queue'[Len(queue) + 1] = e
    BY <1>4, Appended DEF RestTypes
  <2>3. \A i \in 1 .. Len(queue') : Placed(queue'[i], pc', handler')
    BY <1>1, <2>1, <2>2 DEF QueueInv
  <2>4. \A i, j \in 1 .. Len(queue') :
          queue'[i].what = "read" /\ queue'[i] = queue'[j] => i = j
    BY <2>1, <2>2 DEF QueueInv
  <2>5. cur' # None /\ cur'.what = "read" => \A i \in 1 .. Len(queue') : queue'[i] # cur'
    BY <2>1, <2>2 DEF QueueInv
  <2>6. cur' # None => Placed(cur', pc', handler')
    BY <1>1 DEF QueueInv, RestTypes
  <2>. QED  BY <2>3, <2>4, <2>5, <2>6 DEF QueueInv
<1>. QED  BY <1>2, <1>3, <1>4

\* The event that setBinValue or getValue adds.
LEMMA Asks ==
  ASSUME RestTypes, QueueInv, NEW w \in Worker,
         pc[w] \notin {"wait", "asked", "ending"},
         NEW e \in Events, e.of = w,
         Placed(e, pc', handler'),
         \A o \in Worker \ {w} : pc'[o] = pc[o] /\ handler'[o] = handler[o],
         queue' = Append(queue, e), cur' = cur
  PROVE  QueueInv'
<1>1. \A d \in Events : Placed(d, pc, handler) => d.of # w /\ Placed(d, pc', handler')
  BY RestAssumption DEF Placed, Events
<1>2. /\ Len(queue') = Len(queue) + 1 /\ Len(queue) \in Nat
      /\ \A i \in 1 .. Len(queue) : queue'[i] = queue[i] /\ queue[i] \in Events
      /\ queue'[Len(queue) + 1] = e
  BY Appended DEF RestTypes
<1>3. \A i \in 1 .. Len(queue) : queue[i] # e /\ Placed(queue[i], pc', handler')
  BY <1>1, <1>2 DEF QueueInv
<1>4. cur # None => cur # e /\ Placed(cur, pc', handler')
  BY <1>1 DEF QueueInv, RestTypes
<1>5. \A i, j \in 1 .. Len(queue') :
        queue'[i].what = "read" /\ queue'[i] = queue'[j] => i = j
  BY <1>2, <1>3 DEF QueueInv
<1>. QED  BY <1>2, <1>3, <1>4, <1>5 DEF QueueInv

\* The end of a request: nothing that reads is left behind.
LEMMA RequestEnds ==
  ASSUME RestTypes, QueueInv, HandlerInv, NEW w \in Worker, Destroy(w),
         (pc[w] = "wait" /\ handler[w].updated) \/ pc[w] = "ending",
         NEW to \in {"idle", "lock"}, pc' = [pc EXCEPT ![w] = to]
  PROVE  QueueInv' /\ HandlerInv'
<1>1. /\ Len(queue') = Len(queue)
      /\ \A i \in 1 .. Len(queue) : queue[i] \in Events /\ queue'[i] = Dangle(queue[i], w)
      /\ cur' = Dangle(cur, w)
      /\ handler' = [handler EXCEPT ![w] = NewHandler(<<>>)]
  BY Destroyed DEF RestTypes
<1>2. ASSUME NEW e \in Events, Placed(e, pc, handler)
      PROVE  /\ Dangle(e, w) \in Events /\ Dangle(e, w).what = e.what
             /\ e.what = "read" => Dangle(e, w) = e
             /\ Placed(Dangle(e, w), pc', handler')
  <2>1. e.of = w => e.what = "set"
    BY <1>2 DEF Placed
  <2>2. e.of # w => Dangle(e, w) = e
    BY NoneIsNoEvent DEF Dangle
  <2>3. e.of # w => Placed(e, pc', handler')
    BY <1>1, <1>2, RestAssumption DEF Placed, RestTypes
  <2>4. e.of = w => Dangle(e, w).what = "set" /\ Dangle(e, w).of = Gone
    BY <2>1, Dangled
  <2>5. e.of = w => Placed(Dangle(e, w), pc', handler')
    BY <2>4, RestAssumption DEF Placed
  <2>. QED  BY <2>1, <2>2, <2>3, <2>5, Dangled
<1>3. \A i \in 1 .. Len(queue) :
        /\ queue'[i].what = queue[i].what
        /\ queue[i].what = "read" => queue'[i] = queue[i]
        /\ Placed(queue'[i], pc', handler')
  BY <1>1, <1>2 DEF QueueInv
<1>4. cur # None => /\ cur' # None /\ cur'.what = cur.what /\ Placed(cur', pc', handler')
                    /\ cur.what = "read" => cur' = cur
  BY <1>1, <1>2, NoneIsNoEvent DEF QueueInv, RestTypes
<1>5. cur = None => cur' = None
  BY <1>1, Dangled
<1>6. QueueInv'
  <2>1. \A i, j \in 1 .. Len(queue') :
          queue'[i].what = "read" /\ queue'[i] = queue'[j] => i = j
    <3> SUFFICES ASSUME NEW i \in 1 .. Len(queue), NEW j \in 1 .. Len(queue),
                        queue'[i].what = "read", queue'[i] = queue'[j]
                 PROVE  i = j
      BY <1>1
    <3>1. queue[i].what = "read" /\ queue[j].what = "read"
      BY <1>3
    <3>. QED  BY <1>3, <3>1 DEF QueueInv
  <2>2. ASSUME cur' # None, cur'.what = "read", NEW i \in 1 .. Len(queue')
        PROVE  queue'[i] # cur'
    <3>1. cur # None /\ cur.what = "read" /\ cur' = cur
      BY <1>4, <1>5, <2>2
    <3>2. i \in 1 .. Len(queue) /\ queue[i] # cur
      BY <1>1, <2>2, <3>1 DEF QueueInv
    <3>. QED  BY <1>3, <3>1, <3>2
  <2>. QED  BY <1>1, <1>3, <1>4, <1>5, <2>1, <2>2 DEF QueueInv
<1>7. HandlerInv'
  <2>1. /\ ~NewHandler(<<>>).updated /\ ~NewHandler(<<>>).queued
        /\ NewHandler(<<>>).buf = <<>>
    BY DEF NewHandler
  <2>. QED  BY <1>1, <2>1 DEF HandlerInv, RestTypes
<1>. QED  BY <1>6, <1>7

\* Nothing is added to the queue, nothing is taken from it.
LEMMA QueueStays ==
  ASSUME RestTypes, QueueInv, queue' = queue, cur' = cur,
         \A e \in Events : Placed(e, pc, handler) => Placed(e, pc', handler')
  PROVE  QueueInv'
<1>1. \A i \in 1 .. Len(queue) : queue[i] \in Events
  BY DEF RestTypes
<1>2. cur # None => cur \in Events
  BY DEF RestTypes
<1>. QED  BY <1>1, <1>2 DEF QueueInv

LEMMA RestInvStep == RestTypes /\ RestTypes' /\ RestInv /\ [RestNext]_restVars => RestInv'
<1> SUFFICES ASSUME RestTypes, RestTypes', RestInv, [RestNext]_restVars PROVE RestInv'
  OBVIOUS
<1>. USE DEF RestInv
\* What is left to show for a step that moves.
<1> DEFINE Quiet ==
      /\ handler' = handler
      /\ \/ pc' = pc
         \/ \E w \in Worker, to \in PcStates :
              /\ pc' = [pc EXCEPT ![w] = to]
              /\ \/ pc[w] \notin {"wait", "asked", "ending"}
                 \/ (pc[w] = "asked" /\ to = "ending")
      /\ cur' \in {cur, None}
      /\ \/ queue' = queue
         \/ \E e \in Events : e.of = None /\ queue' = Append(queue, e)
<1>0. Quiet => QueueInv' /\ HandlerInv'
  BY Moves
<1>e. /\ Event("stop", None) \in Events /\ Event("stop", None).of = None
      /\ Event("entryPoint", None) \in Events /\ Event("entryPoint", None).of = None
  BY EventsTyped DEF Event
<1>p. \A to \in {"idle", "lock", "ask", "set", "stuck", "scheduled", "start",
                  "joining", "flag", "unflag", "hold", "held", "storage", "exit", "abort",
                  "abortState", "ending", "asked", "wait"} :
        to \in PcStates
  BY DEF PcStates
<1>1. CASE UNCHANGED restVars
  <2>1. Quiet
    BY <1>1 DEF restVars, thVars, workVars
  <2>. QED  BY <1>0, <1>1, <2>1 DEF restVars, simVars, thVars
<1>2. CASE crash = "no" /\ Connected
  <2>1. Quiet
    BY <1>2 DEF Connected, thVars, workVars
  <2>. QED  BY <1>0, <1>2, <2>1 DEF Connected, thVars
<1>3. CASE crash = "no" /\ Pop
  <2>1. /\ Len(queue') = Len(queue) - 1 /\ Len(queue) \in Nat \ {0}
        /\ \A i \in 1 .. Len(queue') : queue'[i] = queue[i + 1]
        /\ cur' = queue[1]
    BY <1>3, Popped DEF Pop, RestTypes
  <2>2. pc' = pc /\ handler' = handler
    BY <1>3 DEF Pop, workVars
  <2>3. QueueInv'
    <3>1. \A i \in 1 .. Len(queue') : i + 1 \in 1 .. Len(queue) /\ i + 1 # 1
          /\ 1 \in 1 .. Len(queue)
      BY <2>1
    <3>2. \A i \in 1 .. Len(queue) : Placed(queue[i], pc', handler')
      BY <2>2 DEF QueueInv
    <3>3. \A i \in 1 .. Len(queue') : Placed(queue'[i], pc', handler')
      BY <2>1, <3>1, <3>2
    <3>4. cur' # None => Placed(cur', pc', handler')
      BY <2>1, <3>1, <3>2
    <3>5. \A i, j \in 1 .. Len(queue') :
            queue'[i].what = "read" /\ queue'[i] = queue'[j] => i = j
      BY <2>1, <3>1 DEF QueueInv
    <3>6. cur'.what = "read" => \A i \in 1 .. Len(queue') : queue'[i] # cur'
      BY <2>1, <3>1 DEF QueueInv
    <3>. QED  BY <3>3, <3>4, <3>5, <3>6 DEF QueueInv
  <2>4. HandlerInv'
    BY <2>2 DEF HandlerInv
  <2>. QED  BY <1>3, <2>3, <2>4 DEF Pop, Continues, simVars
<1>4. CASE crash = "no" /\ Update
  <2>. DEFINE w == cur.of
  <2>1. cur \in Events /\ cur # None /\ Placed(cur, pc, handler) /\ pc' = pc /\ queue' =
       queue
    BY <1>4, NoneIsNoEvent DEF Update, RestTypes, QueueInv
  <2>2. CASE w = Gone
    <3>1. Quiet /\ UNCHANGED <<element, th, cur>>
      BY <1>4, <2>2, <2>1 DEF Update
    <3>. QED  BY <1>0, <1>4, <2>1, <2>2, <3>1 DEF Placed
  <2>3. CASE w \in Worker
    <3>1. /\ w # Gone
          /\ element' = Written(handler[w])
          /\ handler' = [handler EXCEPT ![w] = Updated(handler[w])]
          /\ th' = "step" /\ cur' = None /\ crash' # "dangling"
          /\ pc[w] # "asked"
      BY <1>4, <2>3, RestAssumption DEF Update, RestTypes
    <3>2. pc[w] \in {"wait", "ending"}
      BY <2>1, <2>3, <3>1 DEF Placed
    <3>3. Whole(Written(handler[w]))
      BY <1>4, <2>3 DEF Update, HandlerInv, Written
    <3>4. HandlerInv'
      BY <2>1, <2>3, <3>1, <3>2, <3>3, UpdatedHandlers DEF HandlerInv, RestTypes
    <3>5. \A i \in 1 .. Len(queue) : queue[i] \in Events /\ Placed(queue[i], pc, handler)
      BY DEF QueueInv, RestTypes
    <3>6. ASSUME NEW i \in 1 .. Len(queue) PROVE Placed(queue[i], pc, handler')
      <4>1. queue[i].of = w /\ queue[i].what = "read" => cur.what = "read"
        BY <2>1, <2>3, <3>2, <3>5, RestAssumption DEF Placed
      <4>2. queue[i].of = w /\ queue[i].what = "read" => queue[i] = cur
        BY <2>1, <3>5, <4>1 DEF Events
      <4>3. ~(queue[i].of = w /\ queue[i].what = "read")
        BY <2>1, <4>1, <4>2 DEF QueueInv
      <4>. QED  BY <2>3, <3>1, <3>5, <4>3 DEF Placed, RestTypes
    <3>7. QueueInv'
      BY <2>1, <3>1, <3>6 DEF QueueInv
    <3>. QED  BY <1>4, <3>1, <3>3, <3>4, <3>7
  <2>4. w = Gone \/ w \in Worker
    BY <1>4, <2>1, RestAssumption DEF Update, Events
  <2>. QED  BY <2>2, <2>3, <2>4
<1>5. CASE crash = "no" /\ EntryPoint
  <2>1. Quiet
    BY <1>e, <1>5 DEF EntryPoint, workVars
  <2>. QED  BY <1>0, <1>5, <2>1, PairsAreElements DEF EntryPoint, simVars, RestTypes,
       Elements
<1>6. CASE crash = "no" /\ ModelWrites
  <2>1. Quiet
    BY <1>e, <1>6 DEF ModelWrites, workVars
  <2>. QED  BY <1>0, <1>6, <2>1, PairsAreElements DEF ModelWrites, simVars, RestTypes,
       Elements
<1>7. CASE crash = "no" /\ ModelReturns
  <2>1. Quiet
    BY <1>e, <1>7 DEF ModelReturns, workVars
  <2>. QED  BY <1>0, <1>7, <2>1, PairsAreElements DEF ModelReturns, simVars, RestTypes,
       Elements
<1>8. CASE crash = "no" /\ Stop
  <2>1. Quiet
    BY <1>e, <1>8 DEF Stop, workVars
  <2>. QED  BY <1>0, <1>8, <2>1, PairsAreElements DEF Stop, simVars, RestTypes, Elements
<1>9. CASE crash = "no" /\ (StopNotifies \/ ThreadReturns)
  <2>1. Quiet
    BY <1>e, <1>9 DEF StopNotifies, ThreadReturns, workVars
  <2>. QED  BY <1>0, <1>9, <2>1, PairsAreElements DEF StopNotifies, ThreadReturns, simVars,
       RestTypes, Elements
<1>10. ASSUME crash = "no", NEW w \in Worker, Request(w) PROVE RestInv'
  <2>1. CASE Get(w)
    <3>1. Quiet
      BY <1>e, <1>p, <1>10, <2>1 DEF Get, Accepts, Goto, thVars, workVars
    <3>. QED  BY <1>0, <1>10, <2>1, <3>1 DEF Get, simVars, thVars
  <2>2. CASE GetStatus(w)
    <3>1. Quiet
      BY <1>e, <1>p, <1>10, <2>2 DEF GetStatus, Accepts, Goto, thVars, workVars
    <3>. QED  BY <1>0, <1>10, <2>2, <3>1 DEF GetStatus, simVars, thVars
  <2>3. CASE PostSchedule(w)
    <3>1. Quiet
      BY <1>e, <1>p, <1>10, <2>3 DEF PostSchedule, Accepts, Goto, thVars, workVars
    <3>. QED  BY <1>0, <1>10, <2>3, <3>1 DEF PostSchedule, simVars, thVars
  <2>4. CASE PostRun(w)
    <3>1. Quiet
      BY <1>e, <1>p, <1>10, <2>4 DEF PostRun, Accepts, Goto, thVars, workVars
    <3>. QED  BY <1>0, <1>10, <2>4, <3>1 DEF PostRun, simVars, thVars
  <2>5. CASE PostHold(w)
    <3>1. Quiet
      BY <1>e, <1>p, <1>10, <2>5 DEF PostHold, Accepts, Goto, thVars, workVars
    <3>. QED  BY <1>0, <1>10, <2>5, <3>1 DEF PostHold, simVars, thVars
  <2>6. CASE PostStorage(w)
    <3>1. Quiet
      BY <1>e, <1>p, <1>10, <2>6 DEF PostStorage, Accepts, Goto, thVars, workVars
    <3>. QED  BY <1>0, <1>10, <2>6, <3>1 DEF PostStorage, simVars, thVars
  <2>7. CASE PostExit(w)
    <3>1. Quiet
      BY <1>e, <1>p, <1>10, <2>7 DEF PostExit, Accepts, Goto, thVars, workVars
    <3>. QED  BY <1>0, <1>10, <2>7, <3>1 DEF PostExit, simVars, thVars
  <2>8. CASE PostAbort(w)
    <3>1. Quiet
      BY <1>e, <1>p, <1>10, <2>8 DEF PostAbort, Accepts, Goto, thVars, workVars
    <3>. QED  BY <1>0, <1>10, <2>8, <3>1 DEF PostAbort, simVars, thVars
  <2>9. CASE Post(w)
    <3>. DEFINE new(n, short) == [NewHandler(<<n, n>>) EXCEPT !.short = short]
    <3>1. PICK n \in Values, short \in BOOLEAN :
            handler' = [handler EXCEPT ![w] = new(n, short)]
      BY <2>9 DEF Post
    <3>2. /\ pc[w] = "idle" /\ pc' = [pc EXCEPT ![w] = "set"]
           /\ queue' = queue /\ cur' = cur /\ th' = th /\ element' = element /\ crash' =
             crash
      BY <2>9 DEF Post, Accepts, Goto, thVars, simVars
    <3>3. /\ ~new(n, short).updated /\ ~new(n, short).queued
          /\ Whole(new(n, short).buf)
      BY PairsAreElements DEF NewHandler
    <3>. HIDE DEF new
    <3>4. HandlerInv'
      BY <3>1, <3>2, <3>3 DEF HandlerInv, RestTypes
    <3>5. \A e \in Events : Placed(e, pc, handler) => Placed(e, pc', handler')
      BY <3>1, <3>2 DEF Placed, RestTypes
    <3>6. QueueInv'
      BY <3>2, <3>5, QueueStays
    <3>. QED  BY <3>2, <3>4, <3>6
  <2>. QED  BY <1>10, <2>1, <2>2, <2>3, <2>4, <2>5, <2>6, <2>7, <2>8, <2>9 DEF Request
<1>11. ASSUME crash = "no", NEW w \in Worker, WorkerStep(w) PROVE RestInv'
  <2>1. CASE ReadLocks(w)
    <3>1. Quiet
      BY <1>e, <1>p, <1>11, <2>1 DEF ReadLocks, Goto, thVars
    <3>. QED  BY <1>0, <1>11, <2>1, <3>1 DEF ReadLocks, simVars, thVars
  <2>2. CASE onSimExecuting(w)
    <3>1. Quiet
      BY <1>e, <1>p, <1>11, <2>2 DEF onSimExecuting, Goto, thVars
    <3>. QED  BY <1>0, <1>11, <2>2, <3>1 DEF onSimExecuting, simVars, thVars
  <2>3. CASE onSimLeavingExec(w)
    <3>1. Quiet
      BY <1>e, <1>p, <1>11, <2>3 DEF onSimLeavingExec, Goto, thVars
    <3>. QED  BY <1>0, <1>11, <2>3, <3>1 DEF onSimLeavingExec, simVars, thVars
  <2>4. CASE SetUnlocks(w)
    <3>1. Quiet
      BY <1>e, <1>p, <1>11, <2>4 DEF SetUnlocks, Goto, thVars
    <3>. QED  BY <1>0, <1>11, <2>4, <3>1 DEF SetUnlocks, simVars, thVars
  <2>5. CASE StartThread(w)
    <3>1. Quiet
      BY <1>e, <1>p, <1>11, <2>5 DEF StartThread, Goto, thVars
    <3>. QED  BY <1>0, <1>11, <2>5, <3>1 DEF StartThread, simVars, thVars
  <2>6. CASE ScheduleReturns(w)
    <3>1. Quiet
      BY <1>e, <1>p, <1>11, <2>6 DEF ScheduleReturns, Goto, thVars
    <3>. QED  BY <1>0, <1>11, <2>6, <3>1 DEF ScheduleReturns, simVars, thVars
  <2>7. CASE HoldWaits(w)
    <3>1. Quiet
      BY <1>e, <1>p, <1>11, <2>7 DEF HoldWaits, Goto, thVars
    <3>. QED  BY <1>0, <1>11, <2>7, <3>1 DEF HoldWaits, simVars, thVars
  <2>8. CASE HoldReturns(w)
    <3>1. Quiet
      BY <1>e, <1>p, <1>11, <2>8 DEF HoldReturns, Goto, thVars
    <3>. QED  BY <1>0, <1>11, <2>8, <3>1 DEF HoldReturns, simVars, thVars
  <2>9. CASE StorageReturns(w)
    <3>1. Quiet
      BY <1>e, <1>p, <1>11, <2>9 DEF StorageReturns, Goto, thVars
    <3>. QED  BY <1>0, <1>11, <2>9, <3>1 DEF StorageReturns, simVars, thVars
  <2>10. CASE AbortJoins(w) \/ AbortReturns(w) \/ EnterExecuting(w)
    <3>1. Quiet
      BY <1>e, <1>p, <1>11, <2>10 DEF AbortJoins, AbortReturns, EnterExecuting, Goto, thVars
    <3>. QED  BY <1>0, <1>11, <2>10, <3>1
         DEF AbortJoins, AbortReturns, EnterExecuting, simVars, thVars
  <2>11. CASE setBinValue(w)
    <3>1. CASE ~simIsRunning
      <4>1. Quiet
        BY <1>p, <1>11, <2>11, <3>1 DEF setBinValue, Goto
      <4>. QED  BY <1>0, <2>11, <4>1 DEF setBinValue, simVars
    <3>2. CASE simIsRunning
      <4>1. /\ queue' = Append(queue, Event("set", w)) /\ pc[w] = "set"
            /\ pc' = [pc EXCEPT ![w] = "asked"]
            /\ UNCHANGED <<handler, cur, th, element, crash>>
        BY <2>11, <3>2 DEF setBinValue, Goto, simVars
      <4>2. Event("set", w) \in Events /\ Event("set", w).of = w
        BY EventsTyped DEF Event
      <4>3. Placed(Event("set", w), pc', handler')
        BY <4>1, RestAssumption DEF Placed, Event, RestTypes
      <4>4. QueueInv'
        BY <4>1, <4>2, <4>3, Asks DEF RestTypes
      <4>5. HandlerInv'
        BY <4>1 DEF HandlerInv, RestTypes
      <4>. QED  BY <4>1, <4>4, <4>5
    <3>. QED  BY <3>1, <3>2
  <2>12. CASE ReadAsks(w)
    <3>1. pc[w] = "ask" /\ pc' = [pc EXCEPT ![w] = "wait"] /\ UNCHANGED <<cur, th, crash>>
      BY <2>12 DEF ReadAsks, Goto, simVars
    <3>2. ~handler[w].updated /\ ~handler[w].queued /\ handler[w] \in Handlers
      BY <3>1 DEF HandlerInv, RestTypes
    <3>3. CASE simIsRunning
      <4>1. /\ queue' = Append(queue, Event("read", w)) /\ element' = element
            /\ handler' = [handler EXCEPT ![w].queued = TRUE]
        BY <2>12, <3>3 DEF ReadAsks, scheduleUpdate
      <4>2. Event("read", w) \in Events /\ Event("read", w).of = w
        BY EventsTyped DEF Event
      <4>3. /\ ~handler'[w].updated /\ handler'[w].buf = handler[w].buf
            /\ \A o \in Worker \ {w} : handler'[o] = handler[o]
        BY <3>2, <4>1 DEF RestTypes, Handlers
      <4>4. Placed(Event("read", w), pc', handler')
        <5>1. pc'[w] = "wait" /\ w # Gone
          BY <3>1, RestAssumption DEF RestTypes
        <5>2. Event("read", w).what = "read"
          BY DEF Event
        <5>3. ASSUME NEW e, e.what = "read", e.of = w PROVE Placed(e, pc', handler')
          BY <4>3, <5>1, <5>3 DEF Placed
        <5>. QED  BY <4>2, <5>2, <5>3
      <4>5. QueueInv'
        BY <3>1, <4>1, <4>2, <4>3, <4>4, Asks DEF RestTypes
      <4>6. HandlerInv'
        BY <3>1, <4>3 DEF HandlerInv, RestTypes
      <4>. QED  BY <3>1, <4>1, <4>5, <4>6
    <3>4. CASE ~simIsRunning
      <4>1. /\ queue' = queue /\ element' = Written(handler[w])
             /\ handler' = [handler EXCEPT ![w] = [Updated(handler[w]) EXCEPT !.raced =
               InLoop]]
        BY <2>12, <3>4 DEF ReadAsks, scheduleUpdate, RestTypes
      <4>2. /\ handler'[w].buf = <<>> /\ handler'[w].got = Written(handler[w])
            /\ handler'[w].raced = InLoop
            /\ handler'[w].queued = handler[w].queued
            /\ \A o \in Worker \ {w} : handler'[o] = handler[o]
        BY <4>1, UpdatedHandlers DEF RestTypes, Handlers
      <4>3. /\ th # "writing" => Whole(Written(handler[w]))
            /\ ~InLoop => Whole(Written(handler[w]))
        BY DEF HandlerInv, Written, InLoop
      <4>4. HandlerInv'
        <5>1. pc'[w] = "wait" /\ \A o \in Worker \ {w} : pc'[o] = pc[o]
          BY <3>1 DEF RestTypes
        <5>2. ~handler'[w].raced => Whole(handler'[w].got)
          BY <4>2, <4>3
        <5>3. ~handler'[w].queued
          BY <3>2, <4>2
        <5>. QED  BY <4>2, <5>1, <5>2, <5>3 DEF HandlerInv
      <4>5. \A e \in Events : Placed(e, pc, handler) => Placed(e, pc', handler')
        BY <3>1, <4>2 DEF Placed, RestTypes
      <4>6. QueueInv'
        BY <3>1, <4>1, <4>5, QueueStays
      <4>. QED  BY <3>1, <4>1, <4>3, <4>4, <4>6
    <3>. QED  BY <3>3, <3>4
  <2>13. CASE ReadReturns(w)
    <3>1. /\ QueueInv' /\ HandlerInv'
          /\ UNCHANGED <<th, element, crash>>
      BY <2>13, RequestEnds DEF ReadReturns, Goto, simVars
    <3>2. crash' # "dangling"
      BY <1>11, <3>1
    <3>. QED  BY <3>1, <3>2
  <2>14. CASE SetReturns(w)
    <3>1. /\ QueueInv' /\ HandlerInv'
          /\ UNCHANGED <<th, element, crash>>
      BY <2>14, RequestEnds DEF SetReturns, Goto, simVars
    <3>2. crash' # "dangling"
      BY <1>11, <3>1
    <3>. QED  BY <3>1, <3>2
  <2>. QED  BY <1>11, <2>1, <2>2, <2>3, <2>4, <2>5, <2>6, <2>7, <2>8, <2>9, <2>10, <2>11,
      <2>12, <2>13, <2>14 DEF WorkerStep, Locks
<1>12. ASSUME crash = "no", NEW w \in Worker, ServerStops(w) PROVE RestInv'
  <2>1. Quiet
    BY <1>p, <1>12 DEF ServerStops, Goto, thVars
  <2>. QED  BY <1>0, <1>12, <2>1 DEF ServerStops, simVars, thVars
<1>. QED  BY <1>1, <1>2, <1>3, <1>4, <1>5, <1>6, <1>7, <1>8, <1>9, <1>10, <1>11, <1>12
     DEF RestNext, ThreadStep

\* Whatever the threads of the server do, a GET answers with a value that was
\* whole, and leaves no event behind that refers to its handler
\* (RestService::FieldHandler, parseField).
THEOREM ReadingIsSafe == RestSpec => []ReadsAreSafe
<1>1. RestInit => RestTypes /\ RestInv
  BY RestTypesInit, RestInvInit
<1>2. (RestTypes /\ RestInv) /\ [RestNext]_restVars => (RestTypes /\ RestInv)'
  BY RestTypesStep, RestInvStep
<1>3. RestTypes /\ RestInv => ReadsAreSafe
  <2> SUFFICES ASSUME RestTypes, RestInv PROVE ReadsAreSafe
    OBVIOUS
  <2>1. AnswersAreWhole
    BY DEF AnswersAreWhole, RestInv, HandlerInv, Whole
  <2>2. \A i \in 1 .. Len(queue) : queue[i].of = Gone => queue[i].what = "set"
    BY DEF RestInv, QueueInv, Placed
  <2>3. DOMAIN queue = 1 .. Len(queue)
    BY DEF RestTypes
  <2>. QED  BY <2>1, <2>2, <2>3 DEF ReadsAreSafe, ReadsLeaveNothing, RestInv
<1>. QED  BY <1>1, <1>2, <1>3, PTL DEF RestSpec

-----------------------------------------------------------------------------
(***************************************************************************)
(* The times of the schedule queue.                                        *)
(***************************************************************************)

\* There are few units, so that one of those given is the largest.
LEMMA AskedIsANumber ==
  ASSUME NEW t, DOMAIN t \subseteq UnitNames, \A u \in DOMAIN t : t[u] \in Int
  PROVE  Asked(t) \in Int
<1> DEFINE largest(u) == \A v \in DOMAIN t : Unit[v] <= Unit[u]
<1>1. CASE DOMAIN t = {}
  BY <1>1 DEF Asked
<1>2. CASE DOMAIN t # {}
  <2>1. \A u \in UnitNames : Unit[u] \in Nat
    BY RestAssumption
  <2>2. \E u \in DOMAIN t : largest(u)
    BY <1>2, <2>1 DEF UnitNames
  <2>3. PICK u \in DOMAIN t : u = CHOOSE x \in DOMAIN t : largest(x)
    BY <2>2
  <2>4. Asked(t) = t[u] * Unit[u]
    BY <1>2, <2>3 DEF Asked
  <2>5. t[u] \in Int /\ Unit[u] \in Int
    BY <2>1
  <2>. QED  BY <2>4, <2>5
<1>. QED  BY <1>1, <1>2

\* What fits in a Duration is kept by the conversion to unsigned and back.
LEMMA FittingIsKept ==
  ASSUME NEW n \in Int, n \in -Half .. Half - 1
  PROVE  Wrapped(n) = n
<1>1. Half \in Nat \ {0}
  BY RestAssumption
<1>2. CASE n >= 0
  <2>1. n % (2 * Half) = n
    BY <1>1, <1>2
  <2>. QED  BY <1>1, <1>2, <2>1 DEF Wrapped
<1>3. CASE n < 0
  <2>1. n % (2 * Half) = n + 2 * Half
    BY <1>1, <1>3
  <2>. QED  BY <1>1, <1>3, <2>1 DEF Wrapped
<1>. QED  BY <1>2, <1>3

\* What is scheduled, and from which request.
TimedInv ==
  \A e \in timed : /\ e.body \in Bodies /\ ~e.body.immediate
                   /\ e.time = Nanoseconds(e.body.offset)
                   /\ e.period = Nanoseconds(e.body.cycle)

\* An event that POST scheduleQueue adds has the times that were asked for
\* (RestService::postScheduleQueue).
THEOREM SchedulesAreAsAsked == RestSpec => []ScheduledAsAsked
<1>1. RestInit => TimedInv
  BY DEF RestInit, TimedInv
<1>2. TimedInv /\ [RestNext]_restVars => TimedInv'
  <2> SUFFICES ASSUME TimedInv, [RestNext]_restVars PROVE TimedInv'
    OBVIOUS
  <2>1. CASE UNCHANGED timed
    BY <2>1 DEF TimedInv
  <2>2. ASSUME NEW w \in Worker, PostSchedule(w) PROVE TimedInv'
    <3>1. PICK b \in Bodies :
            IF b.immediate THEN timed' = timed
            ELSE timed' = {[body |-> b, time |-> Nanoseconds(b.offset),
                            period |-> Nanoseconds(b.cycle), repeat |-> b.repeat]}
      BY <2>2 DEF PostSchedule
    <3>. QED  BY <3>1 DEF TimedInv
  <2>3. ASSUME NEW w \in Worker, ScheduleReturns(w) PROVE TimedInv'
    BY <2>3 DEF ScheduleReturns, TimedInv
  <2>4. ASSUME NEW w \in Worker, Request(w), ~PostSchedule(w) PROVE UNCHANGED timed
    BY <2>4 DEF Request, Get, GetStatus, Post, PostRun, PostHold, PostStorage, PostExit,
       PostAbort, simVars
  <2>5. ASSUME NEW w \in Worker, WorkerStep(w), ~ScheduleReturns(w) PROVE UNCHANGED timed
    BY <2>5 DEF WorkerStep, Locks, ReadLocks, setBinValue, onSimExecuting,
       onSimLeavingExec, ReadAsks, ReadReturns, SetUnlocks, SetReturns, EnterExecuting,
       StartThread, HoldWaits, HoldReturns, StorageReturns, AbortJoins, AbortReturns,
       simVars
  <2>6. ThreadStep \/ Connected \/ (\E w \in Worker : ServerStops(w)) => UNCHANGED timed
    BY DEF ThreadStep, Connected, ServerStops, Pop, Update, EntryPoint, ModelWrites,
       ModelReturns, Stop, StopNotifies, ThreadReturns, simVars
  <2>. QED  BY <2>1, <2>2, <2>3, <2>4, <2>5, <2>6 DEF RestNext, restVars, simVars
<1>3. TimedInv => ScheduledAsAsked
  <2> SUFFICES ASSUME TimedInv, NEW e \in timed
               PROVE  /\ Asked(e.body.offset) \in -Half .. Half - 1
                           => e.time = Asked(e.body.offset)
                      /\ Asked(e.body.cycle) \in -Half .. Half - 1
                           => e.period = Asked(e.body.cycle)
    BY DEF ScheduledAsAsked
  <2>1. Asked(e.body.offset) \in Int /\ Asked(e.body.cycle) \in Int
    BY AskedIsANumber, RestAssumption DEF TimedInv
  <2>. QED  BY <2>1, FittingIsKept DEF TimedInv, Nanoseconds
<1>. QED  BY <1>1, <1>2, <1>3, PTL DEF RestSpec

=============================================================================
