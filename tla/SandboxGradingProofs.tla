------------------------- MODULE SandboxGradingProofs -------------------------
(***************************************************************************)
(* Theorems of SandboxGrading for any files, topologies and verdicts, and  *)
(* their proofs: the merge gives every group well-formed lists, the search *)
(* orders or rejects, and the grading follows the order.                   *)
(***************************************************************************)
EXTENDS SandboxGrading, LeastNumber, FiniteSetTheorems, SequenceTheorems

-------------------------------------------------------------------------------
(* The configuration.                                                      *)

GroupRecord == [tests : Seq(Nat), deps : Seq(Nat)]

IsConfig(c) ==
  /\ c = [number_cases |-> c.number_cases, run_config |-> c.run_config, policy |-> c.policy,
          groups |-> c.groups, group_order |-> c.group_order]
  /\ c.number_cases \in Nat /\ c.policy \in GRADE_POLICY
  /\ DOMAIN c.groups \subseteq Nat \ {0}
  /\ c.groups \in [DOMAIN c.groups -> GroupRecord]
  /\ c.group_order \in Seq(DOMAIN c.groups)

NamesOf(fs, k) == UNION {Names(fs[i]) : i \in 1 .. k}

LEMMA FlattenExists ==
  ASSUME NEW ss, Len(ss) \in Nat
  PROVE  \E f : f = [i \in 1 .. Len(ss) |-> IF i = 1 THEN ss[i] ELSE f[i - 1] \o ss[i]]
<1> DEFINE Holds(f, m) == f = [i \in 1 .. m |-> IF i = 1 THEN ss[i] ELSE f[i - 1] \o ss[i]]
           Wrong == {m \in 0 .. Len(ss) : ~\E f : Holds(f, m)}
<1>0. Wrong = {} => \E f : Holds(f, Len(ss))
  <2>1. Len(ss) \in 0 .. Len(ss)
    OBVIOUS
  <2> HIDE DEF Holds
  <2> QED  BY <2>1
<1> SUFFICES ASSUME Wrong # {} PROVE FALSE
  BY <1>0
<1>1. PICK m \in Wrong : \A k \in Wrong : m <= k
  <2> HIDE DEF Holds
  <2>1. Wrong \in SUBSET Nat
    OBVIOUS
  <2> HIDE DEF Wrong
  <2> QED  BY <2>1, LeastElement
<1>2. m # 0
  <2>1. Holds(<<>>, 0)
    OBVIOUS
  <2> QED  BY <2>1
<1>3. m - 1 \in 0 .. Len(ss) /\ m - 1 \notin Wrong
  <2>1. m - 1 \in 0 .. Len(ss) /\ ~(m <= m - 1)
    BY <1>2
  <2> QED  BY <1>1, <2>1
<1>4. PICK f : Holds(f, m - 1)
  BY <1>3
<1> DEFINE g == [i \in 1 .. m |->
                   IF i = m THEN IF m = 1 THEN ss[m] ELSE f[m - 1] \o ss[m] ELSE f[i]]
<1>5. ASSUME NEW i \in 1 .. m
      PROVE  g[i] = IF i = 1 THEN ss[i] ELSE g[i - 1] \o ss[i]
  <2>1. CASE i = m
    BY <2>1
  <2>2. CASE i # m
    <3>1. i \in 1 .. m - 1 /\ (i # 1 => i - 1 \in 1 .. m /\ i - 1 # m)
      BY <2>2
    <3>2. f[i] = IF i = 1 THEN ss[i] ELSE f[i - 1] \o ss[i]
      BY <1>4, <3>1
    <3> QED  BY <2>2, <3>1, <3>2
  <2> QED  BY <2>1, <2>2
<1>6. Holds(g, m)
  BY <1>5
<1> QED  BY <1>1, <1>6

LEMMA FlattenUnfold ==
  ASSUME NEW ss, Len(ss) \in Nat \ {0}
  PROVE  \E f : /\ f = [i \in 1 .. Len(ss) |-> IF i = 1 THEN ss[i] ELSE f[i - 1] \o ss[i]]
                /\ FlattenSeq(ss) = f[Len(ss)]
<1> DEFINE flat == CHOOSE f :
             f = [i \in 1 .. Len(ss) |-> IF i = 1 THEN ss[i] ELSE f[i - 1] \o ss[i]]
<1>1. flat = [i \in 1 .. Len(ss) |-> IF i = 1 THEN ss[i] ELSE flat[i - 1] \o ss[i]]
  BY FlattenExists
<1>2. FlattenSeq(ss) = flat[Len(ss)]
  BY DEF FlattenSeq
<1> HIDE DEF flat
<1> QED  BY <1>1, <1>2

LEMMA FlattenAppend ==
  ASSUME NEW T, NEW ss \in Seq(Seq(T)), NEW s \in Seq(T)
  PROVE  FlattenSeq(Append(ss, s)) = FlattenSeq(ss) \o s
<1> DEFINE n == Len(ss)
           more == Append(ss, s)
<1>1. /\ n \in Nat /\ Len(more) = n + 1
      /\ more[n + 1] = s /\ \A i \in 1 .. n : more[i] = ss[i]
  BY AppendProperties
<1> HIDE DEF more
<1>2. PICK f : /\ f = [i \in 1 .. n + 1 |-> IF i = 1 THEN more[i] ELSE f[i - 1] \o more[i]]
               /\ FlattenSeq(more) = f[n + 1]
  <2>1. Len(more) \in Nat \ {0}
    BY <1>1
  <2> QED  BY <1>1, <2>1, FlattenUnfold
<1>3. CASE n = 0
  <2>1. f[1] = s
    BY <1>1, <1>2, <1>3
  <2>2. FlattenSeq(ss) = <<>>
    <3>1. ss = <<>>
      BY <1>3
    <3> QED  BY <1>3, <3>1 DEF FlattenSeq
  <2>3. <<>> \o s = s
    BY ConcatEmptySeq
  <2> QED  BY <1>2, <1>3, <2>1, <2>2, <2>3 DEF more
<1>4. CASE n # 0
  <2>1. PICK h : /\ h = [i \in 1 .. n |-> IF i = 1 THEN ss[i] ELSE h[i - 1] \o ss[i]]
                 /\ FlattenSeq(ss) = h[n]
    <3>1. Len(ss) \in Nat \ {0}
      BY <1>1, <1>4
    <3> QED  BY <3>1, FlattenUnfold
  <2> DEFINE Wrong == {i \in 1 .. n : f[i] # h[i]}
  <2>2. ASSUME Wrong # {} PROVE FALSE
    <3>1. PICK i \in Wrong : \A k \in Wrong : i <= k
      <4>1. Wrong \in SUBSET Nat
        OBVIOUS
      <4> HIDE DEF Wrong
      <4> QED  BY <2>2, <4>1, LeastElement
    <3>2. i \in 1 .. n /\ i \in 1 .. n + 1 /\ more[i] = ss[i]
      BY <1>1
    <3>3. /\ f[i] = IF i = 1 THEN ss[i] ELSE f[i - 1] \o ss[i]
          /\ h[i] = IF i = 1 THEN ss[i] ELSE h[i - 1] \o ss[i]
      <4>1. f[i] = IF i = 1 THEN more[i] ELSE f[i - 1] \o more[i]
        BY <1>2, <3>2
      <4>2. h[i] = IF i = 1 THEN ss[i] ELSE h[i - 1] \o ss[i]
        BY <2>1, <3>2
      <4> QED  BY <3>2, <4>1, <4>2
    <3>4. i # 1 => f[i - 1] = h[i - 1]
      <4>1. i # 1 => i - 1 \in 1 .. n /\ ~(i <= i - 1)
        BY <1>1, <3>2
      <4> QED  BY <3>1, <4>1
    <3> QED  BY <3>1, <3>3, <3>4
  <2>3. f[n] = h[n] /\ n + 1 \in 1 .. n + 1 /\ n + 1 # 1 /\ (n + 1) - 1 = n
    BY <1>1, <1>4, <2>2
  <2>4. f[n + 1] = f[n] \o s
    BY <1>1, <1>2, <2>3
  <2> QED  BY <1>2, <2>1, <2>3, <2>4 DEF more
<1> QED  BY <1>3, <1>4

(* What a list of lists is flattened to.                                   *)
LEMMA FlattenRight ==
  ASSUME NEW T, NEW ss \in Seq(Seq(T))
  PROVE  /\ FlattenSeq(ss) \in Seq(T)
         /\ Range(FlattenSeq(ss)) = UNION {Range(ss[i]) : i \in 1 .. Len(ss)}
<1> DEFINE n == Len(ss)
           UpTo(i) == UNION {Range(ss[k]) : k \in 1 .. i}
<1>1. n \in Nat /\ \A i \in 1 .. n : ss[i] \in Seq(T)
  OBVIOUS
<1>2. CASE n = 0
  <2>1. ss = <<>> /\ FlattenSeq(ss) = <<>>
    BY <1>2 DEF FlattenSeq
  <2>2. Range(<<>>) = {} /\ 1 .. n = {}
    BY <1>2 DEF Range
  <2>3. <<>> \in Seq(T)
    OBVIOUS
  <2>4. UNION {Range(ss[i]) : i \in 1 .. n} = {}
    BY <2>2
  <2> HIDE DEF n
  <2> QED  BY <2>1, <2>2, <2>3, <2>4 DEF n
<1>3. CASE n # 0
  <2>1. PICK f : /\ f = [i \in 1 .. n |-> IF i = 1 THEN ss[i] ELSE f[i - 1] \o ss[i]]
                 /\ FlattenSeq(ss) = f[n]
    <3>1. Len(ss) \in Nat \ {0}
      BY <1>1, <1>3
    <3> QED  BY <3>1, FlattenUnfold
  <2> DEFINE Right(i) == f[i] \in Seq(T) /\ Range(f[i]) = UpTo(i)
             Wrong == {i \in 1 .. n : ~Right(i)}
  <2>2. ASSUME Wrong # {} PROVE FALSE
    <3>1. PICK i \in Wrong : \A k \in Wrong : i <= k
      <4>1. Wrong \in SUBSET Nat
        OBVIOUS
      <4> HIDE DEF Wrong
      <4> QED  BY <2>2, <4>1, LeastElement
    <3>2. i \in 1 .. n /\ ss[i] \in Seq(T)
      BY <1>1
    <3>3. f[i] = IF i = 1 THEN ss[i] ELSE f[i - 1] \o ss[i]
      BY <2>1, <3>2
    <3>4. CASE i = 1
      <4>1. f[1] = ss[1]
        BY <3>3, <3>4
      <4>2. 1 .. 1 = {1}
        OBVIOUS
      <4>3. UpTo(1) = Range(ss[1])
        BY <4>2
      <4> HIDE DEF UpTo
      <4> QED  BY <3>1, <3>2, <3>4, <4>1, <4>3
    <3>5. CASE i # 1
      <4>1. i - 1 \in 1 .. n /\ ~(i <= i - 1)
        BY <1>1, <3>2, <3>5
      <4>2. Right(i - 1)
        BY <3>1, <4>1
      <4>3. f[i] \in Seq(T) /\ Range(f[i]) = Range(f[i - 1]) \cup Range(ss[i])
        <5> HIDE DEF UpTo
        <5> QED  BY <3>2, <3>3, <3>5, <4>2, ConcatProperties, RangeConcatenation
      <4>4. 1 .. i = (1 .. i - 1) \cup {i}
        BY <3>2, <4>1
      <4>5. UpTo(i) = UpTo(i - 1) \cup Range(ss[i])
        BY <4>4
      <4> HIDE DEF UpTo
      <4> QED  BY <3>1, <4>2, <4>3, <4>5
    <3> QED  BY <3>4, <3>5
  <2>3. Right(n)
    <3>1. n \in 1 .. n
      BY <1>1, <1>3
    <3> HIDE DEF Right
    <3> QED  BY <2>2, <3>1
  <2> QED  BY <2>1, <2>3
<1> QED  BY <1>2, <1>3

(* The tests of a list of items are those it stands for.                   *)
LEMMA ConvertRight ==
  ASSUME NEW items \in Seq(Item \cup {Bad})
  PROVE  /\ convert_item_list(items) \in Seq(Nat)
         /\ Range(convert_item_list(items)) = TestsOf(items)
<1>1. CASE Bad \in Range(items)
  BY <1>1 DEF convert_item_list, TestsOf, Range
<1>2. CASE Bad \notin Range(items)
  <2> DEFINE lists == [i \in DOMAIN items |-> add_item(items[i])]
  <2>1. DOMAIN items = 1 .. Len(items) /\ Len(items) \in Nat
    OBVIOUS
  <2>2. ASSUME NEW i \in 1 .. Len(items)
        PROVE  add_item(items[i]) \in Seq(Nat) /\ Range(add_item(items[i])) = items[i].from .. items[i].to
    <3>1. items[i] \in Item
      BY <1>2, <2>1 DEF Range
    <3>2. PICK a \in Nat, b \in Int : a = items[i].from /\ b = items[i].to
      BY <3>1 DEF Item
    <3> DEFINE l == add_item(items[i])
    <3>3. l = [k \in 1 .. (b + 1) - a |-> a + k - 1]
      BY <3>2 DEF add_item
    <3>4. l \in Seq(Nat)
      <4>1. CASE (b + 1) - a \in Nat
        <5>1. \A k \in 1 .. (b + 1) - a : a + k - 1 \in Nat
          OBVIOUS
        <5> QED  BY <3>3, <4>1, <5>1, IsASeq
      <4>2. CASE (b + 1) - a \notin Nat
        <5>1. 1 .. (b + 1) - a = {}
          BY <3>2, <4>2
        <5> QED  BY <3>3, <5>1
      <4> QED  BY <4>1, <4>2
    <3>5. \A x : x \in Range(l) <=> \E k \in 1 .. (b + 1) - a : x = a + k - 1
      BY <3>3 DEF Range
    <3>6. ASSUME NEW x \in a .. b PROVE x \in Range(l)
      <4>1. (x + 1) - a \in 1 .. (b + 1) - a /\ x = a + ((x + 1) - a) - 1
        OBVIOUS
      <4> QED  BY <3>5, <4>1
    <3>7. ASSUME NEW x \in Range(l) PROVE x \in a .. b
      BY <3>5
    <3> HIDE DEF l
    <3>8. Range(l) = a .. b
      BY <3>6, <3>7
    <3> QED  BY <3>2, <3>4, <3>8 DEF l
  <2>3. lists \in Seq(Seq(Nat)) /\ Len(lists) = Len(items)
    BY <2>1, <2>2
  <2>4. /\ FlattenSeq(lists) \in Seq(Nat)
        /\ Range(FlattenSeq(lists)) = UNION {Range(lists[i]) : i \in 1 .. Len(items)}
    BY <2>3, FlattenRight
  <2>5. \A i \in 1 .. Len(items) : Range(lists[i]) = items[i].from .. items[i].to
    BY <2>1, <2>2
  <2> HIDE DEF lists
  <2>6. UNION {Range(lists[i]) : i \in 1 .. Len(items)}
          = UNION {items[i].from .. items[i].to : i \in 1 .. Len(items)}
    BY <2>5
  <2>7. UNION {items[i].from .. items[i].to : i \in 1 .. Len(items)} = TestsOf(items)
    BY <1>2, <2>1 DEF TestsOf, Range
  <2> QED  BY <1>2, <2>4, <2>6, <2>7 DEF convert_item_list, lists
<1> QED  BY <1>1, <1>2

LEMMA GroupUpdateType ==
  ASSUME NEW group \in GroupRecord, NEW yaml, IsGroup(yaml)
  PROVE  GroupUpdate(group, yaml) \in GroupRecord
<1>1. IF "tests" \in DOMAIN yaml THEN convert_item_list(yaml.tests) \in Seq(Nat)
      ELSE group.tests \in Seq(Nat)
  BY ConvertRight DEF IsGroup, GroupRecord
<1>2. update_if_exists(group.deps, yaml, "deps") \in Seq(Nat)
  BY DEF IsGroup, GroupRecord, update_if_exists
<1> QED  BY <1>1, <1>2 DEF GroupUpdate, GroupRecord

LEMMA GroupsUpdateType ==
  ASSUME NEW c, IsConfig(c), NEW entry, entry.name \in Nat \ {0}, IsGroup(entry.value)
  PROVE  /\ IsConfig(GroupsUpdate(c, entry))
         /\ DOMAIN GroupsUpdate(c, entry).groups = DOMAIN c.groups \cup {entry.name}
<1> DEFINE u == GroupsUpdate(c, entry)
           name == entry.name
           G == DOMAIN c.groups \cup {name}
           base == IF name \in DOMAIN c.groups THEN c.groups[name] ELSE NoGroupYet
           new == GroupUpdate(base, entry.value)
<1>1. base \in GroupRecord
  BY DEF IsConfig, NoGroupYet, GroupRecord
<1>2. new \in GroupRecord
  BY <1>1, GroupUpdateType
<1> HIDE DEF base
<1>3. /\ u.groups = [g \in G |-> IF g = name THEN new ELSE c.groups[g]]
      /\ u.group_order = IF name \in DOMAIN c.groups THEN c.group_order
                         ELSE Append(c.group_order, name)
      /\ u.number_cases = c.number_cases /\ u.policy = c.policy
      /\ u = [number_cases |-> u.number_cases, run_config |-> u.run_config,
              policy |-> u.policy, groups |-> u.groups, group_order |-> u.group_order]
  <2>1. u = [c EXCEPT !.group_order = IF name \in DOMAIN c.groups THEN @ ELSE Append(@, name),
                      !.groups = [g \in DOMAIN @ \cup {name} |->
                         IF g = name
                           THEN GroupUpdate(IF g \in DOMAIN @ THEN @[g] ELSE NoGroupYet, entry.value)
                           ELSE @[g]]]
    BY DEF GroupsUpdate
  <2>2. u.groups = [g \in G |-> IF g = name THEN new ELSE c.groups[g]]
    BY <2>1 DEF IsConfig, base
  <2> QED  BY <2>1, <2>2 DEF IsConfig
<1> HIDE DEF u, new
<1>4. u.groups \in [G -> GroupRecord] /\ DOMAIN u.groups = G
  BY <1>2, <1>3 DEF IsConfig
<1>5. u.group_order \in Seq(G)
  <2>1. c.group_order \in Seq(G)
    BY SeqMonotonic DEF IsConfig
  <2> QED  BY <1>3, <2>1
<1>6. u.number_cases \in Nat /\ u.policy \in GRADE_POLICY /\ G \subseteq Nat \ {0}
  BY <1>3 DEF IsConfig
<1>7. IsConfig(u)
  BY <1>3, <1>4, <1>5, <1>6 DEF IsConfig
<1> QED  BY <1>4, <1>7 DEF u

LEMMA MergeExists ==
  ASSUME NEW c, NEW es, Len(es) \in Nat
  PROVE  \E f : f = [n \in 0 .. Len(es) |->
                       IF n = 0 THEN c ELSE GroupsUpdate(f[n - 1], es[n])]
<1> DEFINE Holds(f, m) ==
             f = [n \in 0 .. m |-> IF n = 0 THEN c ELSE GroupsUpdate(f[n - 1], es[n])]
           Wrong == {m \in 0 .. Len(es) : ~\E f : Holds(f, m)}
<1>0. Wrong = {} => \E f : Holds(f, Len(es))
  <2>1. Len(es) \in 0 .. Len(es)
    OBVIOUS
  <2> HIDE DEF Holds
  <2> QED  BY <2>1
<1> SUFFICES ASSUME Wrong # {} PROVE FALSE
  BY <1>0
<1>1. PICK m \in Wrong : \A k \in Wrong : m <= k
  <2> HIDE DEF Holds
  <2>1. Wrong \in SUBSET Nat
    OBVIOUS
  <2> HIDE DEF Wrong
  <2> QED  BY <2>1, LeastElement
<1>2. m # 0
  <2>1. Holds([n \in 0 .. 0 |-> c], 0)
    OBVIOUS
  <2> QED  BY <2>1
<1>3. m - 1 \in 0 .. Len(es) /\ m - 1 \notin Wrong
  <2> HIDE DEF Holds
  <2> QED  BY <1>1, <1>2
<1>4. PICK f : Holds(f, m - 1)
  BY <1>3
<1> DEFINE g == [n \in 0 .. m |-> IF n = m THEN GroupsUpdate(f[m - 1], es[m]) ELSE f[n]]
<1>5. ASSUME NEW n \in 0 .. m
      PROVE  g[n] = IF n = 0 THEN c ELSE GroupsUpdate(g[n - 1], es[n])
  <2>1. CASE n = m
    BY <1>2, <2>1
  <2>2. CASE n # m
    <3>1. n \in 0 .. m - 1 /\ (n # 0 => n - 1 \in 0 .. m /\ n - 1 # m)
      BY <2>2
    <3>2. f[n] = IF n = 0 THEN c ELSE GroupsUpdate(f[n - 1], es[n])
      BY <1>4, <3>1
    <3> QED  BY <2>2, <3>1, <3>2
  <2> QED  BY <2>1, <2>2
<1>6. Holds(g, m)
  BY <1>5
<1> QED  BY <1>1, <1>6

LEMMA MergeUnfold ==
  ASSUME NEW c, NEW es, Len(es) \in Nat
  PROVE  \E f : /\ f = [n \in 0 .. Len(es) |-> IF n = 0 THEN c ELSE GroupsUpdate(f[n - 1], es[n])]
                /\ MergeGroups(c, es) = f[Len(es)]
<1> DEFINE merged == CHOOSE f : f = [n \in 0 .. Len(es) |->
                       IF n = 0 THEN c ELSE GroupsUpdate(f[n - 1], es[n])]
<1>1. merged = [n \in 0 .. Len(es) |-> IF n = 0 THEN c ELSE GroupsUpdate(merged[n - 1], es[n])]
  BY MergeExists
<1>2. MergeGroups(c, es) = merged[Len(es)]
  BY DEF MergeGroups
<1> HIDE DEF merged
<1> QED  BY <1>1, <1>2

LEMMA MergeType ==
  ASSUME NEW c, IsConfig(c), NEW es, es \in Seq(Range(es)),
         \A e \in Range(es) : e.name \in Nat \ {0} /\ IsGroup(e.value)
  PROVE  /\ IsConfig(MergeGroups(c, es))
         /\ DOMAIN MergeGroups(c, es).groups = DOMAIN c.groups \cup {e.name : e \in Range(es)}
<1>1. Len(es) \in Nat /\ Len(es) \in 0 .. Len(es) /\ DOMAIN es = 1 .. Len(es)
  OBVIOUS
<1>2. PICK merged :
        /\ merged = [n \in 0 .. Len(es) |->
                       IF n = 0 THEN c ELSE GroupsUpdate(merged[n - 1], es[n])]
        /\ MergeGroups(c, es) = merged[Len(es)]
  BY <1>1, MergeUnfold, Zenon
<1> DEFINE Right(n) == /\ IsConfig(merged[n])
                       /\ DOMAIN merged[n].groups = DOMAIN c.groups \cup {es[i].name : i \in 1 .. n}
           Wrong == {n \in 0 .. Len(es) : ~Right(n)}
<1>3. ASSUME Wrong # {} PROVE FALSE
  <2>1. PICK n \in Wrong : \A k \in Wrong : n <= k
    <3>1. Wrong \in SUBSET Nat
      OBVIOUS
    <3> HIDE DEF Wrong
    <3> QED  BY <1>3, <3>1, LeastElement
  <2>2. CASE n = 0
    <3>1. merged[0] = c /\ {es[i].name : i \in 1 .. 0} = {}
      BY <1>1, <1>2
    <3> QED  BY <2>1, <2>2, <3>1
  <2>3. CASE n # 0
    <3>1. n - 1 \in 0 .. Len(es) /\ ~(n <= n - 1) /\ n \in 1 .. Len(es) /\ n \in Nat
      BY <1>1, <2>3
    <3>2. Right(n - 1)
      BY <2>1, <3>1
    <3>3. merged[n] = GroupsUpdate(merged[n - 1], es[n])
      BY <1>2, <2>3
    <3>4. es[n].name \in Nat \ {0} /\ IsGroup(es[n].value)
      BY <1>1, <3>1 DEF Range
    <3>5. /\ IsConfig(merged[n])
          /\ DOMAIN merged[n].groups = DOMAIN merged[n - 1].groups \cup {es[n].name}
      <4>1. IsConfig(merged[n - 1])
        BY <3>2
      <4> QED  BY <3>3, <3>4, <4>1, GroupsUpdateType
    <3>6. 1 .. n = (1 .. n - 1) \cup {n}
      BY <3>1
    <3>7. {es[i].name : i \in 1 .. n} = {es[i].name : i \in 1 .. n - 1} \cup {es[n].name}
      BY <3>6
    <3> QED  BY <2>1, <3>2, <3>5, <3>7
  <2> QED  BY <2>2, <2>3
<1>4. Right(Len(es))
  BY <1>1, <1>3
<1>5. {es[i].name : i \in 1 .. Len(es)} = {e.name : e \in Range(es)}
  BY <1>1 DEF Range
<1> QED  BY <1>2, <1>4, <1>5

(* The settings a file has, before its groups.                             *)
Settings(c, number, ran, bits) ==
  [c EXCEPT !.number_cases = number, !.run_config = ran, !.policy = bits]

LEMMA SettingsRight ==
  ASSUME NEW c, IsConfig(c), NEW number \in Nat, NEW ran, NEW bits \in GRADE_POLICY
  PROVE  LET m == Settings(c, number, ran, bits)
         IN  /\ IsConfig(m) /\ m.number_cases = number /\ m.run_config = ran /\ m.policy = bits
             /\ m.groups = c.groups /\ m.group_order = c.group_order
<1> DEFINE m == Settings(c, number, ran, bits)
<1>1. m = [x \in DOMAIN c |-> IF x = "policy" THEN bits ELSE IF x = "run_config" THEN ran
                              ELSE IF x = "number_cases" THEN number ELSE c[x]]
  BY DEF Settings
<1>2. DOMAIN c = {"number_cases", "run_config", "policy", "groups", "group_order"}
  BY DEF IsConfig
<1> HIDE DEF m
<1>3. /\ m.number_cases = number /\ m.run_config = ran /\ m.policy = bits
      /\ m.groups = c.groups /\ m.group_order = c.group_order
  BY <1>1, <1>2
<1>4. m = [number_cases |-> m.number_cases, run_config |-> m.run_config,
           policy |-> m.policy, groups |-> m.groups, group_order |-> m.group_order]
  BY <1>1, <1>2, <1>3
<1>5. IsConfig(m)
  BY <1>3, <1>4 DEF IsConfig
<1> QED  BY <1>3, <1>5 DEF m

LEMMA UpdateType ==
  ASSUME NEW c, IsConfig(c), NEW yaml, IsFile(yaml)
  PROVE  /\ IsConfig(Update(c, yaml))
         /\ DOMAIN Update(c, yaml).groups = DOMAIN c.groups \cup Names(yaml)
<1> DEFINE run == IF c.run_config = NoRun THEN NewRun ELSE c.run_config
           number == update_if_exists(c.number_cases, yaml, "num-tests")
           ran == IF "run" \in DOMAIN yaml THEN RunUpdate(run, yaml.run) ELSE c.run_config
           bits == IF "policy" \notin DOMAIN yaml THEN c.policy
                   ELSE update_if_exists({}, GRADE_POLICY_MAPPING, yaml.policy)
           m == Settings(c, number, ran, bits)
<1>1. Update(c, yaml) = IF "groups" \in DOMAIN yaml THEN MergeGroups(m, yaml.groups) ELSE m
  BY DEF Update, Settings
<1>2. number \in Nat
  BY DEF IsConfig, IsFile, update_if_exists
<1>3. bits \in GRADE_POLICY
  BY DEF IsConfig, update_if_exists, GRADE_POLICY, GRADE_POLICY_MAPPING
<1> HIDE DEF number, ran, bits
<1>4. IsConfig(m) /\ m.groups = c.groups
  BY <1>2, <1>3, SettingsRight
<1> HIDE DEF m
<1>5. CASE "groups" \in DOMAIN yaml
  BY <1>1, <1>4, <1>5, MergeType DEF IsFile, Names
<1>6. CASE "groups" \notin DOMAIN yaml
  BY <1>1, <1>4, <1>6 DEF Names
<1> QED  BY <1>5, <1>6

MergeInv ==
  /\ files \in Arguments /\ read \in 0 .. Len(files)
  /\ IsConfig(config) /\ Group = NamesOf(files, read)
  /\ phase # "update" => read = Len(files)

LEMMA FilesType ==
  ASSUME NEW fs \in Arguments
  PROVE  /\ Len(fs) \in Nat /\ DOMAIN fs = 1 .. Len(fs)
         /\ \A i \in 1 .. Len(fs) : IsFile(fs[i])
         /\ \E n \in Nat : NamesOf(fs, Len(fs)) = 1 .. n
<1>1. fs \in Seq(Range(fs)) /\ \A yaml \in Range(fs) : IsFile(yaml)
  BY ArgumentsAssumption
<1>2. Len(fs) \in Nat /\ DOMAIN fs = 1 .. Len(fs)
  BY <1>1
<1>3. \A i \in 1 .. Len(fs) : IsFile(fs[i])
  BY <1>1, <1>2 DEF Range
<1>4. NamesOf(fs, Len(fs)) = UNION {Names(fs[i]) : i \in DOMAIN fs}
  BY <1>2 DEF NamesOf
<1>5. \E n \in Nat : NamesOf(fs, Len(fs)) = 1 .. n
  <2>1. PICK n \in 0 .. Cardinality(NamesOf(fs, Len(fs))) : NamesOf(fs, Len(fs)) = 1 .. n
    BY <1>4, ArgumentsAssumption
  <2>2. n \in Nat
    OBVIOUS
  <2> QED  BY <2>1, <2>2
<1> QED  BY <1>2, <1>3, <1>5

LEMMA InitMergeInv == Init => MergeInv
<1> SUFFICES ASSUME Init PROVE MergeInv
  OBVIOUS
<1>1. files \in Arguments /\ read = 0 /\ config = NewConfig /\ phase = "update"
  BY DEF Init
<1>2. read \in 0 .. Len(files)
  BY <1>1, FilesType
<1>3. config.groups = <<>> /\ Group = {}
  BY <1>1 DEF NewConfig, Group
<1>4. IsConfig(config)
  <2>1. <<>> \in [{} -> GroupRecord] /\ DOMAIN <<>> = {} /\ <<>> \in Seq({})
    OBVIOUS
  <2> QED  BY <1>1, <2>1 DEF IsConfig, NewConfig, GRADE_POLICY
<1>5. NamesOf(files, 0) = {}
  BY DEF NamesOf
<1> QED  BY <1>1, <1>2, <1>3, <1>4, <1>5 DEF MergeInv

LEMMA UpdateMergeInv == MergeInv /\ UpdateFile => MergeInv'
<1> SUFFICES ASSUME MergeInv, UpdateFile PROVE MergeInv'
  OBVIOUS
<1>1. /\ files' = files /\ read' = read + 1 /\ phase' = phase /\ phase = "update"
      /\ config' = Update(config, files[read + 1]) /\ read < Len(files)
  BY DEF UpdateFile
<1>2. /\ files \in Arguments /\ Len(files) \in Nat /\ read \in Nat
      /\ read + 1 \in 1 .. Len(files) /\ read + 1 \in 0 .. Len(files)
  BY <1>1, FilesType DEF MergeInv
<1>3. IsFile(files[read + 1]) /\ IsConfig(config)
  BY <1>2, FilesType DEF MergeInv
<1>4. IsConfig(config') /\ Group' = Group \cup Names(files[read + 1])
  BY <1>1, <1>3, UpdateType DEF Group
<1>5. NamesOf(files, read + 1) = NamesOf(files, read) \cup Names(files[read + 1])
  <2>1. 1 .. read + 1 = (1 .. read) \cup {read + 1}
    BY <1>2
  <2> QED  BY <2>1 DEF NamesOf
<1> QED  BY <1>1, <1>2, <1>4, <1>5 DEF MergeInv

(* Every other step leaves the merged configuration as it is.              *)
LEMMA ConfigStays ==
  ASSUME [Next]_vars, ~UpdateFile
  PROVE  /\ UNCHANGED <<files, read, config>>
         /\ Group' = Group /\ deps' = deps /\ tests' = tests /\ policy' = policy
         /\ phase' = "update" => phase = "update"
         /\ phase = "update" /\ phase' # "update" => read = Len(files)
<1>1. /\ UNCHANGED <<files, read, config>>
      /\ phase' = "update" => phase = "update"
      /\ phase = "update" /\ phase' # "update" => read = Len(files)
  BY DEF Next, StartGrading, VisitRoot, VisitDependency, LeaveGroup, EndSearch, StartGroup,
     PassOver, GradeTest, EndGroup, Finish, vars, merging
<1> QED  BY <1>1 DEF Group, deps, tests, policy

LEMMA NextMergeInv == MergeInv /\ [Next]_vars => MergeInv'
<1> SUFFICES ASSUME MergeInv, [Next]_vars PROVE MergeInv'
  OBVIOUS
<1>1. CASE UpdateFile
  BY <1>1, UpdateMergeInv
<1>2. CASE ~UpdateFile
  BY <1>2, ConfigStays DEF MergeInv
<1> QED  BY <1>1, <1>2

LEMMA AlwaysMergeInv == Spec => []MergeInv
  BY InitMergeInv, NextMergeInv, PTL DEF Spec

LEMMA MergedGroups ==
  ASSUME MergeInv
  PROVE  /\ deps \in [Group -> Seq(Nat)] /\ tests \in [Group -> Seq(Nat)]
         /\ Group \subseteq Nat \ {0} /\ policy \in GRADE_POLICY
         /\ config.number_cases \in Nat /\ config.group_order \in Seq(Group)
         /\ phase # "update" => \E n \in Nat : Group = 1 .. n /\ Cardinality(Group) = n
<1>1. IsConfig(config) /\ files \in Arguments
  BY DEF MergeInv
<1>2. phase # "update" => \E n \in Nat : Group = 1 .. n
  BY <1>1, FilesType DEF MergeInv
<1>3. ASSUME NEW n \in Nat PROVE Cardinality(1 .. n) = n
  <2>1. 1 \in Int /\ n \in Int /\ (1 > n => n = 0)
    OBVIOUS
  <2>2. Cardinality(1 .. n) = IF 1 > n THEN 0 ELSE n - 1 + 1
    BY <2>1, FS_Interval
  <2> QED  BY <2>1, <2>2
<1>4. phase # "update" => \E n \in Nat : Group = 1 .. n /\ Cardinality(Group) = n
  BY <1>2, <1>3
<1>5. \A g \in Group : config.groups[g] \in GroupRecord
  BY <1>1 DEF IsConfig, Group
<1>6. deps \in [Group -> Seq(Nat)] /\ tests \in [Group -> Seq(Nat)]
  BY <1>5 DEF deps, tests, GroupRecord
<1> QED  BY <1>1, <1>4, <1>6 DEF IsConfig, Group, policy

-------------------------------------------------------------------------------
(* What the files say, one after the other.                                *)

(* Every set of numbers that is not empty and has a bound has a greatest.  *)
LEMMA GreatestElement ==
  ASSUME NEW n \in Nat, NEW S \in SUBSET (1 .. n), S # {}
  PROVE  \E i \in S : \A j \in S : j <= i
<1> DEFINE Below == {n - i : i \in S}
<1>1. Below \in SUBSET Nat /\ Below # {}
  <2>1. \A i \in S : n - i \in Nat
    OBVIOUS
  <2>2. \E i \in S : n - i \in Below
    OBVIOUS
  <2> QED  BY <2>1, <2>2
<1>2. PICK b \in Below : \A c \in Below : b <= c
  <2> HIDE DEF Below
  <2> QED  BY <1>1, LeastElement
<1>3. PICK i \in S : b = n - i
  OBVIOUS
<1>4. ASSUME NEW j \in S PROVE j <= i
  <2>1. n - i <= n - j
    BY <1>2, <1>3
  <2> QED  BY <2>1
<1> QED  BY <1>4

(* One more map: what it says replaces what was said.                      *)
LEMMA LastSaidAppend ==
  ASSUME NEW S, NEW maps \in Seq(S), NEW m \in S, NEW key, NEW default
  PROVE  LastSaid(Append(maps, m), key, default) =
           IF key \in DOMAIN m THEN m[key] ELSE LastSaid(maps, key, default)
<1> DEFINE Has(ms) == {i \in DOMAIN ms : key \in DOMAIN ms[i]}
           Latest(ms) == CHOOSE i \in Has(ms) : \A j \in Has(ms) : j <= i
           n == Len(maps)
           more == Append(maps, m)
<1>1. /\ n \in Nat /\ DOMAIN maps = 1 .. n /\ DOMAIN more = 1 .. n + 1
      /\ more[n + 1] = m /\ \A i \in 1 .. n : more[i] = maps[i]
  BY AppendProperties
<1>2. \A ms : LastSaid(ms, key, default) = IF Has(ms) = {} THEN default ELSE ms[Latest(ms)][key]
  BY DEF LastSaid
<1>3. CASE key \in DOMAIN m
  <2>1. n + 1 \in Has(more) /\ \A j \in Has(more) : j <= n + 1
    BY <1>1, <1>3
  <2>2. Has(more) \subseteq Int
    BY <1>1
  <2>3. Latest(more) = n + 1
    <3>1. Latest(more) \in Has(more) /\ \A j \in Has(more) : j <= Latest(more)
      BY <2>1
    <3> HIDE DEF Latest, Has
    <3>2. n + 1 <= Latest(more) /\ Latest(more) <= n + 1 /\ Latest(more) \in Int
      BY <2>1, <2>2, <3>1
    <3> QED  BY <1>1, <3>2
  <2> HIDE DEF Latest
  <2> QED  BY <1>1, <1>2, <1>3, <2>1, <2>3
<1>4. CASE key \notin DOMAIN m
  <2>1. Has(more) = Has(maps)
    BY <1>1, <1>4
  <2>2. Latest(more) = Latest(maps)
    BY <2>1
  <2>3. ASSUME Has(maps) # {} PROVE more[Latest(more)] = maps[Latest(maps)]
    <3>1. \E i \in Has(maps) : \A j \in Has(maps) : j <= i
      BY <1>1, <2>3, GreatestElement
    <3>2. Latest(maps) \in 1 .. n
      BY <1>1, <3>1
    <3> QED  BY <1>1, <2>2, <3>2
  <2> HIDE DEF Has, Latest
  <2> QED  BY <1>2, <1>4, <2>1, <2>3
<1> QED  BY <1>3, <1>4

LEMMA LastSaidNothing ==
  ASSUME NEW maps, NEW key, NEW default, \A i \in DOMAIN maps : key \notin DOMAIN maps[i]
  PROVE  LastSaid(maps, key, default) = default
BY DEF LastSaid

(* Sequences made elementwise, and one element more.                       *)
LEMMA AppendMapped ==
  ASSUME NEW S, NEW s \in Seq(S), NEW e \in S, NEW T, NEW f \in [S -> T]
  PROVE  /\ [i \in DOMAIN s |-> f[s[i]]] \in Seq(T)
         /\ [i \in DOMAIN Append(s, e) |-> f[Append(s, e)[i]]]
              = Append([i \in DOMAIN s |-> f[s[i]]], f[e])
<1> DEFINE t == [i \in DOMAIN s |-> f[s[i]]]
           u == [i \in DOMAIN Append(s, e) |-> f[Append(s, e)[i]]]
           n == Len(s)
<1>1. /\ n \in Nat /\ DOMAIN s = 1 .. n /\ \A i \in 1 .. n : s[i] \in S
      /\ DOMAIN Append(s, e) = 1 .. n + 1
      /\ Append(s, e)[n + 1] = e /\ \A i \in 1 .. n : Append(s, e)[i] = s[i]
  BY AppendProperties
<1>2. t \in Seq(T) /\ Len(t) = n
  BY <1>1
<1>3. /\ Append(t, f[e]) \in Seq(T) /\ Len(Append(t, f[e])) = n + 1
      /\ Append(t, f[e])[n + 1] = f[e] /\ \A i \in 1 .. n : Append(t, f[e])[i] = t[i]
  <2>1. f[e] \in T
    OBVIOUS
  <2> HIDE DEF t
  <2> QED  BY <1>2, <2>1, AppendProperties
<1>4. u \in Seq(T) /\ Len(u) = n + 1
  <2>1. \A i \in 1 .. n + 1 : Append(s, e)[i] \in S
    BY <1>1
  <2> QED  BY <1>1, <2>1
<1>5. \A i \in 1 .. n + 1 : u[i] = Append(t, f[e])[i]
  BY <1>1, <1>3
<1> HIDE DEF t, u
<1>6. u = Append(t, f[e])
  BY <1>1, <1>3, <1>4, <1>5, SeqEqual
<1> QED  BY <1>2, <1>6 DEF t, u

LEMMA SectionsAppend ==
  ASSUME NEW S, NEW fs \in Seq(S), NEW f \in S, NEW key, NEW T,
         \A g \in S : (IF key \in DOMAIN g THEN g[key] ELSE <<>>) \in T
  PROVE  /\ Sections(fs, key) \in Seq(T)
         /\ Sections(Append(fs, f), key) =
              Append(Sections(fs, key), IF key \in DOMAIN f THEN f[key] ELSE <<>>)
<1> DEFINE F == [g \in S |-> IF key \in DOMAIN g THEN g[key] ELSE <<>>]
<1>1. F \in [S -> T]
  OBVIOUS
<1>2. /\ \A i \in DOMAIN fs : fs[i] \in S
      /\ \A i \in DOMAIN Append(fs, f) : Append(fs, f)[i] \in S
  <2>1. Append(fs, f) \in Seq(S)
    OBVIOUS
  <2> QED  BY <2>1
<1>3. /\ Sections(fs, key) = [i \in DOMAIN fs |-> F[fs[i]]]
      /\ Sections(Append(fs, f), key) = [i \in DOMAIN Append(fs, f) |-> F[Append(fs, f)[i]]]
      /\ F[f] = IF key \in DOMAIN f THEN f[key] ELSE <<>>
  BY <1>2 DEF Sections
<1> HIDE DEF F
<1>4. /\ [i \in DOMAIN fs |-> F[fs[i]]] \in Seq(T)
      /\ [i \in DOMAIN Append(fs, f) |-> F[Append(fs, f)[i]]]
           = Append([i \in DOMAIN fs |-> F[fs[i]]], F[f])
  BY <1>1, AppendMapped
<1> QED  BY <1>3, <1>4

LEMMA SaidOfAppend ==
  ASSUME NEW S, NEW ms \in Seq(S), NEW e \in S, NEW g
  PROVE  /\ SaidOf(g, ms) \in Seq({d.value : d \in S} \cup {<<>>})
         /\ SaidOf(g, Append(ms, e)) =
              Append(SaidOf(g, ms), IF e.name = g THEN e.value ELSE <<>>)
<1> DEFINE F == [d \in S |-> IF d.name = g THEN d.value ELSE <<>>]
           T == {d.value : d \in S} \cup {<<>>}
<1>1. F \in [S -> T]
  OBVIOUS
<1>2. /\ \A i \in DOMAIN ms : ms[i] \in S
      /\ \A i \in DOMAIN Append(ms, e) : Append(ms, e)[i] \in S
  <2>1. Append(ms, e) \in Seq(S)
    OBVIOUS
  <2> QED  BY <2>1
<1>3. /\ SaidOf(g, ms) = [i \in DOMAIN ms |-> F[ms[i]]]
      /\ SaidOf(g, Append(ms, e)) = [i \in DOMAIN Append(ms, e) |-> F[Append(ms, e)[i]]]
      /\ F[e] = IF e.name = g THEN e.value ELSE <<>>
  BY <1>2 DEF SaidOf
<1> HIDE DEF F, T
<1>4. /\ [i \in DOMAIN ms |-> F[ms[i]]] \in Seq(T)
      /\ [i \in DOMAIN Append(ms, e) |-> F[Append(ms, e)[i]]]
           = Append([i \in DOMAIN ms |-> F[ms[i]]], F[e])
  BY <1>1, AppendMapped
<1>5. SaidOf(g, ms) \in Seq(T)
  BY <1>3, <1>4
<1> QED  BY <1>3, <1>4, <1>5 DEF T

-------------------------------------------------------------------------------
(* What the groups of c are when the entries m have been merged.           *)
NamedIn(m) == {m[i].name : i \in DOMAIN m}
SaidLast(g, m, key) == LastSaid(SaidOf(g, m), key, <<>>)

GroupsSay(c, m) ==
  /\ DOMAIN c.groups = NamedIn(m)
  /\ \A i, j \in DOMAIN c.group_order :
       i < j => FirstMention(c.group_order[i], m) < FirstMention(c.group_order[j], m)
  /\ \A g \in DOMAIN c.groups :
       /\ c.groups[g].deps = SaidLast(g, m, "deps")
       /\ Range(c.groups[g].tests) = TestsOf(SaidLast(g, m, "tests"))

IsEntry(e) == e.name \in Nat \ {0} /\ IsGroup(e.value)

LEMMA FirstMentionRight ==
  ASSUME NEW S, NEW m \in Seq(S), NEW g \in NamedIn(m)
  PROVE  /\ FirstMention(g, m) \in 1 .. Len(m) /\ m[FirstMention(g, m)].name = g
         /\ \A i \in 1 .. FirstMention(g, m) - 1 : m[i].name # g
         /\ \A i \in 1 .. Len(m) :
              m[i].name = g /\ (\A j \in 1 .. i - 1 : m[j].name # g) => i = FirstMention(g, m)
<1> DEFINE First(i) == m[i].name = g /\ \A j \in 1 .. i - 1 : m[j].name # g
           Named == {i \in 1 .. Len(m) : m[i].name = g}
<1>1. Len(m) \in Nat /\ DOMAIN m = 1 .. Len(m)
  OBVIOUS
<1>2. Named \in SUBSET Nat /\ Named # {}
  BY <1>1 DEF NamedIn
<1>3. PICK i \in Named : \A k \in Named : i <= k
  <2> HIDE DEF Named
  <2> QED  BY <1>2, LeastElement
<1>4. i \in DOMAIN m /\ First(i)
  <2>1. ASSUME NEW j \in 1 .. i - 1, m[j].name = g PROVE FALSE
    <3>1. j \in 1 .. Len(m) /\ ~(i <= j)
      BY <1>1
    <3> QED  BY <1>3, <2>1, <3>1
  <2> QED  BY <1>1, <2>1
<1>5. FirstMention(g, m) \in DOMAIN m /\ First(FirstMention(g, m))
  <2>1. FirstMention(g, m) = CHOOSE x \in DOMAIN m : First(x)
    BY DEF FirstMention
  <2> HIDE DEF First
  <2> QED  BY <1>4, <2>1
<1>6. ASSUME NEW x \in 1 .. Len(m), NEW y \in 1 .. Len(m), First(x), First(y) PROVE x = y
  <2>1. ~(x < y) /\ ~(y < x)
    BY <1>1, <1>6
  <2> QED  BY <1>1, <2>1
<1> QED  BY <1>1, <1>5, <1>6

LEMMA FirstMentionAppend ==
  ASSUME NEW S, NEW m \in Seq(S), NEW e \in S, NEW g \in NamedIn(m) \cup {e.name}
  PROVE  FirstMention(g, Append(m, e)) =
           IF g \in NamedIn(m) THEN FirstMention(g, m) ELSE Len(m) + 1
<1> DEFINE n == Len(m)
           more == Append(m, e)
<1>1. /\ n \in Nat /\ DOMAIN m = 1 .. n /\ DOMAIN more = 1 .. n + 1 /\ Len(more) = n + 1
      /\ more[n + 1] = e /\ \A i \in 1 .. n : more[i] = m[i]
      /\ more \in Seq(S)
  BY AppendProperties
<1> HIDE DEF more
<1>2. g \in NamedIn(more)
  <2>1. CASE g \in NamedIn(m)
    <3>1. PICK i \in 1 .. n : m[i].name = g
      BY <1>1, <2>1 DEF NamedIn
    <3> QED  BY <1>1, <3>1 DEF NamedIn
  <2>2. CASE g = e.name
    <3>1. n + 1 \in DOMAIN more
      BY <1>1
    <3> QED  BY <1>1, <2>2, <3>1 DEF NamedIn
  <2> QED  BY <2>1, <2>2
<1>3. ASSUME NEW i \in 1 .. n + 1, more[i].name = g, \A j \in 1 .. i - 1 : more[j].name # g
      PROVE  i = FirstMention(g, more)
  BY <1>1, <1>2, <1>3, FirstMentionRight
<1>4. CASE g \in NamedIn(m)
  <2> DEFINE i == FirstMention(g, m)
  <2>1. i \in 1 .. n /\ m[i].name = g /\ \A j \in 1 .. i - 1 : m[j].name # g
    BY <1>4, FirstMentionRight
  <2> HIDE DEF i
  <2>2. i \in 1 .. n + 1 /\ more[i].name = g
    BY <1>1, <2>1
  <2>3. \A j \in 1 .. i - 1 : more[j].name # g
    <3>1. \A j \in 1 .. i - 1 : j \in 1 .. n
      BY <1>1, <2>1
    <3> QED  BY <1>1, <2>1, <3>1
  <2> QED  BY <1>3, <1>4, <2>2, <2>3 DEF i, more
<1>5. CASE g \notin NamedIn(m)
  <2>1. n + 1 \in 1 .. n + 1 /\ more[n + 1].name = g /\ (n + 1) - 1 = n
    BY <1>1, <1>5
  <2>2. \A j \in 1 .. n : more[j].name # g
    BY <1>1, <1>5 DEF NamedIn
  <2>3. n + 1 = FirstMention(g, more)
    BY <1>3, <2>1, <2>2
  <2> QED  BY <1>5, <2>3 DEF more
<1> QED  BY <1>4, <1>5

LEMMA SaidLastAppend ==
  ASSUME NEW S, NEW m \in Seq(S), NEW e \in S, NEW g, NEW key
  PROVE  SaidLast(g, Append(m, e), key) =
           IF e.name = g /\ key \in DOMAIN e.value THEN e.value[key] ELSE SaidLast(g, m, key)
<1> DEFINE T == {d.value : d \in S} \cup {<<>>}
           v == IF e.name = g THEN e.value ELSE <<>>
<1>1. /\ SaidOf(g, m) \in Seq(T) /\ v \in T
      /\ SaidOf(g, Append(m, e)) = Append(SaidOf(g, m), v)
  BY SaidOfAppend
<1> HIDE DEF T, v
<1>2. SaidLast(g, Append(m, e), key) =
        IF key \in DOMAIN v THEN v[key] ELSE SaidLast(g, m, key)
  BY <1>1, LastSaidAppend DEF SaidLast
<1>3. DOMAIN <<>> = {}
  OBVIOUS
<1> QED  BY <1>2, <1>3 DEF v

LEMMA NeverSaid ==
  ASSUME NEW m, NEW g, NEW key, g \notin NamedIn(m)
  PROVE  SaidLast(g, m, key) = <<>>
<1>1. \A i \in DOMAIN SaidOf(g, m) : SaidOf(g, m)[i] = <<>>
  BY DEF SaidOf, NamedIn
<1>2. DOMAIN <<>> = {}
  OBVIOUS
<1>3. \A i \in DOMAIN SaidOf(g, m) : key \notin DOMAIN SaidOf(g, m)[i]
  BY <1>1, <1>2
<1> QED  BY <1>3, LastSaidNothing DEF SaidLast

LEMMA GroupsSayNext ==
  ASSUME NEW S, NEW m \in Seq(S), NEW c, IsConfig(c), GroupsSay(c, m), NEW e \in S, IsEntry(e)
  PROVE  GroupsSay(GroupsUpdate(c, e), Append(m, e))
<1> DEFINE u == GroupsUpdate(c, e)
           more == Append(m, e)
           name == e.name
           G == DOMAIN c.groups \cup {name}
           base == IF name \in DOMAIN c.groups THEN c.groups[name] ELSE NoGroupYet
           new == GroupUpdate(base, e.value)
<1>1. /\ u.groups = [g \in G |-> IF g = name THEN new ELSE c.groups[g]]
      /\ u.group_order = IF name \in DOMAIN c.groups THEN c.group_order
                         ELSE Append(c.group_order, name)
  <2>1. u = [c EXCEPT !.group_order = IF name \in DOMAIN c.groups THEN @ ELSE Append(@, name),
                      !.groups = [g \in DOMAIN @ \cup {name} |->
                         IF g = name
                           THEN GroupUpdate(IF g \in DOMAIN @ THEN @[g] ELSE NoGroupYet, e.value)
                           ELSE @[g]]]
    BY DEF GroupsUpdate
  <2> QED  BY <2>1 DEF IsConfig, base
<1>2. NamedIn(more) = NamedIn(m) \cup {name}
  <2>1. /\ Len(m) \in Nat /\ DOMAIN m = 1 .. Len(m) /\ DOMAIN more = 1 .. Len(m) + 1
        /\ more[Len(m) + 1] = e /\ \A i \in 1 .. Len(m) : more[i] = m[i]
    BY AppendProperties
  <2>2. 1 .. Len(m) + 1 = (1 .. Len(m)) \cup {Len(m) + 1}
    BY <2>1
  <2> HIDE DEF more
  <2> QED  BY <2>1, <2>2 DEF NamedIn
<1> HIDE DEF u, base, new
<1>3. DOMAIN u.groups = NamedIn(more) /\ G = NamedIn(more)
  BY <1>1, <1>2 DEF GroupsSay
<1>4. ASSUME NEW i \in DOMAIN u.group_order, NEW j \in DOMAIN u.group_order, i < j
      PROVE  FirstMention(u.group_order[i], more) < FirstMention(u.group_order[j], more)
  <2> DEFINE o == c.group_order
             n == Len(o)
  <2>1. /\ o \in Seq(NamedIn(m)) /\ n \in Nat /\ DOMAIN o = 1 .. n
        /\ \A k \in 1 .. n : o[k] \in NamedIn(m)
    BY DEF IsConfig, GroupsSay
  <2>2. \A k \in 1 .. n :
          FirstMention(o[k], more) = FirstMention(o[k], m) /\ FirstMention(o[k], m) \in 1 .. Len(m)
    BY <2>1, FirstMentionAppend, FirstMentionRight
  <2>3. \A k, l \in 1 .. n : k < l => FirstMention(o[k], m) < FirstMention(o[l], m)
    BY <2>1 DEF GroupsSay
  <2> HIDE DEF o, more
  <2>4. CASE name \in DOMAIN c.groups
    <3>1. u.group_order = o
      BY <1>1, <2>4 DEF o
    <3> QED  BY <1>4, <2>1, <2>2, <2>3, <3>1
  <2>5. CASE name \notin DOMAIN c.groups
    <3>1. u.group_order = Append(o, name)
      BY <1>1, <2>5 DEF o
    <3>2. /\ DOMAIN u.group_order = 1 .. n + 1 /\ u.group_order[n + 1] = name
          /\ \A k \in 1 .. n : u.group_order[k] = o[k]
      BY <2>1, <3>1
    <3>3. FirstMention(name, more) = Len(m) + 1
      BY <2>5, FirstMentionAppend DEF GroupsSay, more
    <3>4. i \in 1 .. n /\ (j \in 1 .. n \/ j = n + 1)
      BY <1>4, <2>1, <3>2
    <3>5. CASE j \in 1 .. n
      BY <1>4, <2>2, <2>3, <3>2, <3>4, <3>5
    <3>6. CASE j = n + 1
      <4>1. Len(m) \in Nat
        OBVIOUS
      <4>2. FirstMention(o[i], more) \in 1 .. Len(m)
        BY <2>2, <3>4
      <4>3. FirstMention(o[i], more) < Len(m) + 1
        BY <4>1, <4>2
      <4> QED  BY <3>2, <3>3, <3>4, <3>6, <4>3
    <3> QED  BY <3>4, <3>5, <3>6
  <2> QED  BY <2>4, <2>5
<1>5. ASSUME NEW g \in DOMAIN u.groups
      PROVE  /\ u.groups[g].deps = SaidLast(g, more, "deps")
             /\ Range(u.groups[g].tests) = TestsOf(SaidLast(g, more, "tests"))
  <2>1. \A key : SaidLast(g, more, key) =
          IF name = g /\ key \in DOMAIN e.value THEN e.value[key] ELSE SaidLast(g, m, key)
    BY SaidLastAppend
  <2> HIDE DEF more
  <2>2. CASE g # name
    <3>1. g \in DOMAIN c.groups /\ u.groups[g] = c.groups[g]
      BY <1>1, <2>2
    <3> QED  BY <2>1, <2>2, <3>1 DEF GroupsSay
  <2>3. CASE g = name
    <3>1. base.deps = SaidLast(g, m, "deps") /\ Range(base.tests) = TestsOf(SaidLast(g, m, "tests"))
      <4>1. CASE g \in DOMAIN c.groups
        BY <2>3, <4>1 DEF base, GroupsSay
      <4>2. CASE g \notin DOMAIN c.groups
        <5>1. SaidLast(g, m, "deps") = <<>> /\ SaidLast(g, m, "tests") = <<>>
          BY <4>2, NeverSaid DEF GroupsSay
        <5>2. Range(<<>>) = {} /\ TestsOf(<<>>) = {}
          BY DEF Range, TestsOf
        <5>3. base = NoGroupYet
          BY <2>3, <4>2 DEF base
        <5> QED  BY <5>1, <5>2, <5>3 DEF NoGroupYet
      <4> QED  BY <4>1, <4>2
    <3>2. u.groups[g] = new
      BY <1>1, <2>3
    <3>3. new.deps = SaidLast(g, more, "deps")
      BY <2>1, <2>3, <3>1 DEF new, GroupUpdate, update_if_exists
    <3>4. Range(new.tests) = TestsOf(SaidLast(g, more, "tests"))
      <4>1. CASE "tests" \in DOMAIN e.value
        <5>1. e.value.tests \in Seq(Item \cup {Bad})
          BY <4>1 DEF IsEntry, IsGroup
        <5>2. new.tests = convert_item_list(e.value.tests)
          BY <4>1 DEF new, GroupUpdate
        <5> QED  BY <2>1, <2>3, <4>1, <5>1, <5>2, ConvertRight
      <4>2. CASE "tests" \notin DOMAIN e.value
        BY <2>1, <3>1, <4>2 DEF new, GroupUpdate
      <4> QED  BY <4>1, <4>2
    <3> QED  BY <3>2, <3>3, <3>4
  <2> QED  BY <2>2, <2>3
<1> HIDE DEF more
<1> QED  BY <1>3, <1>4, <1>5 DEF GroupsSay, u, more

LEMMA OthersStay ==
  ASSUME NEW c, IsConfig(c), NEW e
  PROVE  /\ GroupsUpdate(c, e).number_cases = c.number_cases
         /\ GroupsUpdate(c, e).run_config = c.run_config
         /\ GroupsUpdate(c, e).policy = c.policy
<1> DEFINE o == IF e.name \in DOMAIN c.groups THEN c.group_order ELSE Append(c.group_order, e.name)
           G == [g \in DOMAIN c.groups \cup {e.name} |->
                  IF g = e.name
                    THEN GroupUpdate(IF g \in DOMAIN c.groups THEN c.groups[g] ELSE NoGroupYet, e.value)
                    ELSE c.groups[g]]
<1>1. GroupsUpdate(c, e) = [c EXCEPT !.group_order = o, !.groups = G]
  BY DEF GroupsUpdate
<1> HIDE DEF o, G
<1> QED  BY <1>1 DEF IsConfig

LEMMA MergeGroupsSay ==
  ASSUME NEW S, \A e \in S : IsEntry(e), NEW m \in Seq(S), NEW es \in Seq(S),
         NEW c, IsConfig(c), GroupsSay(c, m)
  PROVE  /\ GroupsSay(MergeGroups(c, es), m \o es)
         /\ MergeGroups(c, es).number_cases = c.number_cases
         /\ MergeGroups(c, es).run_config = c.run_config
         /\ MergeGroups(c, es).policy = c.policy
<1>1. Len(es) \in Nat /\ Len(es) \in 0 .. Len(es) /\ DOMAIN es = 1 .. Len(es)
  OBVIOUS
<1>2. PICK merged :
        /\ merged = [n \in 0 .. Len(es) |->
                       IF n = 0 THEN c ELSE GroupsUpdate(merged[n - 1], es[n])]
        /\ MergeGroups(c, es) = merged[Len(es)]
  BY <1>1, MergeUnfold, Zenon
<1> DEFINE Read(n) == m \o SubSeq(es, 1, n)
           Right(n) == /\ IsConfig(merged[n]) /\ GroupsSay(merged[n], Read(n))
                       /\ merged[n].number_cases = c.number_cases
                       /\ merged[n].run_config = c.run_config
                       /\ merged[n].policy = c.policy
           Wrong == {n \in 0 .. Len(es) : ~Right(n)}
<1>3. Read(0) = m
  <2>1. SubSeq(es, 1, 0) = <<>>
    BY SubSeqEmpty
  <2> QED  BY <2>1, ConcatEmptySeq
<1>4. ASSUME NEW n \in 1 .. Len(es)
      PROVE  Read(n - 1) \in Seq(S) /\ Read(n) = Append(Read(n - 1), es[n])
  <2> DEFINE init == SubSeq(es, 1, n - 1)
  <2>1. init \in Seq(S) /\ es[n] \in S /\ <<es[n]>> \in Seq(S)
    <3>1. \A i \in 1 .. n - 1 : es[i] \in S
      BY <1>1
    <3> QED  BY <1>1, <3>1, SubSeqProperties
  <2>2. SubSeq(es, 1, n) = init \o <<es[n]>>
    <3>1. 1 \in 1 .. Len(es) /\ n \in 1 .. Len(es)
      BY <1>1
    <3> QED  BY <3>1, SubSeqRecursiveSecond
  <2> HIDE DEF init
  <2>3. m \o init \in Seq(S)
    BY <2>1, ConcatProperties
  <2>4. m \o (init \o <<es[n]>>) = (m \o init) \o <<es[n]>>
    BY <2>1, ConcatAssociative
  <2>5. (m \o init) \o <<es[n]>> = Append(m \o init, es[n])
    BY <2>1, <2>3, AppendIsConcat
  <2> QED  BY <2>2, <2>3, <2>4, <2>5 DEF init
<1> HIDE DEF Read
<1>5. ASSUME Wrong # {} PROVE FALSE
  <2>1. PICK n \in Wrong : \A k \in Wrong : n <= k
    <3>1. Wrong \in SUBSET Nat
      OBVIOUS
    <3> HIDE DEF Wrong
    <3> QED  BY <1>5, <3>1, LeastElement
  <2>2. CASE n = 0
    <3>1. merged[0] = c
      BY <1>1, <1>2
    <3> QED  BY <1>3, <2>1, <2>2, <3>1
  <2>3. CASE n # 0
    <3>1. n - 1 \in 0 .. Len(es) /\ ~(n <= n - 1) /\ n \in 1 .. Len(es)
      BY <1>1, <2>3
    <3>2. Right(n - 1)
      BY <2>1, <3>1
    <3>3. merged[n] = GroupsUpdate(merged[n - 1], es[n])
      BY <1>2, <2>3
    <3>4. es[n] \in S /\ IsEntry(es[n])
      BY <1>1, <3>1
    <3>5. GroupsSay(merged[n], Read(n))
      BY <1>4, <3>1, <3>2, <3>3, <3>4, GroupsSayNext
    <3>6. IsConfig(merged[n])
      BY <3>2, <3>3, <3>4, GroupsUpdateType DEF IsEntry
    <3>7. /\ merged[n].number_cases = merged[n - 1].number_cases
          /\ merged[n].run_config = merged[n - 1].run_config
          /\ merged[n].policy = merged[n - 1].policy
      BY <3>2, <3>3, OthersStay
    <3> QED  BY <2>1, <3>2, <3>5, <3>6, <3>7
  <2> QED  BY <2>2, <2>3
<1>6. Right(Len(es))
  BY <1>1, <1>5
<1>7. Read(Len(es)) = m \o es
  BY SubSeqFull DEF Read
<1> QED  BY <1>2, <1>6, <1>7

-------------------------------------------------------------------------------
(* What a configuration is when the files fs have been merged.             *)
Limits(runs) == [i \in DOMAIN runs |-> Limit(runs[i])]
RunOf(fs) == [script |-> LastSaid(Sections(fs, "run"), "script", NoScript),
              time_ms |-> LastSaid(Limits(Sections(fs, "run")), "ms", 0),
              memory_mb |-> LastSaid(Sections(fs, "run"), "memory", 0)]
RunSaid(fs) == IF \A i \in DOMAIN fs : "run" \notin DOMAIN fs[i] THEN NoRun ELSE RunOf(fs)

ConfigSays(c, fs) ==
  /\ c.number_cases = LastSaid(fs, "num-tests", 0)
  /\ c.policy = PolicyOf(LastSaid(fs, "policy", "GRADE_ALL"))
  /\ c.run_config = RunSaid(fs)
  /\ GroupsSay(c, Mentions(fs))

(* What is said is of the type of what may be said.                        *)
LEMMA LastSaidType ==
  ASSUME NEW S, NEW maps \in Seq(S), NEW key, NEW T, NEW default \in T,
         \A m \in S : key \in DOMAIN m => m[key] \in T
  PROVE  LastSaid(maps, key, default) \in T
<1> DEFINE Has == {i \in DOMAIN maps : key \in DOMAIN maps[i]}
           last == CHOOSE i \in Has : \A j \in Has : j <= i
<1>1. LastSaid(maps, key, default) = IF Has = {} THEN default ELSE maps[last][key]
  BY DEF LastSaid
<1>2. ASSUME Has # {} PROVE last \in Has
  <2>1. Has \in SUBSET (1 .. Len(maps)) /\ Len(maps) \in Nat
    OBVIOUS
  <2> HIDE DEF Has
  <2>2. \E i \in Has : \A j \in Has : j <= i
    BY <1>2, <2>1, GreatestElement
  <2> QED  BY <2>2
<1>3. ASSUME Has # {} PROVE maps[last][key] \in T
  <2> HIDE DEF last
  <2> QED  BY <1>2, <1>3
<1> HIDE DEF Has, last
<1> QED  BY <1>1, <1>3

(* The limits the run sections ask for, and one section more.              *)
LEMMA LimitsAppend ==
  ASSUME NEW S, NEW runs \in Seq(S), NEW run \in S
  PROVE  /\ Limits(runs) \in Seq({Limit(r) : r \in S})
         /\ Limits(Append(runs, run)) = Append(Limits(runs), Limit(run))
<1> DEFINE F == [r \in S |-> Limit(r)]
           T == {Limit(r) : r \in S}
<1>1. F \in [S -> T]
  OBVIOUS
<1>2. /\ \A i \in DOMAIN runs : runs[i] \in S
      /\ \A i \in DOMAIN Append(runs, run) : Append(runs, run)[i] \in S
  <2>1. Append(runs, run) \in Seq(S)
    OBVIOUS
  <2> QED  BY <2>1
<1>3. /\ Limits(runs) = [i \in DOMAIN runs |-> F[runs[i]]]
      /\ Limits(Append(runs, run)) = [i \in DOMAIN Append(runs, run) |-> F[Append(runs, run)[i]]]
      /\ F[run] = Limit(run)
  BY <1>2 DEF Limits
<1> HIDE DEF F, T
<1>4. /\ [i \in DOMAIN runs |-> F[runs[i]]] \in Seq(T)
      /\ [i \in DOMAIN Append(runs, run) |-> F[Append(runs, run)[i]]]
           = Append([i \in DOMAIN runs |-> F[runs[i]]], F[run])
  BY <1>1, AppendMapped
<1>5. Limits(runs) \in Seq(T)
  BY <1>3, <1>4
<1> QED  BY <1>3, <1>4, <1>5 DEF T

(* The run section of a file, an empty map where it has none.              *)
RunIn(f) == IF "run" \in DOMAIN f THEN f.run ELSE <<>>

LEMMA RunOfType ==
  ASSUME NEW S, NEW fs \in Seq(S), NEW f \in S, \A g \in S : IsFile(g)
  PROVE  /\ Sections(fs, "run") \in Seq({RunIn(g) : g \in S})
         /\ Sections(Append(fs, f), "run") = Append(Sections(fs, "run"), RunIn(f))
         /\ RunOf(fs) \in RunConfig
<1> DEFINE T == {RunIn(g) : g \in S}
           L == {Limit(r) : r \in T}
           runs == Sections(fs, "run")
<1>1. runs \in Seq(T) /\ Sections(Append(fs, f), "run") = Append(runs, RunIn(f))
  <2>1. \A g \in S : (IF "run" \in DOMAIN g THEN g["run"] ELSE <<>>) \in T
    BY DEF RunIn
  <2> HIDE DEF T
  <2> QED  BY <2>1, SectionsAppend DEF RunIn
<1>2. ASSUME NEW r \in T
      PROVE  /\ "script" \in DOMAIN r => r["script"] \in STRING
             /\ "memory" \in DOMAIN r => r["memory"] \in Int
             /\ "ms" \in DOMAIN Limit(r) => Limit(r)["ms"] \in Int
  <2>1. DOMAIN <<>> = {}
    OBVIOUS
  <2>2. IsRun(r)
    BY <2>1 DEF RunIn, IsFile, IsRun
  <2> QED  BY <2>1, <2>2 DEF IsRun, Limit
<1>3. Limits(runs) \in Seq(L)
  <2>1. RunIn(f) \in T
    OBVIOUS
  <2> HIDE DEF T, runs
  <2> QED  BY <1>1, <2>1, LimitsAppend
<1>4. \A l \in L : "ms" \in DOMAIN l => l["ms"] \in Int
  BY <1>2
<1> HIDE DEF T, L, runs
<1>5. LastSaid(runs, "script", NoScript) \in STRING \cup {NoScript}
  <2>1. \A r \in T : "script" \in DOMAIN r => r["script"] \in STRING \cup {NoScript}
    BY <1>2
  <2> QED  BY <1>1, <2>1, LastSaidType
<1>6. LastSaid(runs, "memory", 0) \in Int
  <2>1. 0 \in Int /\ \A r \in T : "memory" \in DOMAIN r => r["memory"] \in Int
    BY <1>2
  <2> QED  BY <1>1, <2>1, LastSaidType
<1>7. LastSaid(Limits(runs), "ms", 0) \in Int
  BY <1>3, <1>4, LastSaidType
<1> QED  BY <1>1, <1>5, <1>6, <1>7 DEF RunOf, RunConfig, T, runs

LEMMA RunOfAppend ==
  ASSUME NEW S, NEW fs \in Seq(S), NEW f \in S, \A g \in S : IsFile(g)
  PROVE  RunOf(Append(fs, f)) =
           IF "run" \in DOMAIN f THEN RunUpdate(RunOf(fs), f.run) ELSE RunOf(fs)
<1> DEFINE T == {RunIn(g) : g \in S}
           runs == Sections(fs, "run")
           more == Append(runs, RunIn(f))
           Said(key, default) == IF key \in DOMAIN RunIn(f) THEN RunIn(f)[key]
                                 ELSE LastSaid(runs, key, default)
           ms == IF "ms" \in DOMAIN Limit(RunIn(f)) THEN Limit(RunIn(f))["ms"]
                 ELSE LastSaid(Limits(runs), "ms", 0)
<1>1. runs \in Seq(T) /\ RunIn(f) \in T /\ Sections(Append(fs, f), "run") = more
  BY RunOfType
<1> HIDE DEF T, runs
<1>2. LastSaid(more, "script", NoScript) = Said("script", NoScript)
  BY <1>1, LastSaidAppend
<1>3. LastSaid(more, "memory", 0) = Said("memory", 0)
  BY <1>1, LastSaidAppend
<1>4. LastSaid(Limits(more), "ms", 0) = ms
  <2> DEFINE L == {Limit(r) : r \in T}
  <2>1. /\ Limits(runs) \in Seq(L) /\ Limits(more) = Append(Limits(runs), Limit(RunIn(f)))
        /\ Limit(RunIn(f)) \in L
    BY <1>1, LimitsAppend
  <2> HIDE DEF L, more
  <2> QED  BY <2>1, LastSaidAppend
<1>5. RunOf(Append(fs, f)) =
        [script |-> Said("script", NoScript), time_ms |-> ms, memory_mb |-> Said("memory", 0)]
  BY <1>1, <1>2, <1>3, <1>4 DEF RunOf
<1>6. RunOf(fs) = [script |-> LastSaid(runs, "script", NoScript),
                   time_ms |-> LastSaid(Limits(runs), "ms", 0),
                   memory_mb |-> LastSaid(runs, "memory", 0)]
  BY DEF RunOf, runs
<1>7. DOMAIN <<>> = {}
  OBVIOUS
<1>8. CASE "run" \in DOMAIN f
  <2>1. RunIn(f) = f.run
    BY <1>8 DEF RunIn
  <2>2. ms = IF "time-ms" \in DOMAIN f.run THEN f.run["time-ms"]
             ELSE IF "time" \in DOMAIN f.run THEN f.run.time * 1000
             ELSE LastSaid(Limits(runs), "ms", 0)
    BY <1>7, <2>1 DEF Limit
  <2> HIDE DEF ms
  <2>3. /\ update_if_exists(RunOf(fs).script, f.run, "script") = Said("script", NoScript)
        /\ update_if_exists(RunOf(fs).memory_mb, f.run, "memory") = Said("memory", 0)
        /\ update_if_exists(IF "time" \in DOMAIN f.run THEN f.run.time * 1000 ELSE RunOf(fs).time_ms,
                            f.run, "time-ms") = ms
    BY <1>6, <2>1, <2>2 DEF update_if_exists
  <2> HIDE DEF Said
  <2>4. RunUpdate(RunOf(fs), f.run) =
          [script |-> Said("script", NoScript), time_ms |-> ms, memory_mb |-> Said("memory", 0)]
    BY <2>3 DEF RunUpdate
  <2> QED  BY <1>5, <1>8, <2>4
<1>9. CASE "run" \notin DOMAIN f
  <2>1. RunIn(f) = <<>>
    BY <1>9 DEF RunIn
  <2>2. Limit(<<>>) = <<>>
    BY <1>7 DEF Limit
  <2>3. ms = LastSaid(Limits(runs), "ms", 0)
    BY <1>7, <2>1, <2>2
  <2> HIDE DEF ms
  <2> QED  BY <1>5, <1>6, <1>7, <1>9, <2>1, <2>3
<1> QED  BY <1>8, <1>9

(* The run_config starts with the first section, and each one is added.    *)
LEMMA RunSaidAppend ==
  ASSUME NEW S, NEW fs \in Seq(S), NEW f \in S, \A g \in S : IsFile(g)
  PROVE  RunSaid(Append(fs, f)) =
           IF "run" \in DOMAIN f
             THEN RunUpdate(IF RunSaid(fs) = NoRun THEN NewRun ELSE RunSaid(fs), f.run)
             ELSE RunSaid(fs)
<1> DEFINE Silent(gs) == \A i \in DOMAIN gs : "run" \notin DOMAIN gs[i]
<1>1. RunOf(fs) # NoRun
  BY RunOfType, NoRunAssumption
<1>2. ASSUME Silent(fs) PROVE RunOf(fs) = NewRun
  <2>1. \A i \in DOMAIN Sections(fs, "run") : Sections(fs, "run")[i] = <<>>
    BY <1>2 DEF Sections
  <2> DEFINE runs == Sections(fs, "run")
  <2> HIDE DEF runs
  <2>2. DOMAIN <<>> = {}
    OBVIOUS
  <2>3. Limit(<<>>) = <<>>
    BY <2>2 DEF Limit
  <2>4. \A i \in DOMAIN Limits(runs) : Limits(runs)[i] = <<>>
    BY <2>1, <2>3 DEF Limits, runs
  <2>5. /\ \A key : \A i \in DOMAIN runs : key \notin DOMAIN runs[i]
        /\ \A key : \A i \in DOMAIN Limits(runs) : key \notin DOMAIN Limits(runs)[i]
    BY <2>1, <2>2, <2>4 DEF runs
  <2>6. /\ LastSaid(runs, "script", NoScript) = NoScript /\ LastSaid(runs, "memory", 0) = 0
        /\ LastSaid(Limits(runs), "ms", 0) = 0
    BY <2>5, LastSaidNothing
  <2> QED  BY <2>6 DEF RunOf, NewRun, runs
<1>3. Silent(Append(fs, f)) <=> Silent(fs) /\ "run" \notin DOMAIN f
  <2>1. /\ Len(fs) \in Nat /\ DOMAIN fs = 1 .. Len(fs) /\ DOMAIN Append(fs, f) = 1 .. Len(fs) + 1
        /\ Append(fs, f)[Len(fs) + 1] = f /\ \A i \in 1 .. Len(fs) : Append(fs, f)[i] = fs[i]
    BY AppendProperties
  <2>2. 1 .. Len(fs) + 1 = (1 .. Len(fs)) \cup {Len(fs) + 1}
    BY <2>1
  <2> QED  BY <2>1, <2>2
<1>4. (IF RunSaid(fs) = NoRun THEN NewRun ELSE RunSaid(fs)) = RunOf(fs)
  BY <1>1, <1>2 DEF RunSaid
<1>5. RunSaid(Append(fs, f)) = IF Silent(Append(fs, f)) THEN NoRun ELSE RunOf(Append(fs, f))
  BY DEF RunSaid
<1>6. RunSaid(fs) = IF Silent(fs) THEN NoRun ELSE RunOf(fs)
  BY DEF RunSaid
<1> HIDE DEF Silent
<1> QED  BY <1>3, <1>4, <1>5, <1>6, RunOfAppend

(* The entries of one file more come after those of the files before it.   *)
EntriesIn(f) == IF "groups" \in DOMAIN f THEN f.groups ELSE <<>>
EntriesOf(S) == UNION {Range(EntriesIn(f)) : f \in S}

LEMMA MentionsAppend ==
  ASSUME NEW S, NEW fs \in Seq(S), NEW f \in S, \A g \in S : IsFile(g)
  PROVE  /\ EntriesIn(f) \in Seq(EntriesOf(S)) /\ Mentions(fs) \in Seq(EntriesOf(S))
         /\ Mentions(Append(fs, f)) = Mentions(fs) \o EntriesIn(f)
         /\ \A e \in EntriesOf(S) : IsEntry(e)
<1> DEFINE E == EntriesOf(S)
<1>1. ASSUME NEW g \in S
      PROVE  EntriesIn(g) \in Seq(E) /\ \A e \in Range(EntriesIn(g)) : IsEntry(e)
  <2>1. Range(EntriesIn(g)) \subseteq E
    BY DEF EntriesOf
  <2>2. EntriesIn(g) \in Seq(Range(EntriesIn(g)))
    <3>1. <<>> \in Seq(Range(<<>>))
      OBVIOUS
    <3> QED  BY <3>1 DEF EntriesIn, IsFile
  <2>3. \A e \in Range(EntriesIn(g)) : IsEntry(e)
    <3>1. CASE "groups" \in DOMAIN g
      BY <3>1 DEF EntriesIn, IsFile, IsEntry
    <3>2. CASE "groups" \notin DOMAIN g
      <4>1. Range(<<>>) = {}
        BY DEF Range
      <4> QED  BY <3>2, <4>1 DEF EntriesIn
    <3> QED  BY <3>1, <3>2
  <2> HIDE DEF E
  <2> QED  BY <2>1, <2>2, <2>3, SeqMonotonic
<1>2. \A e \in E : IsEntry(e)
  BY <1>1 DEF EntriesOf
<1> HIDE DEF E
<1>3. /\ Sections(fs, "groups") \in Seq(Seq(E))
      /\ Sections(Append(fs, f), "groups") = Append(Sections(fs, "groups"), EntriesIn(f))
  <2> DEFINE T == Seq(E)
  <2>1. \A g \in S : (IF "groups" \in DOMAIN g THEN g["groups"] ELSE <<>>) \in T
    BY <1>1 DEF EntriesIn
  <2> HIDE DEF T
  <2>2. /\ Sections(fs, "groups") \in Seq(T)
        /\ Sections(Append(fs, f), "groups") =
             Append(Sections(fs, "groups"), IF "groups" \in DOMAIN f THEN f["groups"] ELSE <<>>)
    BY <2>1, SectionsAppend
  <2> QED  BY <2>2 DEF EntriesIn, T
<1>4. Mentions(fs) \in Seq(E)
  BY <1>3, FlattenRight DEF Mentions
<1>5. Mentions(Append(fs, f)) = Mentions(fs) \o EntriesIn(f)
  BY <1>1, <1>3, FlattenAppend DEF Mentions
<1> QED  BY <1>1, <1>2, <1>4, <1>5 DEF E

LEMMA UpdateSays ==
  ASSUME NEW S, \A g \in S : IsFile(g), NEW fs \in Seq(S), NEW f \in S,
         NEW c, IsConfig(c), ConfigSays(c, fs)
  PROVE  ConfigSays(Update(c, f), Append(fs, f))
<1> DEFINE run == IF c.run_config = NoRun THEN NewRun ELSE c.run_config
           number == update_if_exists(c.number_cases, f, "num-tests")
           ran == IF "run" \in DOMAIN f THEN RunUpdate(run, f.run) ELSE c.run_config
           bits == IF "policy" \notin DOMAIN f THEN c.policy
                   ELSE update_if_exists({}, GRADE_POLICY_MAPPING, f.policy)
           m == Settings(c, number, ran, bits)
           more == Append(fs, f)
<1>1. Update(c, f) = IF "groups" \in DOMAIN f THEN MergeGroups(m, f.groups) ELSE m
  BY DEF Update, Settings
<1>2. number = LastSaid(more, "num-tests", 0)
  BY LastSaidAppend DEF ConfigSays, update_if_exists
<1>3. bits = PolicyOf(LastSaid(more, "policy", "GRADE_ALL"))
  <2>1. LastSaid(more, "policy", "GRADE_ALL") =
          IF "policy" \in DOMAIN f THEN f.policy ELSE LastSaid(fs, "policy", "GRADE_ALL")
    BY LastSaidAppend
  <2> QED  BY <2>1 DEF ConfigSays, PolicyOf, update_if_exists
<1>4. ran = RunSaid(more)
  BY RunSaidAppend DEF ConfigSays
<1>5. /\ EntriesIn(f) \in Seq(EntriesOf(S)) /\ Mentions(fs) \in Seq(EntriesOf(S))
      /\ Mentions(more) = Mentions(fs) \o EntriesIn(f)
      /\ \A e \in EntriesOf(S) : IsEntry(e)
  BY MentionsAppend
<1>6. number \in Nat /\ bits \in GRADE_POLICY
  BY DEF IsConfig, IsFile, update_if_exists, GRADE_POLICY, GRADE_POLICY_MAPPING
<1> HIDE DEF number, ran, bits, more
<1>7. /\ IsConfig(m) /\ m.number_cases = number /\ m.run_config = ran /\ m.policy = bits
      /\ m.groups = c.groups /\ m.group_order = c.group_order
  BY <1>6, SettingsRight
<1> HIDE DEF m
<1>8. GroupsSay(m, Mentions(fs))
  BY <1>7 DEF ConfigSays, GroupsSay
<1>9. CASE "groups" \in DOMAIN f
  <2>1. EntriesIn(f) = f.groups
    BY <1>9 DEF EntriesIn
  <2>2. /\ GroupsSay(MergeGroups(m, f.groups), Mentions(more))
        /\ MergeGroups(m, f.groups).number_cases = number
        /\ MergeGroups(m, f.groups).run_config = ran
        /\ MergeGroups(m, f.groups).policy = bits
    BY <1>5, <1>7, <1>8, <2>1, MergeGroupsSay
  <2> QED  BY <1>1, <1>2, <1>3, <1>4, <1>9, <2>2 DEF ConfigSays, more
<1>10. CASE "groups" \notin DOMAIN f
  <2>1. EntriesIn(f) = <<>>
    BY <1>10 DEF EntriesIn
  <2>2. Mentions(more) = Mentions(fs)
    BY <1>5, <2>1, ConcatEmptySeq
  <2> QED  BY <1>1, <1>2, <1>3, <1>4, <1>7, <1>8, <1>10, <2>2 DEF ConfigSays, more
<1> QED  BY <1>9, <1>10

(* Of no file, the new configuration.                                      *)
LEMMA NothingSaid == ConfigSays(NewConfig, <<>>)
<1>1. DOMAIN <<>> = {}
  OBVIOUS
<1>2. \A key, default : LastSaid(<<>>, key, default) = default
  BY <1>1, LastSaidNothing
<1>3. PolicyOf("GRADE_ALL") = {}
  BY DEF PolicyOf, GRADE_POLICY_MAPPING
<1>4. RunSaid(<<>>) = NoRun
  BY <1>1 DEF RunSaid
<1>5. GroupsSay(NewConfig, Mentions(<<>>))
  <2>1. Sections(<<>>, "groups") = <<>>
    BY <1>1 DEF Sections
  <2>2. Len(<<>>) = 0
    OBVIOUS
  <2>3. Mentions(<<>>) = <<>>
    BY <2>1, <2>2 DEF Mentions, FlattenSeq
  <2> QED  BY <1>1, <2>3 DEF GroupsSay, NamedIn, NewConfig
<1> QED  BY <1>2, <1>3, <1>4, <1>5 DEF ConfigSays, NewConfig

(* The configuration says what the files read so far say.                  *)
SaysInv == ConfigSays(config, SubSeq(files, 1, read))

LEMMA InitSaysInv == Init => SaysInv
<1> SUFFICES ASSUME Init PROVE SaysInv
  OBVIOUS
<1>1. SubSeq(files, 1, 0) = <<>>
  BY SubSeqEmpty
<1> QED  BY <1>1, NothingSaid DEF Init, SaysInv

LEMMA UpdateSaysInv == MergeInv /\ SaysInv /\ UpdateFile => SaysInv'
<1> SUFFICES ASSUME MergeInv, SaysInv, UpdateFile PROVE SaysInv'
  OBVIOUS
<1> DEFINE S == Range(files)
           fs == SubSeq(files, 1, read)
           f == files[read + 1]
<1>1. /\ files' = files /\ read' = read + 1 /\ config' = Update(config, f)
      /\ read + 1 \in 1 .. Len(files) /\ read \in Nat
      /\ Len(files) \in Nat /\ DOMAIN files = 1 .. Len(files)
  BY FilesType DEF UpdateFile, MergeInv
<1>2. files \in Seq(S) /\ \A yaml \in S : IsFile(yaml)
  BY ArgumentsAssumption DEF MergeInv
<1>3. f \in S
  BY <1>1 DEF Range
<1>4. fs \in Seq(S)
  <2>1. \A i \in 1 .. read : files[i] \in S
    BY <1>1, <1>2
  <2> HIDE DEF S
  <2> QED  BY <1>1, <1>2, <2>1, SubSeqProperties
<1>5. SubSeq(files, 1, read + 1) = Append(fs, f)
  <2>1. 1 \in 1 .. Len(files) /\ read + 1 \in 1 .. Len(files) /\ (read + 1) - 1 = read
    BY <1>1
  <2> HIDE DEF S
  <2>2. SubSeq(files, 1, read + 1) = fs \o <<f>>
    BY <1>2, <2>1, SubSeqRecursiveSecond
  <2> HIDE DEF fs
  <2> QED  BY <1>3, <1>4, <2>2, AppendIsConcat
<1>6. IsConfig(config) /\ ConfigSays(config, fs)
  BY DEF MergeInv, SaysInv
<1> HIDE DEF S, fs, f
<1>7. ConfigSays(Update(config, f), Append(fs, f))
  BY <1>2, <1>3, <1>4, <1>6, UpdateSays
<1> QED  BY <1>1, <1>5, <1>7 DEF SaysInv

LEMMA AlwaysSaysInv == Spec => [](MergeInv /\ SaysInv)
<1>1. MergeInv /\ SaysInv /\ [Next]_vars => SaysInv'
  <2> SUFFICES ASSUME MergeInv, SaysInv, [Next]_vars PROVE SaysInv'
    OBVIOUS
  <2>1. CASE UpdateFile
    BY <2>1, UpdateSaysInv
  <2>2. CASE ~UpdateFile
    BY <2>2, ConfigStays DEF SaysInv
  <2> QED  BY <2>1, <2>2
<1> QED  BY <1>1, InitSaysInv, AlwaysMergeInv, PTL DEF Spec

(* The last file that has a key decides what it means, and the groups are  *)
(* in the order of their first mention, for every sequence of files        *)
(* (submission_config.cpp:50-83, group.cpp:54-59, run.cpp:44-56).          *)
THEOREM LastFileIsRight == Spec => []LastFileDecides
<1>1. MergeInv /\ SaysInv => LastFileDecides
  <2> SUFFICES ASSUME MergeInv, SaysInv, phase # "update" PROVE LastFileDecides
    BY DEF LastFileDecides
  <2>1. SubSeq(files, 1, Len(files)) = files
    <3>1. files \in Seq(Range(files))
      BY ArgumentsAssumption DEF MergeInv
    <3> QED  BY <3>1, SubSeqFull
  <2>2. ConfigSays(config, files)
    BY <2>1 DEF MergeInv, SaysInv
  <2>3. \A g \in Group : deps[g] = config.groups[g].deps /\ tests[g] = config.groups[g].tests
    BY DEF deps, tests
  <2>4. GroupsSay(config, Mentions(files))
    BY <2>2 DEF ConfigSays
  <2> QED  BY <2>2, <2>3, <2>4 DEF LastFileDecides, ConfigSays, GroupsSay, SaidLast,
              RunSaid, RunOf, Limits, policy, Group
<1> QED  BY <1>1, AlwaysSaysInv, PTL

-------------------------------------------------------------------------------
(* The search.  D is the dependencies, s the stack and o the order.        *)

Frame == [group : Nat, next : Nat \ {0}, result : BOOLEAN]

GroupsOn(s) == {s[i].group : i \in 1 .. Len(s)}

Pushed(s, g) == Append(s, [group |-> g, next |-> 1, result |-> TRUE])
Popped(s) == SubSeq(s, 1, Len(s) - 1)

(* The stack is a path: each frame is at the dependency the next one is.   *)
Chain(D, s) ==
  \A i \in 1 .. Len(s) :
    /\ s[i].group \in DOMAIN D /\ s[i].next <= Len(D[s[i].group]) + 1
    /\ i < Len(s) => /\ s[i].result /\ s[i].next <= Len(D[s[i].group])
                     /\ D[s[i].group][s[i].next] = s[i + 1].group
    /\ \A j \in 1 .. Len(s) : s[i].group = s[j].group => i = j

(* g is the dependency the frame on top looks at, if there is a frame.     *)
Leads(D, s, g) ==
  s # <<>> => /\ s[Len(s)].result /\ s[Len(s)].next <= Len(D[s[Len(s)].group])
              /\ D[s[Len(s)].group][s[Len(s)].next] = g

(* What a frame has been told TRUE of is in the order.                     *)
Settled(D, s, o) ==
  \A i \in 1 .. Len(s) :
    s[i].result => \A k \in 1 .. s[i].next - 1 : D[s[i].group][k] \in Range(o)

Closed(D, o) ==
  \A i \in 1 .. Len(o) : \A k \in 1 .. Len(D[o[i]]) :
    \E j \in 1 .. Len(o) : j < i /\ o[j] = D[o[i]][k]

AllTrue(s) == \A i \in 1 .. Len(s) : s[i].result

Valid(D) ==
  /\ \A g \in DOMAIN D : Range(D[g]) \subseteq DOMAIN D
  /\ \A S \in (SUBSET DOMAIN D) \ {{}} : \E g \in S : Range(D[g]) \cap S = {}

SearchType ==
  /\ phase \in {"update", "topo", "grading", "group", "done", "exited"}
  /\ root \in Nat \ {0} /\ valid \in BOOLEAN
  /\ stack \in Seq(Frame) /\ order \in Seq(Nat)

SearchedIn(D, r, v, s, seen, o) ==
  /\ Chain(D, s) /\ Settled(D, s, o)
  /\ seen = GroupsOn(s) \cup Range(o)
  /\ GroupsOn(s) \cap Range(o) = {} /\ Range(o) \subseteq DOMAIN D
  /\ \A i, j \in 1 .. Len(o) : o[i] = o[j] => i = j
  /\ v => 1 .. r - 1 \subseteq seen
  /\ ~(v /\ AllTrue(s)) => ~Valid(D)
  /\ v /\ AllTrue(s) => Closed(D, o)
  /\ s # <<>> => v

SearchInv ==
  /\ SearchType
  /\ phase = "update" =>
       root = 1 /\ valid /\ stack = <<>> /\ visited = {} /\ order = <<>>
  /\ phase # "update" /\ Group = {} => order = <<NoGroup>> /\ phase \notin {"topo", "exited"}
  /\ phase # "update" /\ Group # {} =>
       SearchedIn(deps, root, valid, stack, visited, order)
  /\ phase \in {"grading", "group", "done"} /\ Group # {} =>
       stack = <<>> /\ valid /\ Group \subseteq visited
  /\ phase = "exited" => ~valid /\ Group # {}

(* Sequences of frames: the caller's answer, a call, a return.             *)
TopIsTold(s, r, a) ==
  /\ a \in Seq(Frame) /\ Len(a) = Len(s) /\ Len(s) \in Nat \ {0}
  /\ \A i \in 1 .. Len(s) :
       /\ a[i].group = s[i].group
       /\ i < Len(s) => a[i] = s[i]
       /\ i = Len(s) => a[i].next = s[i].next + 1 /\ a[i].result = r

IsPushed(D, s, g, t) ==
  /\ Chain(D, t) /\ GroupsOn(t) = GroupsOn(s) \cup {g} /\ t \in Seq(Frame)
  /\ Len(t) = Len(s) + 1 /\ t[Len(s) + 1].next = 1 /\ t[Len(s) + 1].result
  /\ \A i \in 1 .. Len(s) : t[i] = s[i]

LEMMA AnsweredTop ==
  ASSUME NEW s \in Seq(Frame), s # <<>>, NEW r \in BOOLEAN
  PROVE  TopIsTold(s, r, Answered(s, r))
<1>1. PICK n \in Nat \ {0} : n = Len(s)
  OBVIOUS
<1>2. s \in [1 .. n -> Frame] /\ n \in 1 .. n
  BY <1>1
<1>3. PICK a \in Nat, b \in Nat \ {0}, c \in BOOLEAN : s[n] = [group |-> a, next |-> b, result |-> c]
  BY <1>2 DEF Frame
<1> DEFINE top == [group |-> a, next |-> b + 1, result |-> r]
<1>4. Answered(s, r) = [s EXCEPT ![n] = top]
  <2>1. Answered(s, r) = [s EXCEPT ![n].next = @ + 1, ![n].result = r]
    BY <1>1 DEF Answered
  <2> DEFINE mid == [group |-> a, next |-> b + 1, result |-> c]
             s1 == [s EXCEPT ![n] = mid]
  <2>2. [s[n] EXCEPT !.next = @ + 1] = mid
    BY <1>3
  <2>3. [s EXCEPT ![n].next = @ + 1] = s1
    BY <2>2
  <2>4. Answered(s, r) = [s1 EXCEPT ![n].result = r]
    BY <2>1, <2>3
  <2>5. s1[n] = mid /\ [mid EXCEPT !.result = r] = top
    BY <1>2
  <2> HIDE DEF mid, top
  <2>6. [s1 EXCEPT ![n].result = r] = [s1 EXCEPT ![n] = top]
    BY <2>5
  <2>7. [s1 EXCEPT ![n] = top] = [s EXCEPT ![n] = top]
    BY <1>2
  <2> QED  BY <2>4, <2>6, <2>7
<1>5. Answered(s, r) \in Seq(Frame) /\ Len(Answered(s, r)) = n
  <2>1. top \in Frame
    BY DEF Frame
  <2> QED  BY <1>1, <1>4, <2>1, ExceptSeq
<1>6. ASSUME NEW i \in 1 .. n
      PROVE  Answered(s, r)[i] = IF i = n THEN top ELSE s[i]
  BY <1>2, <1>4
<1>7. ASSUME NEW i \in 1 .. n
      PROVE  /\ Answered(s, r)[i].group = s[i].group
             /\ i < n => Answered(s, r)[i] = s[i]
             /\ i = n => /\ Answered(s, r)[i].next = s[i].next + 1
                         /\ Answered(s, r)[i].result = r
  BY <1>3, <1>6
<1> QED  BY <1>1, <1>5, <1>7 DEF TopIsTold

LEMMA ChainAnswered ==
  ASSUME NEW G, NEW D \in [G -> Seq(Nat)], NEW s \in Seq(Frame), s # <<>>, NEW r \in BOOLEAN,
         Chain(D, s), s[Len(s)].next <= Len(D[s[Len(s)].group])
  PROVE  Chain(D, Answered(s, r)) /\ GroupsOn(Answered(s, r)) = GroupsOn(s)
<1> DEFINE a == Answered(s, r)
<1>1. PICK n \in Nat \ {0} : n = Len(s)
  OBVIOUS
<1>2. /\ Len(a) = n
      /\ \A i \in 1 .. n : /\ a[i].group = s[i].group
                           /\ i < n => a[i] = s[i]
                           /\ i = n => a[i].next = s[i].next + 1
  BY <1>1, AnsweredTop DEF TopIsTold
<1> HIDE DEF a
<1>3. GroupsOn(a) = GroupsOn(s)
  BY <1>1, <1>2 DEF GroupsOn
<1>4. ASSUME NEW i \in 1 .. n
      PROVE  /\ a[i].group \in DOMAIN D /\ a[i].next <= Len(D[a[i].group]) + 1
             /\ i < n => /\ a[i].result /\ a[i].next <= Len(D[a[i].group])
                         /\ D[a[i].group][a[i].next] = a[i + 1].group
             /\ \A j \in 1 .. n : a[i].group = a[j].group => i = j
  <2>1. /\ s[i].group \in DOMAIN D /\ s[i].next <= Len(D[s[i].group]) + 1
        /\ i < n => /\ s[i].result /\ s[i].next <= Len(D[s[i].group])
                    /\ D[s[i].group][s[i].next] = s[i + 1].group
        /\ \A j \in 1 .. n : s[i].group = s[j].group => i = j
    BY <1>1 DEF Chain
  <2>2. CASE i = n
    <3>1. s[n].next <= Len(D[s[n].group]) /\ s[n].next \in Nat /\ Len(D[s[n].group]) \in Nat
      <4>1. s[n] \in Frame /\ D[s[n].group] \in Seq(Nat)
        BY <1>1, <2>1, <2>2
      <4>2. s[n].next \in Nat /\ Len(D[s[n].group]) \in Nat
        BY <4>1 DEF Frame
      <4> QED  BY <1>1, <4>2
    <3>2. a[i].next <= Len(D[a[i].group]) + 1
      BY <1>2, <2>2, <3>1
    <3> QED  BY <1>2, <2>1, <2>2, <3>2
  <2>3. CASE i # n
    <3>1. i < n /\ i + 1 \in 1 .. n /\ a[i] = s[i] /\ a[i + 1].group = s[i + 1].group
      BY <1>2, <2>3
    <3> QED  BY <1>2, <2>1, <3>1
  <2> QED  BY <2>2, <2>3
<1>5. Chain(D, a)
  BY <1>2, <1>4 DEF Chain
<1> QED  BY <1>3, <1>5 DEF a

LEMMA ChainPushed ==
  ASSUME NEW G, NEW D \in [G -> Seq(Nat)], NEW s \in Seq(Frame), NEW g \in G, g \in Nat,
         Chain(D, s), g \notin GroupsOn(s), Leads(D, s, g)
  PROVE  IsPushed(D, s, g, Pushed(s, g))
<1> DEFINE f == [group |-> g, next |-> 1, result |-> TRUE]
           t == Pushed(s, g)
<1>1. PICK n \in Nat : n = Len(s)
  OBVIOUS
<1>2. f \in Frame /\ f.group = g /\ f.next = 1 /\ f.result
  BY DEF Frame
<1> HIDE DEF f
<1>3. /\ t \in Seq(Frame) /\ Len(t) = n + 1 /\ t[n + 1] = f
      /\ \A i \in 1 .. n : t[i] = s[i]
  <2>1. t = Append(s, f)
    BY DEF f, Pushed
  <2> HIDE DEF t
  <2> QED  BY <1>1, <1>2, <2>1
<1> HIDE DEF t
<1>4. 1 .. n + 1 = (1 .. n) \cup {n + 1}
  OBVIOUS
<1>5. GroupsOn(t) = GroupsOn(s) \cup {g}
  <2>1. GroupsOn(t) = {t[i].group : i \in 1 .. n} \cup {t[n + 1].group}
    BY <1>3, <1>4 DEF GroupsOn
  <2>2. {t[i].group : i \in 1 .. n} = {s[i].group : i \in 1 .. n}
    BY <1>3
  <2> QED  BY <1>1, <1>2, <1>3, <2>1, <2>2 DEF GroupsOn
<1>6. \A i \in 1 .. n : s[i].group # g
  BY <1>1 DEF GroupsOn
<1>7. ASSUME NEW i \in 1 .. n + 1
      PROVE  /\ t[i].group \in DOMAIN D /\ t[i].next <= Len(D[t[i].group]) + 1
             /\ i < n + 1 => /\ t[i].result /\ t[i].next <= Len(D[t[i].group])
                             /\ D[t[i].group][t[i].next] = t[i + 1].group
             /\ \A j \in 1 .. n + 1 : t[i].group = t[j].group => i = j
  <2>1. CASE i = n + 1
    <3>1. t[i].group = g /\ t[i].next = 1 /\ Len(D[g]) \in Nat
      BY <1>2, <1>3, <2>1
    <3>2. \A j \in 1 .. n + 1 : t[i].group = t[j].group => i = j
      BY <1>3, <1>4, <1>6, <2>1, <3>1
    <3> QED  BY <2>1, <3>1, <3>2
  <2>2. CASE i \in 1 .. n
    <3>1. /\ s[i].group \in DOMAIN D /\ s[i].next <= Len(D[s[i].group]) + 1
          /\ i < n => /\ s[i].result /\ s[i].next <= Len(D[s[i].group])
                      /\ D[s[i].group][s[i].next] = s[i + 1].group
          /\ \A j \in 1 .. n : s[i].group = s[j].group => i = j
      BY <1>1, <2>2 DEF Chain
    <3>2. t[i] = s[i]
      BY <1>3, <2>2
    <3>3. \A j \in 1 .. n + 1 : t[i].group = t[j].group => i = j
      BY <1>2, <1>3, <1>4, <1>6, <2>2, <3>1, <3>2
    <3>4. CASE i = n
      <4>1. s # <<>>
        BY <1>1, <2>2
      <4>2. s[n].result /\ s[n].next <= Len(D[s[n].group]) /\ D[s[n].group][s[n].next] = g
        BY <1>1, <4>1 DEF Leads
      <4> QED  BY <1>2, <1>3, <3>1, <3>2, <3>3, <3>4, <4>2
    <3>5. CASE i # n
      <4>1. i < n /\ i + 1 \in 1 .. n
        BY <2>2, <3>5
      <4> QED  BY <1>3, <3>1, <3>2, <3>3, <4>1
    <3> QED  BY <3>4, <3>5
  <2> QED  BY <1>4, <2>1, <2>2
<1>8. Chain(D, t)
  BY <1>3, <1>7 DEF Chain
<1>9. /\ Chain(D, t) /\ GroupsOn(t) = GroupsOn(s) \cup {g} /\ t \in Seq(Frame)
      /\ Len(t) = Len(s) + 1 /\ t[Len(s) + 1].next = 1 /\ t[Len(s) + 1].result
      /\ \A i \in 1 .. Len(s) : t[i] = s[i]
  BY <1>1, <1>2, <1>3, <1>5, <1>8
<1> QED  BY <1>9 DEF t, IsPushed

LEMMA ChainPopped ==
  ASSUME NEW G, NEW D \in [G -> Seq(Nat)], NEW s \in Seq(Frame), s # <<>>, Chain(D, s)
  PROVE  /\ Popped(s) \in Seq(Frame) /\ Len(Popped(s)) = Len(s) - 1
         /\ \A i \in 1 .. Len(s) - 1 : Popped(s)[i] = s[i]
         /\ Chain(D, Popped(s))
         /\ GroupsOn(s) = GroupsOn(Popped(s)) \cup {s[Len(s)].group}
         /\ s[Len(s)].group \notin GroupsOn(Popped(s))
         /\ Len(s) - 1 \in Nat /\ Leads(D, Popped(s), s[Len(s)].group)
<1> DEFINE t == Popped(s)
           g == s[Len(s)].group
<1>1. PICK n \in Nat : Len(s) = n + 1
  <2>1. Len(s) \in Nat \ {0}
    OBVIOUS
  <2> QED  BY <2>1
<1>2. t \in Seq(Frame) /\ Len(t) = n /\ \A i \in 1 .. n : t[i] = s[i]
  <2>1. 1 \in 1 .. Len(s) + 1 /\ n \in 0 .. Len(s) /\ t = SubSeq(s, 1, n)
    BY <1>1 DEF Popped
  <2>2. /\ t \in Seq(Frame)
        /\ Len(t) = IF 1 <= n THEN n - 1 + 1 ELSE 0
        /\ \A i \in 1 .. n - 1 + 1 : t[i] = s[1 + i - 1]
    BY <2>1, SubSeqProperties
  <2> HIDE DEF t
  <2>3. n - 1 + 1 = n /\ \A i \in 1 .. n : 1 + i - 1 = i
    OBVIOUS
  <2> QED  BY <2>2, <2>3
<1> HIDE DEF t
<1>3. 1 .. n + 1 = (1 .. n) \cup {n + 1} /\ n + 1 \notin 1 .. n
  OBVIOUS
<1>4. \A i \in 1 .. n + 1 :
        /\ s[i].group \in DOMAIN D /\ s[i].next <= Len(D[s[i].group]) + 1
        /\ i < n + 1 => /\ s[i].result /\ s[i].next <= Len(D[s[i].group])
                        /\ D[s[i].group][s[i].next] = s[i + 1].group
        /\ \A j \in 1 .. n + 1 : s[i].group = s[j].group => i = j
  BY <1>1 DEF Chain
<1>5. Chain(D, t)
  <2>1. ASSUME NEW i \in 1 .. n
        PROVE  /\ t[i].group \in DOMAIN D /\ t[i].next <= Len(D[t[i].group]) + 1
               /\ i < n => /\ t[i].result /\ t[i].next <= Len(D[t[i].group])
                           /\ D[t[i].group][t[i].next] = t[i + 1].group
               /\ \A j \in 1 .. n : t[i].group = t[j].group => i = j
    <3>1. t[i] = s[i] /\ i \in 1 .. n + 1 /\ i < n + 1
      BY <1>2, <1>3
    <3>2. i < n => i + 1 \in 1 .. n /\ t[i + 1] = s[i + 1]
      BY <1>2
    <3>3. \A j \in 1 .. n : j \in 1 .. n + 1 /\ t[j] = s[j]
      BY <1>2, <1>3
    <3>4. t[i].group \in DOMAIN D /\ t[i].next <= Len(D[t[i].group]) + 1
      BY <1>4, <3>1
    <3>5. i < n => /\ t[i].result /\ t[i].next <= Len(D[t[i].group])
                   /\ D[t[i].group][t[i].next] = t[i + 1].group
      BY <1>4, <3>1, <3>2
    <3>6. \A j \in 1 .. n : t[i].group = t[j].group => i = j
      BY <1>4, <3>1, <3>3
    <3> QED  BY <3>4, <3>5, <3>6
  <2> QED  BY <1>2, <2>1 DEF Chain
<1>6. GroupsOn(s) = GroupsOn(t) \cup {g}
  BY <1>1, <1>2, <1>3 DEF GroupsOn
<1>7. g \notin GroupsOn(t)
  <2>1. ASSUME NEW i \in 1 .. n PROVE t[i].group # g
    <3>1. t[i] = s[i] /\ i \in 1 .. n + 1 /\ n + 1 \in 1 .. n + 1 /\ i # n + 1
      BY <1>2, <1>3
    <3>2. s[i].group = s[n + 1].group => i = n + 1
      BY <1>4, <3>1
    <3> QED  BY <1>1, <3>1, <3>2
  <2> QED  BY <1>2, <2>1 DEF GroupsOn
<1>8. Leads(D, t, g)
  <2>1. ASSUME t # <<>> PROVE n \in 1 .. n /\ n \in 1 .. n + 1 /\ n < n + 1
    BY <1>2, <2>1
  <2>2. t # <<>> => /\ t[n].result /\ t[n].next <= Len(D[t[n].group])
                    /\ D[t[n].group][t[n].next] = g
    BY <1>1, <1>2, <1>4, <2>1
  <2> QED  BY <1>2, <2>2 DEF Leads
<1>9. Len(s) - 1 = n
  BY <1>1
<1> HIDE DEF g
<1>10. /\ t \in Seq(Frame) /\ Len(t) = Len(s) - 1 /\ \A i \in 1 .. Len(s) - 1 : t[i] = s[i]
       /\ Chain(D, t) /\ GroupsOn(s) = GroupsOn(t) \cup {g} /\ g \notin GroupsOn(t)
       /\ Len(s) - 1 \in Nat /\ Leads(D, t, g)
  BY <1>2, <1>5, <1>6, <1>7, <1>8, <1>9
<1> QED  BY <1>10 DEF t, g

LEMMA ChainAllTrue ==
  ASSUME NEW D, NEW s \in Seq(Frame), Chain(D, s)
  PROVE  AllTrue(s) <=> (s = <<>> \/ s[Len(s)].result)
<1>1. PICK n \in Nat : n = Len(s)
  OBVIOUS
<1>2. \A i \in 1 .. n : i < n => s[i].result
  BY <1>1 DEF Chain
<1>3. s # <<>> => n \in 1 .. n
  BY <1>1
<1>4. s = <<>> => n = 0
  BY <1>1
<1> QED  BY <1>1, <1>2, <1>3, <1>4 DEF AllTrue

(* The three answers a call may get, a group that has been gone through,   *)
(* and the roots: each keeps what is known of the search.                  *)
LEMMA SearchReject ==
  ASSUME NEW G, NEW D \in [G -> Seq(Nat)], NEW s \in Seq(Frame), s # <<>>,
         NEW r, NEW v, NEW seen, NEW o, SearchedIn(D, r, v, s, seen, o),
         s[Len(s)].next <= Len(D[s[Len(s)].group]), ~Valid(D)
  PROVE  SearchedIn(D, r, v, Answered(s, FALSE), seen, o)
<1> DEFINE a == Answered(s, FALSE)
<1>1. PICK n \in Nat \ {0} : n = Len(s)
  OBVIOUS
<1>2. /\ Len(a) = n /\ a # <<>>
      /\ \A i \in 1 .. n : (i < n => a[i] = s[i]) /\ (i = n => a[i].result = FALSE)
  BY <1>1, AnsweredTop DEF TopIsTold
<1>3. Chain(D, a) /\ GroupsOn(a) = GroupsOn(s)
  BY ChainAnswered DEF SearchedIn
<1> HIDE DEF a
<1>4. Settled(D, a, o)
  <2>1. ASSUME NEW i \in 1 .. n, a[i].result PROVE i < n /\ a[i] = s[i] /\ i \in 1 .. Len(s)
    BY <1>1, <1>2, <2>1
  <2>2. Settled(D, s, o)
    BY DEF SearchedIn
  <2> QED  BY <1>2, <2>1, <2>2 DEF Settled
<1>5. ~AllTrue(a)
  <2>1. n \in 1 .. Len(a) /\ a[n].result = FALSE
    BY <1>2
  <2> QED  BY <2>1 DEF AllTrue
<1>6. v
  BY DEF SearchedIn
<1>7. SearchedIn(D, r, v, a, seen, o)
  BY <1>3, <1>4, <1>5, <1>6 DEF SearchedIn
<1> QED  BY <1>7 DEF a

LEMMA SearchKnown ==
  ASSUME NEW G, NEW D \in [G -> Seq(Nat)], NEW s \in Seq(Frame), s # <<>>,
         NEW r, NEW v, NEW seen, NEW o, SearchedIn(D, r, v, s, seen, o),
         s[Len(s)].result, s[Len(s)].next <= Len(D[s[Len(s)].group]),
         D[s[Len(s)].group][s[Len(s)].next] \in Range(o)
  PROVE  SearchedIn(D, r, v, Answered(s, TRUE), seen, o)
<1> DEFINE a == Answered(s, TRUE)
<1>1. PICK n \in Nat \ {0} : n = Len(s)
  OBVIOUS
<1>2. /\ Len(a) = n /\ a # <<>> /\ a \in Seq(Frame)
      /\ \A i \in 1 .. n :
           /\ a[i].group = s[i].group
           /\ i < n => a[i] = s[i]
           /\ i = n => a[i].next = s[i].next + 1 /\ a[i].result
  BY <1>1, AnsweredTop DEF TopIsTold
<1>3. Chain(D, a) /\ GroupsOn(a) = GroupsOn(s)
  BY ChainAnswered DEF SearchedIn
<1> HIDE DEF a
<1>4. Settled(D, s, o) /\ Chain(D, s) /\ s[n].next \in Nat \ {0}
  <2>1. s[n] \in Frame
    BY <1>1
  <2> QED  BY <2>1 DEF SearchedIn, Frame
<1>5. Settled(D, a, o)
  <2>1. ASSUME NEW i \in 1 .. n, a[i].result, NEW k \in 1 .. a[i].next - 1
        PROVE  D[a[i].group][k] \in Range(o)
    <3>1. CASE i < n
      <4>1. a[i] = s[i] /\ i \in 1 .. Len(s)
        BY <1>1, <1>2, <3>1
      <4> QED  BY <1>4, <2>1, <4>1 DEF Settled
    <3>2. CASE i = n
      <4>1. a[i].group = s[n].group /\ a[i].next - 1 = s[n].next
        <5>1. PICK q \in Nat : q = s[n].next
          BY <1>4
        <5>2. a[i].group = s[n].group /\ a[i].next = q + 1
          BY <1>2, <3>2, <5>1
        <5> QED  BY <5>1, <5>2
      <4>2. CASE k = s[n].next
        BY <1>1, <4>1, <4>2
      <4>3. CASE k \in 1 .. s[n].next - 1
        BY <1>1, <1>4, <4>1, <4>3 DEF Settled
      <4> QED  BY <1>4, <4>1, <4>2, <4>3
    <3> QED  BY <3>1, <3>2
  <2> QED  BY <1>2, <2>1 DEF Settled
<1>6. AllTrue(a) /\ AllTrue(s)
  <2>1. a[Len(a)].result /\ s[Len(s)].result
    BY <1>2
  <2> QED  BY <1>2, <1>3, <1>4, <2>1, ChainAllTrue
<1>7. v
  BY DEF SearchedIn
<1>8. SearchedIn(D, r, v, a, seen, o)
  BY <1>3, <1>5, <1>6, <1>7 DEF SearchedIn
<1> QED  BY <1>8 DEF a

LEMMA SearchEnter ==
  ASSUME NEW G, NEW D \in [G -> Seq(Nat)], NEW s \in Seq(Frame), NEW g \in G, g \in Nat,
         NEW r, NEW v, NEW seen, NEW o, SearchedIn(D, r, v, s, seen, o), v, g \notin seen,
         Leads(D, s, g)
  PROVE  SearchedIn(D, r, v, Pushed(s, g), seen \cup {g}, o)
<1> DEFINE t == Pushed(s, g)
<1>1. PICK n \in Nat : n = Len(s)
  OBVIOUS
<1>2. /\ Chain(D, t) /\ GroupsOn(t) = GroupsOn(s) \cup {g} /\ t \in Seq(Frame)
      /\ Len(t) = n + 1 /\ t[n + 1].next = 1 /\ t[n + 1].result /\ \A i \in 1 .. n : t[i] = s[i]
  <2>1. g \notin GroupsOn(s) /\ Chain(D, s)
    BY DEF SearchedIn
  <2>2. IsPushed(D, s, g, Pushed(s, g))
    BY <2>1, ChainPushed
  <2>3. IsPushed(D, s, g, t)
    BY <2>2
  <2> HIDE DEF t
  <2> QED  BY <1>1, <2>3 DEF IsPushed
<1> HIDE DEF t
<1>3. Settled(D, s, o) /\ Chain(D, s)
  BY DEF SearchedIn
<1>4. Settled(D, t, o)
  <2>1. ASSUME NEW i \in 1 .. n + 1, t[i].result, NEW k \in 1 .. t[i].next - 1
        PROVE  D[t[i].group][k] \in Range(o)
    <3>1. CASE i \in 1 .. n
      BY <1>1, <1>2, <1>3, <2>1, <3>1 DEF Settled
    <3>2. CASE i = n + 1
      BY <1>2, <3>2
    <3> QED  BY <3>1, <3>2
  <2> QED  BY <1>2, <2>1 DEF Settled
<1>5. AllTrue(t) /\ AllTrue(s)
  <2>1. t[Len(t)].result
    BY <1>2
  <2>2. s = <<>> \/ s[Len(s)].result
    BY DEF Leads
  <2> QED  BY <1>2, <1>3, <2>1, <2>2, ChainAllTrue
<1>6. SearchedIn(D, r, v, t, seen \cup {g}, o)
  BY <1>2, <1>4, <1>5 DEF SearchedIn
<1> QED  BY <1>6 DEF t

LEMMA SearchRoot ==
  ASSUME NEW D, NEW s, NEW r \in Nat \ {0}, NEW v, NEW seen, NEW o,
         SearchedIn(D, r, v, s, seen, o), r \in seen
  PROVE  SearchedIn(D, r + 1, v, s, seen, o)
<1>1. 1 .. (r + 1) - 1 = (1 .. r - 1) \cup {r}
  OBVIOUS
<1>2. v => 1 .. (r + 1) - 1 \subseteq seen
  BY <1>1 DEF SearchedIn
<1> QED  BY <1>2 DEF SearchedIn

LEMMA SearchLeave ==
  ASSUME NEW G, NEW D \in [G -> Seq(Nat)], NEW s \in Seq(Frame), s # <<>>,
         NEW r, NEW v \in BOOLEAN, NEW seen, NEW o \in Seq(Nat),
         SearchedIn(D, r, v, s, seen, o),
         ~s[Len(s)].result \/ s[Len(s)].next > Len(D[s[Len(s)].group])
  PROVE  SearchedIn(D, r, IF Len(s) = 1 THEN s[Len(s)].result ELSE v,
                    Answered(Popped(s), s[Len(s)].result),
                    seen, Append(o, s[Len(s)].group))
<1> DEFINE top == s[Len(s)]
           told == top.result
           g == top.group
           t == Popped(s)
           a == Answered(t, told)
           p == Append(o, g)
           w == IF Len(s) = 1 THEN told ELSE v
<1>1. PICK n \in Nat : Len(s) = n + 1
  <2>1. Len(s) \in Nat \ {0}
    OBVIOUS
  <2>2. Len(s) - 1 \in Nat /\ Len(s) = (Len(s) - 1) + 1
    BY <2>1
  <2> QED  BY <2>2
<1>2. top \in Frame /\ told \in BOOLEAN /\ g \in Nat /\ top.next \in Nat /\ top = s[n + 1]
  <2>1. top \in Frame /\ top = s[n + 1]
    BY <1>1
  <2> QED  BY <2>1 DEF Frame
<1>3. Chain(D, s) /\ Settled(D, s, o) /\ v
  BY DEF SearchedIn
<1>4. /\ t \in Seq(Frame) /\ Len(t) = n /\ \A i \in 1 .. n : t[i] = s[i]
      /\ Chain(D, t) /\ GroupsOn(s) = GroupsOn(t) \cup {g} /\ g \notin GroupsOn(t)
      /\ Leads(D, t, g)
  <2>1. /\ t \in Seq(Frame) /\ Len(t) = Len(s) - 1 /\ \A i \in 1 .. Len(s) - 1 : t[i] = s[i]
        /\ Chain(D, t) /\ GroupsOn(s) = GroupsOn(t) \cup {g} /\ g \notin GroupsOn(t)
        /\ Leads(D, t, g)
    BY <1>3, ChainPopped
  <2>2. Len(s) - 1 = n
    BY <1>1
  <2> HIDE DEF t, g
  <2> QED  BY <2>1, <2>2
<1>5. AllTrue(s) <=> told
  BY <1>3, ChainAllTrue
<1>6. g \in DOMAIN D
  BY <1>1, <1>3 DEF Chain
<1>7. told => top.next > Len(D[g])
  OBVIOUS
<1>8. \A k \in 1 .. top.next - 1 : told => D[g][k] \in Range(o)
  <2>1. n + 1 \in 1 .. Len(s)
    BY <1>1
  <2> QED  BY <1>2, <1>3, <2>1 DEF Settled
<1> HIDE DEF top, told, g, t
<1>9. PICK m \in Nat : m = Len(o)
  OBVIOUS
<1>10. /\ p \in Seq(Nat) /\ Len(p) = m + 1 /\ p[m + 1] = g /\ \A i \in 1 .. m : p[i] = o[i]
       /\ 1 .. m + 1 = (1 .. m) \cup {m + 1}
  BY <1>2, <1>9
<1>11. Range(o) = {o[i] : i \in 1 .. m} /\ Range(p) = Range(o) \cup {g}
  <2>1. Range(o) = {o[i] : i \in 1 .. m}
    <3>1. DOMAIN o = 1 .. m
      BY <1>9
    <3> QED  BY <3>1 DEF Range
  <2>2. Range(p) = {p[i] : i \in (1 .. m) \cup {m + 1}}
    <3>1. DOMAIN p = (1 .. m) \cup {m + 1}
      BY <1>10
    <3> QED  BY <3>1 DEF Range
  <2>3. {p[i] : i \in 1 .. m} = {o[i] : i \in 1 .. m}
    BY <1>10
  <2> QED  BY <1>10, <2>1, <2>2, <2>3
<1> HIDE DEF p
<1>12. Chain(D, a) /\ GroupsOn(a) = GroupsOn(t) /\ a \in Seq(Frame) /\ (a = <<>> <=> t = <<>>)
       /\ (w /\ AllTrue(a) <=> told) /\ (a # <<>> => w)
  <2>1. CASE t = <<>>
    <3>1. a = <<>> /\ n = 0 /\ w = told
      BY <1>1, <1>4, <2>1 DEF Answered, told
    <3>2. AllTrue(<<>>)
      BY DEF AllTrue
    <3> QED  BY <1>4, <2>1, <3>1, <3>2
  <2>2. CASE t # <<>>
    <3>1. Chain(D, a) /\ GroupsOn(a) = GroupsOn(t)
      <4>1. t[Len(t)].next <= Len(D[t[Len(t)].group])
        BY <1>4, <2>2 DEF Leads
      <4> QED  BY <1>2, <1>4, <2>2, <4>1, ChainAnswered
    <3>2. a \in Seq(Frame) /\ Len(a) = n /\ n \in 1 .. n /\ a[n].result = told
      <4>1. TopIsTold(t, told, a)
        BY <1>2, <1>4, <2>2, AnsweredTop
      <4> HIDE DEF a
      <4> QED  BY <1>4, <4>1 DEF TopIsTold
    <3>3. a # <<>> /\ (AllTrue(a) <=> told)
      BY <3>1, <3>2, ChainAllTrue
    <3>4. w
      BY <1>1, <1>3, <3>2
    <3> QED  BY <2>2, <3>1, <3>2, <3>3, <3>4
  <2> QED  BY <2>1, <2>2
<1>13. Settled(D, a, p)
  <2>1. ASSUME NEW i \in 1 .. Len(a), a[i].result, NEW k \in 1 .. a[i].next - 1
        PROVE  D[a[i].group][k] \in Range(p)
    <3>1. t # <<>>
      BY <1>12
    <3>2. /\ Len(a) = n /\ a[i].group = t[i].group /\ t[i] = s[i] /\ i \in 1 .. Len(s)
          /\ i < n => a[i] = t[i]
          /\ i = n => a[i].next = t[i].next + 1 /\ a[i].result = told
          /\ t[i] \in Frame /\ i \in 1 .. n
      <4>1. TopIsTold(t, told, a)
        BY <1>2, <1>4, <3>1, AnsweredTop
      <4> HIDE DEF a
      <4>2. i \in 1 .. n
        BY <1>4, <4>1 DEF TopIsTold
      <4>3. t[i] = s[i] /\ i \in 1 .. Len(s) /\ t[i] \in Frame
        BY <1>1, <1>4, <4>2
      <4> QED  BY <1>4, <4>1, <4>2, <4>3 DEF TopIsTold
    <3>3. \A j \in 1 .. t[i].next - 1 : t[i].result => D[t[i].group][j] \in Range(o)
      BY <1>3, <3>2 DEF Settled
    <3>4. CASE i < n
      BY <1>11, <2>1, <3>2, <3>3, <3>4
    <3>5. CASE i = n
      <4>1. t[i].next \in Nat /\ a[i].next - 1 = t[i].next
        <5>1. PICK q \in Nat : q = t[i].next
          BY <3>2 DEF Frame
        <5>2. a[i].next = q + 1
          BY <3>2, <3>5, <5>1
        <5> QED  BY <5>1, <5>2
      <4>2. t[i].result /\ D[t[i].group][t[i].next] = g
        BY <1>4, <3>1, <3>2, <3>5 DEF Leads
      <4>3. k = t[i].next \/ k \in 1 .. t[i].next - 1
        BY <4>1
      <4> QED  BY <1>11, <3>2, <3>3, <4>2, <4>3
    <3> QED  BY <3>2, <3>4, <3>5
  <2> QED  BY <2>1 DEF Settled
<1>14. \A i, j \in 1 .. Len(p) : p[i] = p[j] => i = j
  <2>1. \A i, j \in 1 .. m : o[i] = o[j] => i = j
    BY <1>9 DEF SearchedIn
  <2>2. \A i \in 1 .. m : o[i] # g
    BY <1>4, <1>11 DEF SearchedIn
  <2>3. ASSUME NEW i \in 1 .. m + 1, NEW j \in 1 .. m + 1, p[i] = p[j] PROVE i = j
    <3>1. CASE i \in 1 .. m /\ j \in 1 .. m
      BY <1>10, <2>1, <2>3, <3>1
    <3>2. CASE i \in 1 .. m /\ j = m + 1
      BY <1>10, <2>2, <2>3, <3>2
    <3>3. CASE i = m + 1 /\ j \in 1 .. m
      BY <1>10, <2>2, <2>3, <3>3
    <3> QED  BY <1>10, <3>1, <3>2, <3>3
  <2> QED  BY <1>10, <2>3
<1>15. told => Closed(D, p)
  <2>1. ASSUME told, NEW i \in 1 .. m + 1, NEW k \in 1 .. Len(D[p[i]])
        PROVE  \E j \in 1 .. m + 1 : j < i /\ p[j] = D[p[i]][k]
    <3>1. Closed(D, o)
      BY <1>3, <1>5, <2>1 DEF SearchedIn
    <3>2. CASE i \in 1 .. m
      <4>1. PICK j \in 1 .. m : j < i /\ o[j] = D[o[i]][k]
        BY <1>9, <1>10, <3>1, <3>2 DEF Closed
      <4> QED  BY <1>10, <3>2, <4>1
    <3>3. CASE i = m + 1
      <4>1. p[i] = g /\ k \in 1 .. top.next - 1
        <5>1. p[i] = g /\ D[g] \in Seq(Nat)
          BY <1>6, <1>10, <3>3
        <5>2. Len(D[g]) \in Nat /\ top.next > Len(D[g]) /\ top.next \in Nat
          BY <1>2, <1>7, <2>1, <5>1
        <5> QED  BY <5>1, <5>2
      <4>2. D[g][k] \in Range(o)
        BY <1>8, <2>1, <4>1
      <4>3. PICK j \in 1 .. m : o[j] = D[g][k]
        BY <1>11, <4>2
      <4> QED  BY <1>10, <3>3, <4>1, <4>3
    <3> QED  BY <1>10, <3>2, <3>3
  <2> QED  BY <1>10, <2>1 DEF Closed
<1>16. /\ seen = GroupsOn(a) \cup Range(p)
       /\ GroupsOn(a) \cap Range(p) = {} /\ Range(p) \subseteq DOMAIN D
       /\ 1 .. r - 1 \subseteq seen /\ (~told => ~Valid(D))
  BY <1>3, <1>4, <1>5, <1>6, <1>11, <1>12 DEF SearchedIn
<1> HIDE DEF a, w
<1>17. SearchedIn(D, r, w, a, seen, p)
  BY <1>12, <1>13, <1>14, <1>15, <1>16 DEF SearchedIn
<1> QED  BY <1>17 DEF a, w, p, t, g, told, top

(* A dependency that is no group, or a call of a group that is being gone  *)
(* through: neither happens when the topology is valid.                    *)
LEMMA CycleIsInvalid ==
  ASSUME NEW G, NEW D \in [G -> Seq(Nat)], NEW s \in Seq(Frame), s # <<>>, Chain(D, s),
         s[Len(s)].next <= Len(D[s[Len(s)].group]),
         D[s[Len(s)].group][s[Len(s)].next] \in GroupsOn(s)
  PROVE  ~Valid(D)
<1>1. PICK n \in Nat \ {0} : n = Len(s)
  OBVIOUS
<1>2. PICK p \in 1 .. n : D[s[n].group][s[n].next] = s[p].group
  BY <1>1 DEF GroupsOn
<1> DEFINE S == {s[i].group : i \in p .. n}
<1>3. \A i \in 1 .. n :
        /\ s[i].group \in G /\ s[i].next \in Nat \ {0} /\ s[i].next <= Len(D[s[i].group])
        /\ D[s[i].group] \in Seq(Nat)
        /\ i < n => D[s[i].group][s[i].next] = s[i + 1].group
  <2>1. ASSUME NEW i \in 1 .. n
        PROVE  /\ s[i].group \in G /\ s[i].next \in Nat \ {0}
               /\ s[i].next <= Len(D[s[i].group]) /\ D[s[i].group] \in Seq(Nat)
               /\ i < n => D[s[i].group][s[i].next] = s[i + 1].group
    <3>1. s[i] \in Frame
      BY <1>1
    <3>2. s[i].group \in G /\ s[i].next \in Nat \ {0}
      BY <1>1, <3>1 DEF Chain, Frame
    <3>3. i < n \/ i = n
      OBVIOUS
    <3> QED  BY <1>1, <3>2, <3>3 DEF Chain
  <2> QED  BY <2>1
<1>4. S \in (SUBSET DOMAIN D) \ {{}}
  <2>1. \A i \in p .. n : i \in 1 .. n
    OBVIOUS
  <2>2. s[n].group \in S /\ S \subseteq G
    BY <1>3, <2>1
  <2> HIDE DEF S
  <2>3. S # {} /\ S \subseteq DOMAIN D
    BY <2>2
  <2> QED  BY <2>3
<1>5. ASSUME NEW i \in p .. n PROVE Range(D[s[i].group]) \cap S # {}
  <2>1. i \in 1 .. n
    OBVIOUS
  <2>2. D[s[i].group][s[i].next] \in S
    <3>1. CASE i < n
      <4>1. i + 1 \in p .. n
        BY <3>1
      <4> QED  BY <1>3, <2>1, <3>1, <4>1
    <3>2. CASE i = n
      BY <1>2, <3>2
    <3> QED  BY <3>1, <3>2
  <2>3. s[i].next \in DOMAIN D[s[i].group]
    BY <1>3, <2>1
  <2> HIDE DEF S
  <2> QED  BY <2>2, <2>3 DEF Range
<1>6. \A g \in S : Range(D[g]) \cap S # {}
  BY <1>5
<1> HIDE DEF S
<1> QED  BY <1>4, <1>6 DEF Valid

LEMMA UnknownIsInvalid ==
  ASSUME NEW G, NEW D \in [G -> Seq(Nat)], NEW g \in G, NEW k \in 1 .. Len(D[g]),
         D[g][k] \notin G
  PROVE  ~Valid(D)
<1>1. k \in DOMAIN D[g] /\ DOMAIN D = G
  OBVIOUS
<1>2. D[g][k] \in Range(D[g])
  BY <1>1 DEF Range
<1> QED  BY <1>1, <1>2 DEF Valid

-------------------------------------------------------------------------------
(* The search, step by step.                                               *)

LEMMA InitSearchInv == Init => SearchInv
<1> SUFFICES ASSUME Init PROVE SearchInv
  OBVIOUS
<1>1. /\ phase = "update" /\ root = 1 /\ valid = TRUE
      /\ stack = <<>> /\ visited = {} /\ order = <<>>
  BY DEF Init
<1>2. <<>> \in Seq(Frame) /\ <<>> \in Seq(Nat)
  OBVIOUS
<1> QED  BY <1>1, <1>2 DEF SearchInv, SearchType

LEMMA Searching ==
  ASSUME MergeInv, SearchInv, phase = "topo"
  PROVE  /\ SearchedIn(deps, root, valid, stack, visited, order) /\ Group # {}
         /\ deps \in [Group -> Seq(Nat)] /\ stack \in Seq(Frame) /\ order \in Seq(Nat)
         /\ valid \in BOOLEAN /\ root \in Nat \ {0} /\ parent = GroupsOn(stack)
<1>1. DOMAIN stack = 1 .. Len(stack)
  BY DEF SearchInv, SearchType
<1>2. parent = GroupsOn(stack)
  BY <1>1 DEF parent, GroupsOn
<1> QED  BY <1>2, MergedGroups DEF SearchInv, SearchType

(* What is left to show of a step that stays in the search.                *)
LEMMA StillSearching ==
  ASSUME phase' = "topo", Group' # {},
         root' \in Nat \ {0}, valid' \in BOOLEAN, stack' \in Seq(Frame), order' \in Seq(Nat),
         SearchedIn(deps, root, valid, stack, visited, order)'
  PROVE  SearchInv'
BY DEF SearchInv, SearchType

LEMMA EmptyStack ==
  ASSUME NEW r \in BOOLEAN
  PROVE  Answered(<<>>, r) = <<>>
BY DEF Answered

LEMMA RootSearchInv ==
  ASSUME MergeInv, SearchInv, VisitRoot
  PROVE  SearchInv'
<1>1. /\ phase = "topo" /\ phase' = phase /\ stack = <<>> /\ valid /\ Call(root)
      /\ root' = root + 1 /\ order' = order /\ root <= Cardinality(Group)
      /\ UNCHANGED <<files, read, config>>
  BY DEF VisitRoot, merging
<1>2. /\ SearchedIn(deps, root, valid, stack, visited, order) /\ Group # {}
      /\ deps \in [Group -> Seq(Nat)] /\ stack \in Seq(Frame) /\ order \in Seq(Nat)
      /\ root \in Nat \ {0} /\ parent = GroupsOn(stack)
  BY <1>1, Searching
<1>3. root \in Group /\ root \in Nat
  <2>1. PICK n \in Nat : Group = 1 .. n /\ Cardinality(Group) = n
    BY <1>1, MergedGroups
  <2> QED  BY <1>1, <1>2, <2>1
<1>4. root \notin parent
  BY <1>1, <1>2 DEF GroupsOn
<1>5. Group' = Group /\ deps' = deps
  BY <1>1 DEF Group, deps
<1>6. root' \in Nat \ {0}
  BY <1>1, <1>2
<1>7. CASE root \in visited
  <2>1. stack' = <<>> /\ valid' = valid /\ visited' = visited
    BY <1>1, <1>3, <1>4, <1>7, EmptyStack DEF Call
  <2>2. SearchedIn(deps, root + 1, valid, stack, visited, order)
    BY <1>2, <1>7, SearchRoot
  <2>3. SearchedIn(deps, root, valid, stack, visited, order)'
    BY <1>1, <1>5, <2>1, <2>2
  <2> QED  BY <1>1, <1>2, <1>5, <1>6, <2>1, <2>3, StillSearching
<1>8. CASE root \notin visited
  <2>1. stack' = Pushed(stack, root) /\ visited' = visited \cup {root} /\ valid' = valid
    BY <1>1, <1>3, <1>4, <1>8 DEF Call, Pushed
  <2>2. Leads(deps, stack, root)
    BY <1>1 DEF Leads
  <2>3. SearchedIn(deps, root, valid, Pushed(stack, root), visited \cup {root}, order)
    BY <1>1, <1>2, <1>3, <1>8, <2>2, SearchEnter
  <2>4. SearchedIn(deps, root + 1, valid, Pushed(stack, root), visited \cup {root}, order)
    BY <1>2, <2>3, SearchRoot
  <2>5. SearchedIn(deps, root, valid, stack, visited, order)'
    BY <1>1, <1>5, <2>1, <2>4
  <2>6. Pushed(stack, root) \in Seq(Frame)
    BY <1>2, <1>3 DEF Pushed, Frame
  <2> QED  BY <1>1, <1>2, <1>5, <1>6, <2>1, <2>5, <2>6, StillSearching
<1> QED  BY <1>7, <1>8

LEMMA DependencySearchInv ==
  ASSUME MergeInv, SearchInv, VisitDependency
  PROVE  SearchInv'
<1> DEFINE g == deps[stack[Len(stack)].group][stack[Len(stack)].next]
<1>1. /\ phase = "topo" /\ phase' = phase /\ stack # <<>> /\ Call(g)
      /\ stack[Len(stack)].result
      /\ stack[Len(stack)].next <= Len(deps[stack[Len(stack)].group])
      /\ root' = root /\ order' = order /\ UNCHANGED <<files, read, config>>
  BY DEF VisitDependency, merging, Top
<1>2. /\ SearchedIn(deps, root, valid, stack, visited, order) /\ Group # {}
      /\ deps \in [Group -> Seq(Nat)] /\ stack \in Seq(Frame) /\ order \in Seq(Nat)
      /\ root \in Nat \ {0} /\ parent = GroupsOn(stack) /\ valid \in BOOLEAN
  BY <1>1, Searching
<1>3. Group' = Group /\ deps' = deps
  BY <1>1 DEF Group, deps
<1>4. /\ Chain(deps, stack) /\ valid /\ visited = GroupsOn(stack) \cup Range(order)
  BY <1>1, <1>2 DEF SearchedIn
<1>5. /\ Len(stack) \in 1 .. Len(stack) /\ stack[Len(stack)] \in Frame
      /\ stack[Len(stack)].group \in Group
      /\ stack[Len(stack)].next \in 1 .. Len(deps[stack[Len(stack)].group])
  <2>1. Len(stack) \in 1 .. Len(stack) /\ stack[Len(stack)] \in Frame
    BY <1>1, <1>2
  <2>2. stack[Len(stack)].group \in Group
    BY <1>2, <1>4, <2>1 DEF Chain
  <2>3. deps[stack[Len(stack)].group] \in Seq(Nat) /\ stack[Len(stack)].next \in Nat \ {0}
    BY <1>2, <2>1, <2>2 DEF Frame
  <2> QED  BY <1>1, <2>1, <2>2, <2>3
<1>6. ASSUME NEW r \in BOOLEAN PROVE Answered(stack, r) \in Seq(Frame)
  <2>1. TopIsTold(stack, r, Answered(stack, r))
    BY <1>1, <1>2, AnsweredTop
  <2> QED  BY <2>1 DEF TopIsTold
<1>7. CASE g \notin Group \/ g \in parent
  <2>1. stack' = Answered(stack, FALSE) /\ valid' = valid /\ visited' = visited
    BY <1>1, <1>7 DEF Call
  <2>2. ~Valid(deps)
    BY <1>1, <1>2, <1>4, <1>5, <1>7, CycleIsInvalid, UnknownIsInvalid
  <2>3. SearchedIn(deps, root, valid, Answered(stack, FALSE), visited, order)
    BY <1>1, <1>2, <2>2, SearchReject
  <2>4. SearchedIn(deps, root, valid, stack, visited, order)'
    BY <1>1, <1>3, <2>1, <2>3
  <2> QED  BY <1>1, <1>2, <1>3, <1>6, <2>1, <2>4, StillSearching
<1>8. CASE g \in Group /\ g \notin parent /\ g \in visited
  <2>1. stack' = Answered(stack, TRUE) /\ valid' = valid /\ visited' = visited
    BY <1>1, <1>8 DEF Call
  <2>2. SearchedIn(deps, root, valid, Answered(stack, TRUE), visited, order)
    BY <1>1, <1>2, <1>4, <1>8, SearchKnown
  <2>3. SearchedIn(deps, root, valid, stack, visited, order)'
    BY <1>1, <1>3, <2>1, <2>2
  <2> QED  BY <1>1, <1>2, <1>3, <1>6, <2>1, <2>3, StillSearching
<1>9. CASE g \in Group /\ g \notin parent /\ g \notin visited
  <2>1. stack' = Pushed(stack, g) /\ visited' = visited \cup {g} /\ valid' = valid
    BY <1>1, <1>9 DEF Call, Pushed
  <2>2. Leads(deps, stack, g) /\ g \in Nat
    <3>1. deps[stack[Len(stack)].group] \in Seq(Nat)
      BY <1>2, <1>5
    <3> QED  BY <1>1, <1>5, <3>1 DEF Leads
  <2> HIDE DEF g
  <2>3. SearchedIn(deps, root, valid, Pushed(stack, g), visited \cup {g}, order)
    BY <1>2, <1>4, <1>9, <2>2, SearchEnter
  <2>4. SearchedIn(deps, root, valid, stack, visited, order)'
    BY <1>1, <1>3, <2>1, <2>3
  <2>5. Pushed(stack, g) \in Seq(Frame)
    BY <1>2, <2>2 DEF Pushed, Frame
  <2> QED  BY <1>1, <1>2, <1>3, <2>1, <2>4, <2>5, StillSearching
<1> QED  BY <1>7, <1>8, <1>9

LEMMA LeaveSearchInv ==
  ASSUME MergeInv, SearchInv, LeaveGroup
  PROVE  SearchInv'
<1>1. /\ phase = "topo" /\ phase' = phase /\ stack # <<>>
      /\ ~stack[Len(stack)].result
           \/ stack[Len(stack)].next > Len(deps[stack[Len(stack)].group])
      /\ order' = Append(order, stack[Len(stack)].group)
      /\ stack' = Answered(Popped(stack), stack[Len(stack)].result)
      /\ valid' = IF Len(stack) = 1 THEN stack[Len(stack)].result ELSE valid
      /\ root' = root /\ visited' = visited /\ UNCHANGED <<files, read, config>>
  BY DEF LeaveGroup, merging, Top, Popped
<1>2. /\ SearchedIn(deps, root, valid, stack, visited, order) /\ Group # {}
      /\ deps \in [Group -> Seq(Nat)] /\ stack \in Seq(Frame) /\ order \in Seq(Nat)
      /\ root \in Nat \ {0} /\ valid \in BOOLEAN
  BY <1>1, Searching
<1>3. Group' = Group /\ deps' = deps
  BY <1>1 DEF Group, deps
<1>4. /\ stack[Len(stack)] \in Frame /\ stack[Len(stack)].result \in BOOLEAN
      /\ stack[Len(stack)].group \in Nat /\ Popped(stack) \in Seq(Frame)
  <2>1. stack[Len(stack)] \in Frame
    BY <1>1, <1>2
  <2>2. Chain(deps, stack)
    BY <1>2 DEF SearchedIn
  <2>3. Popped(stack) \in Seq(Frame)
    BY <1>1, <1>2, <2>2, ChainPopped
  <2> QED  BY <2>1, <2>3 DEF Frame
<1>5. stack' \in Seq(Frame)
  <2>1. CASE Popped(stack) = <<>>
    BY <1>1, <1>4, <2>1, EmptyStack
  <2>2. CASE Popped(stack) # <<>>
    <3>1. TopIsTold(Popped(stack), stack[Len(stack)].result, stack')
      BY <1>1, <1>4, <2>2, AnsweredTop
    <3> QED  BY <3>1 DEF TopIsTold
  <2> QED  BY <2>1, <2>2
<1>6. order' \in Seq(Nat) /\ valid' \in BOOLEAN
  BY <1>1, <1>2, <1>4
<1>7. SearchedIn(deps, root, IF Len(stack) = 1 THEN stack[Len(stack)].result ELSE valid,
                 Answered(Popped(stack), stack[Len(stack)].result),
                 visited, Append(order, stack[Len(stack)].group))
  BY <1>1, <1>2, SearchLeave
<1>8. SearchedIn(deps, root, valid, stack, visited, order)'
  BY <1>1, <1>3, <1>7
<1> QED  BY <1>1, <1>2, <1>3, <1>5, <1>6, <1>8, StillSearching

LEMMA EndSearchInv ==
  ASSUME MergeInv, SearchInv, EndSearch
  PROVE  SearchInv'
<1>1. /\ phase = "topo" /\ stack = <<>> /\ (~valid \/ root > Cardinality(Group))
      /\ phase' = IF valid THEN "grading" ELSE "exited"
      /\ root' = root /\ valid' = valid /\ stack' = stack /\ visited' = visited
      /\ order' = order /\ UNCHANGED <<files, read, config>>
  BY DEF EndSearch, search, merging
<1>2. /\ SearchedIn(deps, root, valid, stack, visited, order) /\ Group # {}
      /\ stack \in Seq(Frame) /\ order \in Seq(Nat)
      /\ root \in Nat \ {0} /\ valid \in BOOLEAN
  BY <1>1, Searching
<1>3. Group' = Group /\ deps' = deps
  BY <1>1 DEF Group, deps
<1>4. valid => Group \subseteq visited
  <2>1. PICK n \in Nat : Group = 1 .. n /\ Cardinality(Group) = n
    BY <1>1, MergedGroups
  <2>2. ASSUME valid PROVE 1 .. n \subseteq 1 .. root - 1 /\ 1 .. root - 1 \subseteq visited
    <3>1. root > n
      BY <1>1, <2>1, <2>2
    <3>2. 1 .. root - 1 \subseteq visited
      BY <1>2, <2>2 DEF SearchedIn
    <3> QED  BY <1>2, <3>1, <3>2
  <2> QED  BY <2>1, <2>2
<1>5. SearchedIn(deps, root, valid, stack, visited, order)'
  BY <1>1, <1>2, <1>3
<1> QED  BY <1>1, <1>2, <1>3, <1>4, <1>5 DEF SearchInv, SearchType

LEMMA NextSearchInv == MergeInv /\ SearchInv /\ [Next]_vars => SearchInv'
<1> SUFFICES ASSUME MergeInv, SearchInv, [Next]_vars PROVE SearchInv'
  OBVIOUS
<1>1. CASE UpdateFile
  <2>1. /\ phase = "update" /\ phase' = phase /\ root' = root /\ valid' = valid
        /\ stack' = stack /\ visited' = visited /\ order' = order
    BY <1>1 DEF UpdateFile, search
  <2> QED  BY <2>1 DEF SearchInv, SearchType
<1>2. CASE StartGrading
  <2>1. /\ phase = "update" /\ root' = root /\ valid' = valid
        /\ stack' = stack /\ visited' = visited /\ UNCHANGED <<files, read, config>>
        /\ phase' = IF Group = {} THEN "grading" ELSE "topo"
        /\ order' = IF Group = {} THEN <<NoGroup>> ELSE <<>>
    BY <1>2 DEF StartGrading, merging
  <2>2. Group' = Group /\ deps' = deps
    BY <2>1 DEF Group, deps
  <2>3. root = 1 /\ valid /\ valid \in BOOLEAN /\ stack = <<>> /\ visited = {}
    BY <2>1 DEF SearchInv, SearchType
  <2>4. <<>> \in Seq(Frame) /\ <<>> \in Seq(Nat) /\ <<NoGroup>> \in Seq(Nat)
    BY DEF NoGroup
  <2>5. CASE Group = {}
    BY <2>1, <2>2, <2>3, <2>4, <2>5 DEF SearchInv, SearchType
  <2>6. CASE Group # {}
    <3>1. SearchedIn(deps, 1, TRUE, <<>>, {}, <<>>)
      <4>1. GroupsOn(<<>>) = {} /\ Range(<<>>) = {} /\ 1 .. 1 - 1 = {} /\ AllTrue(<<>>)
        BY DEF GroupsOn, Range, AllTrue
      <4>2. Chain(deps, <<>>) /\ Settled(deps, <<>>, <<>>) /\ Closed(deps, <<>>)
        BY DEF Chain, Settled, Closed
      <4>3. \A i, j \in 1 .. Len(<<>>) : <<>>[i] = <<>>[j] => i = j
        OBVIOUS
      <4> QED  BY <4>1, <4>2, <4>3 DEF SearchedIn
    <3>2. valid = TRUE
      BY <2>3
    <3>3. SearchedIn(deps, root, valid, stack, visited, order)'
      BY <2>1, <2>2, <2>3, <2>6, <3>1, <3>2
    <3> QED  BY <2>1, <2>2, <2>3, <2>4, <2>6, <3>3, StillSearching
  <2> QED  BY <2>5, <2>6
<1>3. CASE VisitRoot
  BY <1>3, RootSearchInv
<1>4. CASE VisitDependency
  BY <1>4, DependencySearchInv
<1>5. CASE LeaveGroup
  BY <1>5, LeaveSearchInv
<1>6. CASE EndSearch
  BY <1>6, EndSearchInv
<1>7. CASE StartGroup \/ PassOver \/ GradeTest \/ EndGroup \/ Finish \/ UNCHANGED vars
  <2>1. /\ UNCHANGED <<files, read, config, root, valid, stack, visited, order>>
        /\ \/ phase' = phase
           \/ phase \in {"grading", "group"} /\ phase' \in {"grading", "group", "done"}
    BY <1>7 DEF StartGroup, PassOver, GradeTest, EndGroup, Finish, vars, search, merging, grading
  <2>2. Group' = Group /\ deps' = deps
    BY <2>1 DEF Group, deps
  <2>3. SearchedIn(deps, root, valid, stack, visited, order)'
          <=> SearchedIn(deps, root, valid, stack, visited, order)
    BY <2>1, <2>2
  <2> QED  BY <2>1, <2>2, <2>3 DEF SearchInv, SearchType
<1> QED  BY <1>1, <1>2, <1>3, <1>4, <1>5, <1>6, <1>7 DEF Next

LEMMA AlwaysSearchInv == Spec => [](MergeInv /\ SearchInv)
<1>1. Init => SearchInv
  BY InitSearchInv
<1>2. MergeInv /\ SearchInv /\ [Next]_vars => SearchInv'
  BY NextSearchInv
<1> QED  BY <1>1, <1>2, AlwaysMergeInv, PTL DEF Spec

(* An accepted order has every group once, after all its dependencies, on  *)
(* whatever files: so get_group_result(dep).value() never throws           *)
(* (submission_config.cpp:14-44, 123-129).                                 *)
THEOREM OrderIsRight == Spec => []OrderIsTopological
<1>1. MergeInv /\ SearchInv => OrderIsTopological
  <2> SUFFICES ASSUME MergeInv, SearchInv, phase \in {"grading", "group", "done"}, Group # {}
               PROVE  /\ IsInjective(order) /\ Range(order) = Group
                      /\ \A i \in DOMAIN order : \A d \in Range(deps[order[i]]) :
                           \E j \in DOMAIN order : j < i /\ order[j] = d
    BY DEF OrderIsTopological
  <2>1. /\ SearchedIn(deps, root, valid, stack, visited, order)
        /\ stack = <<>> /\ valid /\ Group \subseteq visited /\ order \in Seq(Nat)
    BY DEF SearchInv, SearchType
  <2>2. deps \in [Group -> Seq(Nat)]
    BY MergedGroups
  <2>3. PICK n \in Nat : n = Len(order) /\ DOMAIN order = 1 .. n
    BY <2>1
  <2>4. GroupsOn(stack) = {} /\ AllTrue(stack)
    BY <2>1 DEF GroupsOn, AllTrue
  <2>5. /\ \A i, j \in 1 .. n : order[i] = order[j] => i = j
        /\ Range(order) = Group /\ Closed(deps, order)
    BY <2>1, <2>2, <2>3, <2>4 DEF SearchedIn
  <2>6. IsInjective(order)
    BY <2>3, <2>5 DEF IsInjective
  <2>7. ASSUME NEW i \in DOMAIN order, NEW d \in Range(deps[order[i]])
        PROVE  \E j \in DOMAIN order : j < i /\ order[j] = d
    <3>1. order[i] \in Group
      BY <2>5 DEF Range
    <3>2. deps[order[i]] \in Seq(Nat)
      BY <2>2, <3>1
    <3>3. PICK k \in 1 .. Len(deps[order[i]]) : deps[order[i]][k] = d
      BY <3>2 DEF Range
    <3> QED  BY <2>3, <2>5, <3>3 DEF Closed
  <2> QED  BY <2>5, <2>6, <2>7
<1> QED  BY <1>1, AlwaysSearchInv, PTL

(* The sandbox gives up only on a topology with a cycle or with a          *)
(* dependency that is no group (submission_config.cpp:21-24, 117).         *)
THEOREM RejectedIsInvalid == Spec => []RejectsOnlyInvalid
<1>1. ASSUME MergeInv PROVE ValidTopology <=> Valid(deps)
  <2>1. DOMAIN deps = Group
    BY DEF deps
  <2> QED  BY <2>1 DEF ValidTopology, Valid
<1>2. MergeInv /\ SearchInv => RejectsOnlyInvalid
  BY <1>1 DEF SearchInv, SearchedIn, RejectsOnlyInvalid
<1> QED  BY <1>2, AlwaysSearchInv, PTL

-------------------------------------------------------------------------------
(* The grading.  L is the tests of the groups in their order, q the results *)
(* of the groups that have been dealt with, tr those of the tests, bits the *)
(* policy.                                                                 *)

Lists == [i \in 1 .. Len(order) |-> TestsIn(order[i])]
Needs == [i \in 1 .. Len(order) |-> DepsIn(order[i])]
Past == [i \in 1 .. turn - 1 |-> group_result[order[i]]]

(* The tests that groups before the i-th have graded.                      *)
Before(L, q, i) == UNION {Range(L[j]) : j \in {k \in 1 .. i - 1 : q[k] # "SKIP"}}

First(list, m) == {list[k] : k \in 1 .. m}

(* The first m tests of a group have been dealt with, seen being those that *)
(* were graded before it, and w is the worst result of the others.         *)
GradedSoFar(list, seen, m, tr, w, bits) ==
  /\ First(list, m) \subseteq DOMAIN tr
  /\ w \in GRADE_STATUS \ {"SKIP"}
  /\ \A t \in First(list, m) \ seen : Rank(tr[t]) <= Rank(w)
  /\ w = "OK" \/ \E t \in First(list, m) \ seen : tr[t] = w
  /\ "SKIP_TEST" \in bits =>
       \A x, n \in 1 .. m :
         (/\ x < n /\ list[x] \notin seen /\ list[n] \notin seen
          /\ \A k \in 1 .. n - 1 : list[k] # list[n]
          /\ tr[list[x]] # "OK") => tr[list[n]] = "SKIP"

(* skip is set exactly by a failed test of the group's own.                *)
SkipMeans(list, seen, m, tr, set, bits) ==
  /\ set => /\ "SKIP_TEST" \in bits
            /\ \E x \in 1 .. m : list[x] \in DOMAIN tr /\ tr[list[x]] \notin {"OK", "SKIP"}
  /\ ("SKIP_TEST" \in bits /\ \E x \in 1 .. m : list[x] \notin seen /\ tr[list[x]] # "OK") => set

GradedIn(L, q, n, tr, bits) ==
  \A i \in 1 .. n :
    q[i] # "SKIP" => GradedSoFar(L[i], Before(L, q, i), Len(L[i]), tr, q[i], bits)

(* A test is skipped behind a failed one of a list that has both.          *)
SkippedBehind(L, tr, bits) ==
  \A t \in DOMAIN tr : tr[t] = "SKIP" =>
    /\ "SKIP_TEST" \in bits
    /\ \E i \in DOMAIN L : \E x, k \in 1 .. Len(L[i]) :
         x < k /\ L[i][k] = t /\ L[i][x] \in DOMAIN tr /\ tr[L[i][x]] \notin {"OK", "SKIP"}

(* The first n groups of o have a result, SKIP where a dependency of the   *)
(* group, N of its index, makes it so.                                     *)
DecidedIn(o, n, gr, N, bits) ==
  /\ DOMAIN gr = {o[i] : i \in 1 .. n}
  /\ \A i \in 1 .. n :
       /\ gr[o[i]] = "SKIP" => "SKIP_GROUP" \in bits
       /\ "SKIP_GROUP" \in bits => (gr[o[i]] = "SKIP" <=> \E d \in N[i] : gr[d] # "OK")

GradeInv ==
  /\ turn \in Nat \ {0} /\ at \in Nat \ {0} /\ skip \in BOOLEAN
  /\ DOMAIN test_result \subseteq Nat /\ \A t \in DOMAIN test_result : test_result[t] \in GRADE_STATUS
  /\ phase \in {"update", "topo", "exited"} =>
       turn = 1 /\ test_result = <<>> /\ group_result = <<>>
  /\ phase \in {"grading", "group", "done"} =>
       /\ turn <= Len(order) + 1
       /\ DecidedIn(order, turn - 1, group_result, Needs, policy)
       /\ GradedIn(Lists, Past, turn - 1, test_result, policy)
       /\ SkippedBehind(Lists, test_result, policy)
  /\ phase \in {"grading", "done"} => DOMAIN test_result = Before(Lists, Past, turn)
  /\ phase = "group" =>
       /\ turn <= Len(order) /\ at <= Len(Lists[turn]) + 1
       /\ "SKIP_GROUP" \in policy => \A d \in Needs[turn] : group_result[d] = "OK"
       /\ DOMAIN test_result = Before(Lists, Past, turn) \cup First(Lists[turn], at - 1)
       /\ GradedSoFar(Lists[turn], Before(Lists, Past, turn), at - 1, test_result, worst, policy)
       /\ SkipMeans(Lists[turn], Before(Lists, Past, turn), at - 1, test_result, skip, policy)
  /\ phase = "done" => turn = Len(order) + 1

LEMMA Statuses ==
  /\ GRADE_STATUS = {"SKIP", "OK", "FAILED", "TIMEOUT", "MEMORY_ERROR", "RUNTIME_ERROR",
                     "SYSTEM_ERROR"}
  /\ \A s \in GRADE_STATUS : Rank(s) \in 1 .. 7 /\ Precedent[Rank(s)] = s
  /\ Precedent[1] = "SKIP"
<1>1. DOMAIN Precedent = 1 .. 7 /\ Precedent[1] = "SKIP"
  BY DEF Precedent
<1>2. /\ Precedent[2] = "OK" /\ Precedent[3] = "FAILED" /\ Precedent[4] = "TIMEOUT"
      /\ Precedent[5] = "MEMORY_ERROR" /\ Precedent[6] = "RUNTIME_ERROR"
      /\ Precedent[7] = "SYSTEM_ERROR"
  BY DEF Precedent
<1>3. GRADE_STATUS = {Precedent[i] : i \in 1 .. 7}
  BY <1>1 DEF GRADE_STATUS, Range
<1>4. 1 .. 7 = {1, 2, 3, 4, 5, 6, 7}
  OBVIOUS
<1>5. GRADE_STATUS = {"SKIP", "OK", "FAILED", "TIMEOUT", "MEMORY_ERROR", "RUNTIME_ERROR",
                      "SYSTEM_ERROR"}
  BY <1>1, <1>2, <1>3, <1>4
<1>6. ASSUME NEW s \in GRADE_STATUS PROVE Rank(s) \in 1 .. 7 /\ Precedent[Rank(s)] = s
  <2>1. \E i \in DOMAIN Precedent : Precedent[i] = s
    BY <1>1, <1>3
  <2> QED  BY <1>1, <2>1 DEF Rank
<1> QED  BY <1>1, <1>5, <1>6

LEMMA WorseIsWorst ==
  ASSUME NEW w \in GRADE_STATUS \ {"SKIP"}, NEW v \in GRADE_STATUS
  PROVE  /\ Worse(w, v) \in GRADE_STATUS \ {"SKIP"} /\ Worse(w, v) \in {w, v}
         /\ Rank(w) \in Nat /\ Rank(v) \in Nat /\ Rank(Worse(w, v)) \in Nat
         /\ Rank(w) <= Rank(Worse(w, v)) /\ Rank(v) <= Rank(Worse(w, v))
         /\ Worse(w, v) = w => Rank(v) <= Rank(w)
<1>1. Rank(w) \in 1 .. 7 /\ Rank(v) \in 1 .. 7 /\ Precedent[Rank(v)] = v /\ Precedent[1] = "SKIP"
  BY Statuses
<1>2. CASE Rank(w) < Rank(v)
  <2>1. Worse(w, v) = v
    BY <1>2 DEF Worse
  <2>2. Rank(v) # 1
    BY <1>1, <1>2
  <2>3. v # "SKIP"
    <3>1. CASE v = "SKIP"
      <4>1. "SKIP" \in GRADE_STATUS
        BY <3>1
      <4>2. \A i \in 2 .. 7 : Precedent[i] # "SKIP"
        BY DEF Precedent
      <4> QED  BY <1>1, <2>2, <3>1, <4>2
    <3> QED  BY <3>1
  <2> QED  BY <1>1, <1>2, <2>1, <2>3
<1>3. CASE ~(Rank(w) < Rank(v))
  <2>1. Worse(w, v) = w
    BY <1>3 DEF Worse
  <2> QED  BY <1>1, <1>3, <2>1
<1> QED  BY <1>2, <1>3

(* A result that is added changes none of those there are.                 *)
IsPut(tr, t, v, tr2) ==
  /\ DOMAIN tr2 = DOMAIN tr \cup {t} /\ tr2[t] = v
  /\ \A u \in DOMAIN tr : tr2[u] = tr[u]

LEMMA PutKeeps ==
  ASSUME NEW tr, NEW t, NEW v, t \notin DOMAIN tr
  PROVE  IsPut(tr, t, v, Put(tr, t, v))
BY DEF Put, IsPut

LEMMA FirstNext ==
  ASSUME NEW list, NEW m \in Nat
  PROVE  /\ First(list, m + 1) = First(list, m) \cup {list[m + 1]}
         /\ 1 .. m + 1 = (1 .. m) \cup {m + 1}
<1>1. 1 .. m + 1 = (1 .. m) \cup {m + 1}
  OBVIOUS
<1> QED  BY <1>1 DEF First

LEMMA SoFarKept ==
  ASSUME NEW list, NEW seen, NEW m \in Nat, NEW tr, NEW w, NEW bits, NEW t, NEW v,
         GradedSoFar(list, seen, m, tr, w, bits), t \notin DOMAIN tr
  PROVE  GradedSoFar(list, seen, m, Put(tr, t, v), w, bits)
<1> DEFINE tr2 == Put(tr, t, v)
<1>1. /\ First(list, m) \subseteq DOMAIN tr /\ DOMAIN tr2 = DOMAIN tr \cup {t}
      /\ \A u \in DOMAIN tr : tr2[u] = tr[u]
  <2>1. IsPut(tr, t, v, tr2)
    BY PutKeeps
  <2> HIDE DEF tr2
  <2> QED  BY <2>1 DEF GradedSoFar, IsPut
<1> HIDE DEF tr2
<1>2. \A u \in First(list, m) : tr2[u] = tr[u]
  BY <1>1
<1>3. \A x \in 1 .. m : tr2[list[x]] = tr[list[x]]
  BY <1>2 DEF First
<1>4. GradedSoFar(list, seen, m, tr2, w, bits)
  BY <1>1, <1>2, <1>3 DEF GradedSoFar
<1> QED  BY <1>4 DEF tr2

(* A test that was graded before, here or in another group, is passed over. *)
LEMMA SoFarPassed ==
  ASSUME NEW list, NEW seen, NEW m \in Nat, NEW tr, NEW w, NEW bits, NEW set,
         GradedSoFar(list, seen, m, tr, w, bits), SkipMeans(list, seen, m, tr, set, bits),
         DOMAIN tr = seen \cup First(list, m), list[m + 1] \in DOMAIN tr
  PROVE  /\ GradedSoFar(list, seen, m + 1, tr, w, bits)
         /\ SkipMeans(list, seen, m + 1, tr, set, bits)
         /\ DOMAIN tr = seen \cup First(list, m + 1)
<1>1. /\ First(list, m + 1) = First(list, m) \cup {list[m + 1]}
      /\ 1 .. m + 1 = (1 .. m) \cup {m + 1}
  BY FirstNext
<1>2. First(list, m + 1) \ seen = First(list, m) \ seen
  BY <1>1
<1>3. list[m + 1] \in seen \/ \E k \in 1 .. m : list[k] = list[m + 1]
  BY DEF First
<1>4. ASSUME "SKIP_TEST" \in bits, NEW x \in 1 .. m + 1, NEW n \in 1 .. m + 1,
             x < n, list[x] \notin seen, list[n] \notin seen,
             \A k \in 1 .. n - 1 : list[k] # list[n], tr[list[x]] # "OK"
      PROVE  tr[list[n]] = "SKIP"
  <2>1. n # m + 1
    <3>1. CASE n = m + 1
      <4>1. n - 1 = m
        BY <3>1
      <4> QED  BY <1>3, <1>4, <3>1, <4>1
    <3> QED  BY <3>1
  <2>2. n \in 1 .. m /\ x \in 1 .. m
    BY <1>4, <2>1
  <2> QED  BY <1>4, <2>2 DEF GradedSoFar
<1>5. GradedSoFar(list, seen, m + 1, tr, w, bits)
  BY <1>1, <1>2, <1>4 DEF GradedSoFar
<1>6. SkipMeans(list, seen, m + 1, tr, set, bits)
  <2>1. ASSUME "SKIP_TEST" \in bits, NEW x \in 1 .. m + 1,
               list[x] \notin seen, tr[list[x]] # "OK"
        PROVE  set
    <3>1. PICK k \in 1 .. m : list[k] = list[x]
      BY <1>1, <1>3, <2>1
    <3> QED  BY <2>1, <3>1 DEF SkipMeans
  <2>2. set => /\ "SKIP_TEST" \in bits
               /\ \E x \in 1 .. m + 1 : list[x] \in DOMAIN tr /\ tr[list[x]] \notin {"OK", "SKIP"}
    BY <1>1 DEF SkipMeans
  <2> QED  BY <2>1, <2>2 DEF SkipMeans
<1> QED  BY <1>1, <1>5, <1>6

SoFar(list, seen, m, tr, w, set, bits) ==
  /\ GradedSoFar(list, seen, m, tr, w, bits) /\ SkipMeans(list, seen, m, tr, set, bits)
  /\ DOMAIN tr = seen \cup First(list, m)

(* A test is graded, or skipped when skip is set.                          *)
LEMMA SoFarAdded ==
  ASSUME NEW list, NEW seen, NEW m \in Nat, NEW tr, NEW w, NEW bits, NEW set \in BOOLEAN, NEW v,
         NEW t, t = list[m + 1], NEW set2 \in BOOLEAN,
         set2 <=> set \/ ("SKIP_TEST" \in bits /\ v # "OK"),
         SoFar(list, seen, m, tr, w, set, bits), t \notin DOMAIN tr,
         v \in GRADE_STATUS, set <=> v = "SKIP",
         \A u \in DOMAIN tr : tr[u] \in GRADE_STATUS
  PROVE  SoFar(list, seen, m + 1, Put(tr, t, v), Worse(w, v), set2, bits)
<1> DEFINE tr2 == Put(tr, t, v)
           w2 == Worse(w, v)
<1>0. /\ GradedSoFar(list, seen, m, tr, w, bits) /\ SkipMeans(list, seen, m, tr, set, bits)
      /\ DOMAIN tr = seen \cup First(list, m)
  BY DEF SoFar
<1>1. /\ First(list, m + 1) = First(list, m) \cup {list[m + 1]}
      /\ 1 .. m + 1 = (1 .. m) \cup {m + 1}
  BY FirstNext
<1>2. /\ DOMAIN tr2 = DOMAIN tr \cup {list[m + 1]} /\ tr2[list[m + 1]] = v
      /\ \A u \in DOMAIN tr : tr2[u] = tr[u]
  <2>1. IsPut(tr, t, v, tr2)
    BY PutKeeps
  <2> HIDE DEF tr2
  <2> QED  BY <2>1 DEF IsPut
<1>3. /\ w2 \in GRADE_STATUS \ {"SKIP"} /\ w2 \in {w, v} /\ w \in GRADE_STATUS \ {"SKIP"}
      /\ Rank(w) \in Nat /\ Rank(v) \in Nat /\ Rank(w2) \in Nat
      /\ Rank(w) <= Rank(w2) /\ Rank(v) <= Rank(w2) /\ (w2 = w => Rank(v) <= Rank(w))
  <2>1. w \in GRADE_STATUS \ {"SKIP"}
    BY <1>0 DEF GradedSoFar
  <2> QED  BY <2>1, WorseIsWorst
<1> HIDE DEF tr2, w2
<1>4. \A x \in 1 .. m : list[x] \in DOMAIN tr /\ tr2[list[x]] = tr[list[x]] /\ list[x] # list[m + 1]
  BY <1>0, <1>2 DEF First
<1>5. First(list, m + 1) \ seen = (First(list, m) \ seen) \cup {list[m + 1]}
  BY <1>0, <1>1
<1>6. \A u \in First(list, m + 1) \ seen : Rank(tr2[u]) <= Rank(w2)
  <2>1. ASSUME NEW u \in First(list, m) \ seen PROVE Rank(tr2[u]) <= Rank(w2)
    <3>1. u \in DOMAIN tr /\ tr2[u] = tr[u] /\ Rank(tr[u]) <= Rank(w)
      BY <1>0, <1>2 DEF GradedSoFar
    <3>2. Rank(tr[u]) \in Nat
      BY <3>1, Statuses
    <3> QED  BY <1>3, <3>1, <3>2
  <2> QED  BY <1>2, <1>3, <1>5, <2>1
<1>7. w2 = "OK" \/ \E u \in First(list, m + 1) \ seen : tr2[u] = w2
  <2>1. CASE w2 = v
    BY <1>2, <1>5, <2>1
  <2>2. CASE w2 = w /\ w # "OK"
    <3>1. PICK u \in First(list, m) \ seen : tr[u] = w
      BY <1>0, <2>2 DEF GradedSoFar
    <3>2. u \in DOMAIN tr
      BY <1>0
    <3> QED  BY <1>2, <1>5, <2>2, <3>1, <3>2
  <2> QED  BY <1>3, <2>1, <2>2
<1>8. ASSUME "SKIP_TEST" \in bits, NEW x \in 1 .. m + 1, NEW n \in 1 .. m + 1,
             x < n, list[x] \notin seen, list[n] \notin seen,
             \A k \in 1 .. n - 1 : list[k] # list[n], tr2[list[x]] # "OK"
      PROVE  tr2[list[n]] = "SKIP"
  <2>1. x \in 1 .. m
    BY <1>8
  <2>2. tr[list[x]] # "OK"
    BY <1>4, <1>8, <2>1
  <2>3. CASE n = m + 1
    <3>1. set
      BY <1>0, <1>8, <2>1, <2>2 DEF SkipMeans
    <3> QED  BY <1>2, <2>3, <3>1
  <2>4. CASE n \in 1 .. m
    <3>1. tr[list[n]] = "SKIP"
      BY <1>0, <1>8, <2>1, <2>2, <2>4 DEF GradedSoFar
    <3> QED  BY <1>4, <2>4, <3>1
  <2> QED  BY <1>1, <2>3, <2>4
<1>9. GradedSoFar(list, seen, m + 1, tr2, w2, bits)
  <2>1. First(list, m + 1) \subseteq DOMAIN tr2
    BY <1>0, <1>1, <1>2
  <2> QED  BY <1>0, <1>3, <1>6, <1>7, <1>8, <2>1 DEF GradedSoFar
<1>10. SkipMeans(list, seen, m + 1, tr2, set2, bits)
  <2>1. ASSUME "SKIP_TEST" \in bits, NEW x \in 1 .. m + 1,
               list[x] \notin seen, tr2[list[x]] # "OK"
        PROVE  set2
    <3>1. CASE x = m + 1
      BY <1>2, <2>1, <3>1
    <3>2. CASE x \in 1 .. m
      <4>1. tr[list[x]] # "OK"
        BY <1>4, <2>1, <3>2
      <4> QED  BY <1>0, <2>1, <3>2, <4>1 DEF SkipMeans
    <3> QED  BY <1>1, <3>1, <3>2
  <2>2. ASSUME set2
        PROVE  /\ "SKIP_TEST" \in bits
               /\ \E x \in 1 .. m + 1 : list[x] \in DOMAIN tr2 /\ tr2[list[x]] \notin {"OK", "SKIP"}
    <3>1. CASE set
      <4>1. /\ "SKIP_TEST" \in bits
            /\ \E x \in 1 .. m : list[x] \in DOMAIN tr /\ tr[list[x]] \notin {"OK", "SKIP"}
        BY <1>0, <3>1 DEF SkipMeans
      <4>2. PICK x \in 1 .. m : list[x] \in DOMAIN tr /\ tr[list[x]] \notin {"OK", "SKIP"}
        BY <4>1
      <4>3. list[x] \in DOMAIN tr2 /\ tr2[list[x]] \notin {"OK", "SKIP"} /\ x \in 1 .. m + 1
        BY <1>2, <1>4, <4>2
      <4> QED  BY <4>1, <4>3
    <3>2. CASE ~set
      <4>1. v \notin {"OK", "SKIP"} /\ "SKIP_TEST" \in bits
        BY <2>2, <3>2
      <4>2. m + 1 \in 1 .. m + 1
        OBVIOUS
      <4> QED  BY <1>2, <4>1, <4>2
    <3> QED  BY <3>1, <3>2
  <2> QED  BY <1>0, <2>1, <2>2 DEF SkipMeans
<1>11. DOMAIN tr2 = seen \cup First(list, m + 1)
  BY <1>0, <1>1, <1>2
<1> QED  BY <1>9, <1>10, <1>11 DEF tr2, w2, SoFar

LEMMA BehindAdded ==
  ASSUME NEW L, NEW tr, NEW bits, NEW i \in DOMAIN L, NEW m \in Nat, NEW v,
         SkippedBehind(L, tr, bits), Len(L[i]) \in Nat, m + 1 <= Len(L[i]),
         L[i][m + 1] \notin DOMAIN tr,
         v = "SKIP" =>
           /\ "SKIP_TEST" \in bits
           /\ \E x \in 1 .. m : L[i][x] \in DOMAIN tr /\ tr[L[i][x]] \notin {"OK", "SKIP"}
  PROVE  SkippedBehind(L, Put(tr, L[i][m + 1], v), bits)
<1> DEFINE tr2 == Put(tr, L[i][m + 1], v)
<1>1. /\ DOMAIN tr2 = DOMAIN tr \cup {L[i][m + 1]} /\ tr2[L[i][m + 1]] = v
      /\ \A u \in DOMAIN tr : tr2[u] = tr[u]
  <2>1. IsPut(tr, L[i][m + 1], v, tr2)
    BY PutKeeps
  <2> HIDE DEF tr2
  <2> QED  BY <2>1 DEF IsPut
<1> HIDE DEF tr2
<1>2. ASSUME NEW t \in DOMAIN tr2, tr2[t] = "SKIP"
      PROVE  /\ "SKIP_TEST" \in bits
             /\ \E j \in DOMAIN L : \E x, k \in 1 .. Len(L[j]) :
                  x < k /\ L[j][k] = t /\ L[j][x] \in DOMAIN tr2 /\ tr2[L[j][x]] \notin {"OK", "SKIP"}
  <2>1. CASE t \in DOMAIN tr
    <3>1. tr[t] = "SKIP"
      BY <1>1, <1>2, <2>1
    <3>2. "SKIP_TEST" \in bits
      BY <2>1, <3>1 DEF SkippedBehind
    <3>3. PICK j \in DOMAIN L : \E x, k \in 1 .. Len(L[j]) :
            x < k /\ L[j][k] = t /\ L[j][x] \in DOMAIN tr /\ tr[L[j][x]] \notin {"OK", "SKIP"}
      BY <2>1, <3>1 DEF SkippedBehind
    <3>4. \E x, k \in 1 .. Len(L[j]) :
            x < k /\ L[j][k] = t /\ L[j][x] \in DOMAIN tr2 /\ tr2[L[j][x]] \notin {"OK", "SKIP"}
      BY <1>1, <3>3
    <3> QED  BY <3>2, <3>4
  <2>2. CASE t = L[i][m + 1]
    <3>1. v = "SKIP"
      BY <1>1, <1>2, <2>2
    <3>2. PICK x \in 1 .. m : L[i][x] \in DOMAIN tr /\ tr[L[i][x]] \notin {"OK", "SKIP"}
      BY <3>1
    <3>3. /\ x < m + 1 /\ x \in 1 .. Len(L[i]) /\ m + 1 \in 1 .. Len(L[i])
          /\ L[i][x] \in DOMAIN tr2 /\ tr2[L[i][x]] \notin {"OK", "SKIP"}
      BY <1>1, <3>2
    <3>4. \E y, k \in 1 .. Len(L[i]) :
            y < k /\ L[i][k] = t /\ L[i][y] \in DOMAIN tr2 /\ tr2[L[i][y]] \notin {"OK", "SKIP"}
      BY <2>2, <3>3
    <3> QED  BY <3>1, <3>4
  <2> QED  BY <1>1, <2>1, <2>2
<1>3. SkippedBehind(L, tr2, bits)
  BY <1>2 DEF SkippedBehind
<1> QED  BY <1>3 DEF tr2

LEMMA GradedInKept ==
  ASSUME NEW L, NEW q, NEW n \in Nat, NEW tr, NEW bits, NEW t, NEW v, GradedIn(L, q, n, tr, bits),
         \A i \in 1 .. n : Len(L[i]) \in Nat, t \notin DOMAIN tr
  PROVE  GradedIn(L, q, n, Put(tr, t, v), bits)
<1>1. ASSUME NEW i \in 1 .. n, q[i] # "SKIP"
      PROVE  GradedSoFar(L[i], Before(L, q, i), Len(L[i]), Put(tr, t, v), q[i], bits)
  <2>1. GradedSoFar(L[i], Before(L, q, i), Len(L[i]), tr, q[i], bits)
    BY <1>1 DEF GradedIn
  <2> QED  BY <2>1, SoFarKept
<1> QED  BY <1>1 DEF GradedIn

(* One more group has its result.                                          *)
NextBefore(L, q, n, p) ==
  /\ \A i \in 1 .. n : Before(L, p, i) = Before(L, q, i)
  /\ p[n] = "SKIP" => Before(L, p, n + 1) = Before(L, q, n)
  /\ p[n] # "SKIP" => Before(L, p, n + 1) = Before(L, q, n) \cup Range(L[n])

LEMMA BeforeNext ==
  ASSUME NEW L, NEW q, NEW n \in Nat \ {0}, NEW p, \A j \in 1 .. n - 1 : p[j] = q[j]
  PROVE  NextBefore(L, q, n, p)
<1>1. ASSUME NEW i \in 1 .. n PROVE Before(L, p, i) = Before(L, q, i)
  <2>1. \A k \in 1 .. i - 1 : p[k] = q[k]
    OBVIOUS
  <2>2. {k \in 1 .. i - 1 : p[k] # "SKIP"} = {k \in 1 .. i - 1 : q[k] # "SKIP"}
    BY <2>1
  <2> QED  BY <2>2 DEF Before
<1>2. n \in 1 .. n /\ n + 1 - 1 = n /\ 1 .. n = (1 .. n - 1) \cup {n}
  OBVIOUS
<1>3. {k \in 1 .. n : p[k] # "SKIP"}
        = {k \in 1 .. n - 1 : p[k] # "SKIP"} \cup (IF p[n] = "SKIP" THEN {} ELSE {n})
  BY <1>2
<1>4. Before(L, p, n + 1)
        = Before(L, p, n) \cup (IF p[n] = "SKIP" THEN {} ELSE Range(L[n]))
  <2>1. CASE p[n] = "SKIP"
    BY <1>2, <1>3, <2>1 DEF Before
  <2>2. CASE p[n] # "SKIP"
    <3>1. {k \in 1 .. n : p[k] # "SKIP"} = {k \in 1 .. n - 1 : p[k] # "SKIP"} \cup {n}
      BY <1>3, <2>2
    <3> QED  BY <1>2, <2>2, <3>1 DEF Before
  <2> QED  BY <2>1, <2>2
<1>5. Before(L, p, n) = Before(L, q, n)
  BY <1>1, <1>2
<1> QED  BY <1>1, <1>4, <1>5 DEF NextBefore

LEMMA GradedNext ==
  ASSUME NEW L, NEW q, NEW n \in Nat \ {0}, NEW p, \A j \in 1 .. n - 1 : p[j] = q[j],
         NEW tr, NEW bits, GradedIn(L, q, n - 1, tr, bits),
         p[n] # "SKIP" => GradedSoFar(L[n], Before(L, q, n), Len(L[n]), tr, p[n], bits)
  PROVE  GradedIn(L, p, n, tr, bits)
<1>1. \A i \in 1 .. n : Before(L, p, i) = Before(L, q, i)
  <2>1. NextBefore(L, q, n, p)
    BY BeforeNext
  <2> QED  BY <2>1 DEF NextBefore
<1>2. ASSUME NEW i \in 1 .. n, p[i] # "SKIP"
      PROVE  GradedSoFar(L[i], Before(L, p, i), Len(L[i]), tr, p[i], bits)
  <2>1. CASE i = n
    BY <1>1, <1>2, <2>1
  <2>2. CASE i # n
    <3>1. i \in 1 .. n - 1 /\ p[i] = q[i]
      BY <2>2
    <3>2. GradedSoFar(L[i], Before(L, q, i), Len(L[i]), tr, q[i], bits)
      BY <1>2, <3>1 DEF GradedIn
    <3> QED  BY <1>1, <3>1, <3>2
  <2> QED  BY <2>1, <2>2
<1> QED  BY <1>2 DEF GradedIn

LEMMA DecidedNext ==
  ASSUME NEW o, NEW n \in Nat \ {0}, NEW gr, NEW N, NEW bits, NEW x,
         DecidedIn(o, n - 1, gr, N, bits),
         \A i \in 1 .. n : \A d \in N[i] : \E j \in 1 .. i - 1 : o[j] = d,
         \A i, j \in 1 .. n : o[i] = o[j] => i = j,
         x = "SKIP" => "SKIP_GROUP" \in bits,
         "SKIP_GROUP" \in bits => (x = "SKIP" <=> \E d \in N[n] : gr[d] # "OK")
  PROVE  DecidedIn(o, n, Put(gr, o[n], x), N, bits)
<1> DEFINE gr2 == Put(gr, o[n], x)
<1>1. 1 .. n = (1 .. n - 1) \cup {n} /\ n \notin 1 .. n - 1
  OBVIOUS
<1>2. DOMAIN gr = {o[i] : i \in 1 .. n - 1} /\ o[n] \notin DOMAIN gr
  BY <1>1 DEF DecidedIn
<1>3. /\ DOMAIN gr2 = DOMAIN gr \cup {o[n]} /\ gr2[o[n]] = x
      /\ \A u \in DOMAIN gr : gr2[u] = gr[u]
  <2>1. IsPut(gr, o[n], x, gr2)
    BY <1>2, PutKeeps
  <2> HIDE DEF gr2
  <2> QED  BY <2>1 DEF IsPut
<1> HIDE DEF gr2
<1>4. \A i \in 1 .. n : \A d \in N[i] : gr2[d] = gr[d]
  <2>1. ASSUME NEW i \in 1 .. n, NEW d \in N[i] PROVE d \in DOMAIN gr
    <3>1. PICK j \in 1 .. i - 1 : o[j] = d
      OBVIOUS
    <3>2. j \in 1 .. n - 1
      OBVIOUS
    <3> QED  BY <1>2, <3>1, <3>2
  <2> QED  BY <1>3, <2>1
<1>5. DOMAIN gr2 = {o[i] : i \in 1 .. n}
  BY <1>1, <1>2, <1>3
<1>6. ASSUME NEW i \in 1 .. n
      PROVE  /\ gr2[o[i]] = "SKIP" => "SKIP_GROUP" \in bits
             /\ "SKIP_GROUP" \in bits => (gr2[o[i]] = "SKIP" <=> \E d \in N[i] : gr2[d] # "OK")
  <2>1. (\E d \in N[i] : gr2[d] # "OK") <=> (\E d \in N[i] : gr[d] # "OK")
    BY <1>4
  <2>2. CASE i = n
    BY <1>3, <2>1, <2>2
  <2>3. CASE i \in 1 .. n - 1
    <3>1. gr2[o[i]] = gr[o[i]]
      BY <1>2, <1>3, <2>3
    <3> QED  BY <2>1, <2>3, <3>1 DEF DecidedIn
  <2> QED  BY <1>1, <2>2, <2>3
<1>7. DecidedIn(o, n, gr2, N, bits)
  BY <1>5, <1>6 DEF DecidedIn
<1> QED  BY <1>7 DEF gr2

(* What an order the grading follows is: that of the groups, or the one    *)
(* empty name.                                                             *)
LEMMA Ordered ==
  ASSUME MergeInv, SearchInv, phase \in {"grading", "group", "done"}
  PROVE  /\ Len(order) \in Nat /\ DOMAIN order = 1 .. Len(order)
         /\ \A i \in 1 .. Len(order) : \A d \in Needs[i] : \E j \in 1 .. i - 1 : order[j] = d
         /\ \A i, j \in 1 .. Len(order) : order[i] = order[j] => i = j
         /\ \A i \in 1 .. Len(order) : Lists[i] \in Seq(Nat)
         /\ Group # {} => /\ {order[i] : i \in 1 .. Len(order)} = Group
                          /\ \A i \in 1 .. Len(order) : /\ Lists[i] = tests[order[i]]
                                                        /\ Needs[i] = Range(deps[order[i]])
<1>1. PICK n \in Nat : n = Len(order) /\ DOMAIN order = 1 .. n
  BY DEF SearchInv, SearchType
<1>2. /\ deps \in [Group -> Seq(Nat)] /\ tests \in [Group -> Seq(Nat)]
      /\ Group \subseteq Nat \ {0} /\ config.number_cases \in Nat
  BY MergedGroups
<1>3. CASE Group = {}
  <2>1. order = <<NoGroup>>
    BY <1>3 DEF SearchInv
  <2>2. n = 1 /\ order[1] = NoGroup
    BY <1>1, <2>1
  <2>3. Needs[1] = {} /\ Lists[1] = [i \in 1 .. config.number_cases |-> i]
    BY <1>1, <2>2 DEF Needs, Lists, DepsIn, TestsIn
  <2>4. Lists[1] \in Seq(Nat)
    BY <1>2, <2>3
  <2>5. 1 .. n = {1}
    BY <2>2
  <2> QED  BY <1>1, <1>3, <2>3, <2>4, <2>5
<1>4. CASE Group # {}
  <2>1. /\ SearchedIn(deps, root, valid, stack, visited, order)
        /\ stack = <<>> /\ valid /\ Group \subseteq visited
    BY <1>4 DEF SearchInv
  <2>2. GroupsOn(stack) = {} /\ AllTrue(stack)
    BY <2>1 DEF GroupsOn, AllTrue
  <2>3. /\ \A i, j \in 1 .. n : order[i] = order[j] => i = j
        /\ Range(order) = Group /\ Closed(deps, order)
    BY <1>1, <1>2, <2>1, <2>2 DEF SearchedIn
  <2>4. Range(order) = {order[i] : i \in 1 .. n}
    BY <1>1 DEF Range
  <2>5. ASSUME NEW i \in 1 .. n
        PROVE  /\ Lists[i] = tests[order[i]] /\ Lists[i] \in Seq(Nat)
               /\ Needs[i] = Range(deps[order[i]])
               /\ \A d \in Needs[i] : \E j \in 1 .. i - 1 : order[j] = d
    <3>1. order[i] \in Group /\ order[i] # NoGroup
      BY <1>2, <2>3, <2>4 DEF NoGroup
    <3>2. Lists[i] = tests[order[i]] /\ Needs[i] = Range(deps[order[i]])
      BY <1>1, <3>1 DEF Lists, Needs, TestsIn, DepsIn
    <3>3. Lists[i] \in Seq(Nat) /\ deps[order[i]] \in Seq(Nat)
      BY <1>2, <3>1, <3>2
    <3>4. ASSUME NEW d \in Needs[i] PROVE \E j \in 1 .. i - 1 : order[j] = d
      <4>1. PICK k \in 1 .. Len(deps[order[i]]) : deps[order[i]][k] = d
        BY <3>2, <3>3, <3>4 DEF Range
      <4>2. PICK j \in 1 .. n : j < i /\ order[j] = d
        BY <1>1, <2>3, <4>1 DEF Closed
      <4>3. j \in 1 .. i - 1
        BY <4>2
      <4> QED  BY <4>2, <4>3
    <3> QED  BY <3>2, <3>3, <3>4
  <2> QED  BY <1>1, <1>4, <2>3, <2>4, <2>5
<1> QED  BY <1>3, <1>4

LEMMA GradingUnchanged ==
  ASSUME UNCHANGED <<config, order>>
  PROVE  Lists' = Lists /\ Needs' = Needs /\ policy' = policy
<1>1. Group' = Group /\ deps' = deps /\ tests' = tests /\ policy' = policy
  BY DEF Group, deps, tests, policy
<1> QED  BY <1>1 DEF Lists, Needs, TestsIn, DepsIn

LEMMA PastUnchanged ==
  ASSUME UNCHANGED <<order, turn, group_result>>
  PROVE  Past' = Past
BY DEF Past

(* A group gets its result.                                                *)
LEMMA PastNext ==
  ASSUME MergeInv, SearchInv, GradeInv, phase \in {"grading", "group"}, turn <= Len(order),
         NEW x, group_result' = Put(group_result, order[turn], x), turn' = turn + 1, order' = order
  PROVE  (\A j \in 1 .. turn - 1 : Past'[j] = Past[j]) /\ Past'[turn] = x
<1>1. PICK n \in Nat \ {0} : n = turn
  BY DEF GradeInv
<1>2. /\ 1 .. n \subseteq 1 .. Len(order) /\ 1 .. turn' - 1 = 1 .. n
      /\ 1 .. n - 1 \subseteq 1 .. n /\ n \in 1 .. n
  BY <1>1, Ordered
<1>3. DOMAIN group_result = {order[i] : i \in 1 .. n - 1}
  BY <1>1 DEF GradeInv, DecidedIn
<1>4. order[n] \notin DOMAIN group_result
  <2>1. \A i \in 1 .. n - 1 : order[i] # order[n]
    <3>1. \A i \in 1 .. n - 1 : i \in 1 .. Len(order) /\ i # n
      BY <1>2
    <3> QED  BY <1>2, <3>1, Ordered
  <2> QED  BY <1>3, <2>1
<1>5. IsPut(group_result, order[n], x, group_result')
  BY <1>1, <1>4, PutKeeps
<1>6. \A i \in 1 .. n : Past'[i] = group_result'[order[i]]
  BY <1>2 DEF Past
<1>7. \A i \in 1 .. n - 1 : Past[i] = group_result[order[i]] /\ order[i] \in DOMAIN group_result
  BY <1>1, <1>3 DEF Past
<1>8. Past'[n] = x
  BY <1>2, <1>5, <1>6 DEF IsPut
<1>9. ASSUME NEW j \in 1 .. n - 1 PROVE Past'[j] = Past[j]
  <2>1. Past'[j] = group_result'[order[j]]
    BY <1>2, <1>6
  <2> QED  BY <1>5, <1>7, <2>1 DEF IsPut
<1> QED  BY <1>1, <1>8, <1>9

LEMMA InitGradeInv == Init => GradeInv
<1> SUFFICES ASSUME Init PROVE GradeInv
  OBVIOUS
<1>1. /\ phase = "update" /\ turn = 1 /\ at = 1 /\ skip = FALSE
      /\ test_result = <<>> /\ group_result = <<>>
  BY DEF Init
<1>2. DOMAIN test_result = {}
  BY <1>1
<1>3. phase \notin {"topo", "exited", "grading", "group", "done"}
  BY <1>1
<1>4. turn \in Nat \ {0} /\ at \in Nat \ {0} /\ skip \in BOOLEAN
  <2>1. turn = 1 /\ at = 1
    BY <1>1
  <2>2. skip \in BOOLEAN
    BY <1>1, Zenon
  <2> QED  BY <2>1, <2>2
<1> QED  BY <1>1, <1>2, <1>3, <1>4 DEF GradeInv

LEMMA NothingGraded ==
  ASSUME NEW L, NEW q, NEW o, NEW N, NEW bits
  PROVE  /\ DecidedIn(o, 1 - 1, <<>>, N, bits) /\ GradedIn(L, q, 1 - 1, <<>>, bits)
         /\ SkippedBehind(L, <<>>, bits) /\ Before(L, q, 1) = {}
<1>1. DOMAIN <<>> = {} /\ 1 .. 1 - 1 = {}
  OBVIOUS
<1> QED  BY <1>1 DEF DecidedIn, GradedIn, SkippedBehind, Before

LEMMA SearchGradeInv ==
  ASSUME SearchInv, SearchInv', GradeInv,
         UpdateFile \/ StartGrading \/ VisitRoot \/ VisitDependency \/ LeaveGroup \/ EndSearch
  PROVE  GradeInv'
<1>1. /\ phase \in {"update", "topo"}
      /\ phase' \in {"update", "topo", "exited", "grading"}
      /\ UNCHANGED <<turn, at, skip, worst, test_result, group_result>>
  BY DEF UpdateFile, StartGrading, VisitRoot, VisitDependency, LeaveGroup, EndSearch, grading
<1>2. turn = 1 /\ test_result = <<>> /\ group_result = <<>> /\ DOMAIN <<>> = {}
  BY <1>1 DEF GradeInv
<1>3. CASE phase' \in {"update", "topo", "exited"}
  BY <1>1, <1>2, <1>3 DEF GradeInv
<1>4. CASE phase' = "grading"
  <2>1. /\ DecidedIn(order', turn' - 1, group_result', Needs', policy')
        /\ GradedIn(Lists', Past', turn' - 1, test_result', policy')
        /\ SkippedBehind(Lists', test_result', policy')
        /\ DOMAIN test_result' = Before(Lists', Past', turn')
    BY <1>1, <1>2, NothingGraded
  <2>2. turn' <= Len(order') + 1
    BY <1>1, <1>2 DEF SearchInv, SearchType
  <2> QED  BY <1>1, <1>2, <1>4, <2>1, <2>2 DEF GradeInv
<1> QED  BY <1>1, <1>3, <1>4

LEMMA StartGroupGradeInv ==
  ASSUME MergeInv, SearchInv, GradeInv, StartGroup
  PROVE  GradeInv'
<1>1. /\ phase = "grading" /\ turn <= Len(order)
      /\ UNCHANGED <<config, order, test_result>>
  BY DEF StartGroup, merging, search
<1>2. Lists' = Lists /\ Needs' = Needs /\ policy' = policy
  BY <1>1, GradingUnchanged
<1>3. /\ turn \in Nat \ {0} /\ turn \in 1 .. Len(order) /\ Len(order) \in Nat
      /\ DecidedIn(order, turn - 1, group_result, Needs, policy)
      /\ GradedIn(Lists, Past, turn - 1, test_result, policy)
      /\ SkippedBehind(Lists, test_result, policy)
      /\ DOMAIN test_result = Before(Lists, Past, turn)
      /\ DOMAIN test_result \subseteq Nat /\ \A t \in DOMAIN test_result : test_result[t] \in GRADE_STATUS
  <2>1. Len(order) \in Nat
    BY <1>1, Ordered
  <2> QED  BY <1>1, <2>1 DEF GradeInv
<1>4. Needs[turn] = DepsIn(order[turn])
  BY <1>3 DEF Needs
<1>5. CASE "SKIP_GROUP" \in policy /\ DependencyFailed(order[turn])
  <2>1. /\ group_result' = Put(group_result, order[turn], "SKIP") /\ turn' = turn + 1
        /\ UNCHANGED <<phase, at, skip, worst>>
    BY <1>5 DEF StartGroup
  <2>2. (\A j \in 1 .. turn - 1 : Past'[j] = Past[j]) /\ Past'[turn] = "SKIP"
    BY <1>1, <2>1, PastNext
  <2>3. Before(Lists, Past', turn + 1) = Before(Lists, Past, turn)
    <3>1. NextBefore(Lists, Past, turn, Past')
      BY <1>3, <2>2, BeforeNext
    <3> QED  BY <2>2, <3>1 DEF NextBefore
  <2>4. GradedIn(Lists, Past', turn, test_result, policy)
    BY <1>3, <2>2, GradedNext
  <2>5. \E d \in Needs[turn] : group_result[d] # "OK"
    BY <1>4, <1>5 DEF DependencyFailed
  <2>6. DecidedIn(order, turn, group_result', Needs, policy)
    <3>1. /\ \A i \in 1 .. turn : \A d \in Needs[i] : \E j \in 1 .. i - 1 : order[j] = d
          /\ \A i, j \in 1 .. turn : order[i] = order[j] => i = j
      <4>1. 1 .. turn \subseteq 1 .. Len(order)
        BY <1>3
      <4> QED  BY <1>1, <4>1, Ordered
    <3>2. DecidedIn(order, turn, Put(group_result, order[turn], "SKIP"), Needs, policy)
      BY <1>3, <1>5, <2>5, <3>1, DecidedNext
    <3> QED  BY <2>1, <3>2
  <2>7. turn' - 1 = turn /\ turn' \in Nat \ {0} /\ turn' <= Len(order) + 1
    BY <1>3, <2>1
  <2>8. at \in Nat \ {0} /\ skip \in BOOLEAN
    BY DEF GradeInv
  <2> QED  BY <1>1, <1>2, <1>3, <2>1, <2>3, <2>4, <2>6, <2>7, <2>8 DEF GradeInv
<1>6. CASE ~("SKIP_GROUP" \in policy /\ DependencyFailed(order[turn]))
  <2>1. /\ phase' = "group" /\ at' = 1 /\ skip' = FALSE /\ worst' = "OK"
        /\ UNCHANGED <<turn, group_result>>
    BY <1>6 DEF StartGroup
  <2>2. Past' = Past
    BY <1>1, <2>1, PastUnchanged
  <2>3. "SKIP_GROUP" \in policy => \A d \in Needs[turn] : group_result[d] = "OK"
    BY <1>4, <1>6 DEF DependencyFailed
  <2>4. Lists[turn] \in Seq(Nat)
    BY <1>1, <1>3, Ordered
  <2>5. First(Lists[turn], 0) = {} /\ 1 .. 0 = {}
    BY DEF First
  <2>6. GradedSoFar(Lists[turn], Before(Lists, Past, turn), 0, test_result, "OK", policy)
    BY <2>5, Statuses DEF GradedSoFar
  <2>7. SkipMeans(Lists[turn], Before(Lists, Past, turn), 0, test_result, FALSE, policy)
    BY <2>5 DEF SkipMeans
  <2>8. at' - 1 = 0 /\ at' <= Len(Lists[turn]) + 1 /\ at' \in Nat \ {0}
    BY <2>1, <2>4
  <2>9. skip' \in BOOLEAN
    BY <2>1, Zenon
  <2>10. SkipMeans(Lists[turn], Before(Lists, Past, turn), at' - 1, test_result, skip', policy)
    BY <2>1, <2>7, <2>8
  <2>11. GradedSoFar(Lists[turn], Before(Lists, Past, turn), at' - 1, test_result, worst', policy)
    BY <2>1, <2>6, <2>8
  <2>12. DOMAIN test_result = Before(Lists, Past, turn) \cup First(Lists[turn], at' - 1)
    BY <1>3, <2>5, <2>8
  <2>13. turn <= Len(order) + 1
    BY <1>3
  <2> QED  BY <1>1, <1>2, <1>3, <2>1, <2>2, <2>3, <2>8, <2>9, <2>10, <2>11, <2>12, <2>13
           DEF GradeInv
<1> QED  BY <1>5, <1>6

(* What holds before any step inside a group.                              *)
LEMMA InGroup ==
  ASSUME MergeInv, SearchInv, GradeInv, phase = "group"
  PROVE  /\ turn \in 1 .. Len(order) /\ Lists[turn] = TestsIn(order[turn])
         /\ turn \in Nat \ {0} /\ Lists[turn] \in Seq(Nat) /\ turn \in DOMAIN Lists
         /\ Len(Lists[turn]) \in Nat /\ at \in Nat \ {0} /\ at <= Len(Lists[turn]) + 1
         /\ at - 1 \in Nat /\ (at - 1) + 1 = at /\ (at + 1) - 1 = at
<1>1. Len(order) \in Nat
  BY Ordered
<1>2. turn \in 1 .. Len(order) /\ turn \in Nat \ {0} /\ at \in Nat \ {0}
      /\ at <= Len(Lists[turn]) + 1
  BY <1>1 DEF GradeInv
<1>3. Lists[turn] = TestsIn(order[turn]) /\ turn \in DOMAIN Lists
  BY <1>2 DEF Lists
<1>4. Lists[turn] \in Seq(Nat)
  BY <1>2, Ordered
<1>5. at - 1 \in Nat /\ (at - 1) + 1 = at /\ (at + 1) - 1 = at
  BY <1>2
<1> QED  BY <1>2, <1>3, <1>4, <1>5

LEMMA PassOverGradeInv ==
  ASSUME MergeInv, SearchInv, GradeInv, PassOver
  PROVE  GradeInv'
<1>1. /\ phase = "group" /\ phase' = phase /\ at' = at + 1
      /\ UNCHANGED <<config, order, turn, skip, worst, test_result, group_result>>
      /\ at <= Len(TestsIn(order[turn])) /\ TestsIn(order[turn])[at] \in DOMAIN test_result
  BY DEF PassOver, merging, search, CurrentTest
<1>2. Lists' = Lists /\ Needs' = Needs /\ policy' = policy /\ Past' = Past
  BY <1>1, GradingUnchanged, PastUnchanged
<1>3. /\ Lists[turn] = TestsIn(order[turn]) /\ at \in Nat \ {0} /\ Len(Lists[turn]) \in Nat
      /\ at - 1 \in Nat /\ (at - 1) + 1 = at /\ (at + 1) - 1 = at
  BY <1>1, InGroup
<1>4. /\ DOMAIN test_result = Before(Lists, Past, turn) \cup First(Lists[turn], at - 1)
      /\ GradedSoFar(Lists[turn], Before(Lists, Past, turn), at - 1, test_result, worst, policy)
      /\ SkipMeans(Lists[turn], Before(Lists, Past, turn), at - 1, test_result, skip, policy)
  BY <1>1 DEF GradeInv
<1>5. Lists[turn][(at - 1) + 1] \in DOMAIN test_result
  BY <1>1, <1>3
<1>6. /\ GradedSoFar(Lists[turn], Before(Lists, Past, turn), (at - 1) + 1, test_result, worst, policy)
      /\ SkipMeans(Lists[turn], Before(Lists, Past, turn), (at - 1) + 1, test_result, skip, policy)
      /\ DOMAIN test_result = Before(Lists, Past, turn) \cup First(Lists[turn], (at - 1) + 1)
  BY <1>3, <1>4, <1>5, SoFarPassed
<1>7. /\ at' - 1 = (at - 1) + 1 /\ at' \in Nat \ {0} /\ at' <= Len(Lists[turn]) + 1
  BY <1>1, <1>3
<1> QED  BY <1>1, <1>2, <1>6, <1>7 DEF GradeInv

LEMMA GradeTestGradeInv ==
  ASSUME MergeInv, SearchInv, GradeInv, GradeTest
  PROVE  GradeInv'
<1>1. /\ phase = "group" /\ phase' = phase /\ at' = at + 1
      /\ UNCHANGED <<config, order, turn, group_result>>
      /\ at <= Len(TestsIn(order[turn])) /\ TestsIn(order[turn])[at] \notin DOMAIN test_result
  BY DEF GradeTest, merging, search, CurrentTest
<1>2. PICK verdict \in Outcomes :
        /\ test_result' = Put(test_result, TestsIn(order[turn])[at], verdict)
        /\ skip' = (skip \/ ("SKIP_TEST" \in policy /\ verdict # "OK"))
        /\ worst' = Worse(worst, verdict)
  BY DEF GradeTest, CurrentTest
<1>3. Lists' = Lists /\ Needs' = Needs /\ policy' = policy /\ Past' = Past
  BY <1>1, GradingUnchanged, PastUnchanged
<1>4. /\ Lists[turn] = TestsIn(order[turn]) /\ at \in Nat \ {0} /\ Len(Lists[turn]) \in Nat
      /\ Lists[turn] \in Seq(Nat) /\ turn \in DOMAIN Lists /\ turn \in Nat \ {0}
      /\ turn \in 1 .. Len(order) /\ at - 1 \in Nat /\ (at - 1) + 1 = at /\ (at + 1) - 1 = at
  BY <1>1, InGroup
<1>5. /\ DOMAIN test_result = Before(Lists, Past, turn) \cup First(Lists[turn], at - 1)
      /\ GradedSoFar(Lists[turn], Before(Lists, Past, turn), at - 1, test_result, worst, policy)
      /\ SkipMeans(Lists[turn], Before(Lists, Past, turn), at - 1, test_result, skip, policy)
      /\ GradedIn(Lists, Past, turn - 1, test_result, policy)
      /\ SkippedBehind(Lists, test_result, policy)
      /\ DOMAIN test_result \subseteq Nat /\ skip \in BOOLEAN
      /\ \A t \in DOMAIN test_result : test_result[t] \in GRADE_STATUS
  BY <1>1 DEF GradeInv
<1>6. verdict \in GRADE_STATUS /\ (skip <=> verdict = "SKIP")
  <2>1. "SYSTEM_ERROR" \in GRADE_STATUS /\ "SKIP" \in GRADE_STATUS
    BY Statuses
  <2>2. CASE skip
    BY <2>1, <2>2 DEF Outcomes
  <2>3. CASE ~skip
    BY <2>1, <2>3, VerdictsAssumption DEF Outcomes
  <2> QED  BY <2>2, <2>3
<1> DEFINE t == Lists[turn][(at - 1) + 1]
<1>7. t \notin DOMAIN test_result /\ t \in Nat /\ test_result' = Put(test_result, t, verdict)
  BY <1>1, <1>2, <1>4
<1>8. /\ GradedSoFar(Lists[turn], Before(Lists, Past, turn), (at - 1) + 1, test_result', worst', policy)
      /\ SkipMeans(Lists[turn], Before(Lists, Past, turn), (at - 1) + 1, test_result', skip', policy)
      /\ DOMAIN test_result' = Before(Lists, Past, turn) \cup First(Lists[turn], (at - 1) + 1)
  <2>1. t = Lists[turn][(at - 1) + 1] /\ t \notin DOMAIN test_result
    BY <1>7
  <2> HIDE DEF t
  <2>2. skip' \in BOOLEAN /\ (skip' <=> skip \/ ("SKIP_TEST" \in policy /\ verdict # "OK"))
    BY <1>2, <1>5, Zenon
  <2>3. SoFar(Lists[turn], Before(Lists, Past, turn), at - 1, test_result, worst, skip, policy)
    BY <1>5 DEF SoFar
  <2>4. SoFar(Lists[turn], Before(Lists, Past, turn), (at - 1) + 1,
              Put(test_result, t, verdict), Worse(worst, verdict), skip', policy)
    BY <1>4, <1>5, <1>6, <2>1, <2>2, <2>3, SoFarAdded
  <2> QED  BY <1>2, <1>7, <2>4 DEF SoFar
<1>9. GradedIn(Lists, Past, turn - 1, test_result', policy)
  <2>1. turn - 1 \in Nat /\ 1 .. turn - 1 \subseteq 1 .. Len(order)
    BY <1>4
  <2>2. \A i \in 1 .. turn - 1 : Len(Lists[i]) \in Nat
    BY <1>1, <2>1, Ordered
  <2> HIDE DEF t
  <2> QED  BY <1>5, <1>7, <2>1, <2>2, GradedInKept
<1>10. SkippedBehind(Lists, test_result', policy)
  <2>1. verdict = "SKIP" =>
          /\ "SKIP_TEST" \in policy
          /\ \E x \in 1 .. at - 1 : /\ Lists[turn][x] \in DOMAIN test_result
                                    /\ test_result[Lists[turn][x]] \notin {"OK", "SKIP"}
    BY <1>5, <1>6 DEF SkipMeans
  <2>2. (at - 1) + 1 <= Len(Lists[turn])
    BY <1>1, <1>4
  <2> QED  BY <1>4, <1>5, <1>7, <2>1, <2>2, BehindAdded
<1>11. /\ DOMAIN test_result' \subseteq Nat
       /\ \A u \in DOMAIN test_result' : test_result'[u] \in GRADE_STATUS
  <2>1. IsPut(test_result, t, verdict, test_result')
    BY <1>7, PutKeeps
  <2> HIDE DEF t
  <2> QED  BY <1>5, <1>6, <1>7, <2>1 DEF IsPut
<1>12. at' - 1 = (at - 1) + 1 /\ at' \in Nat \ {0} /\ at' <= Len(Lists[turn]) + 1
  BY <1>1, <1>4
<1>13. skip' \in BOOLEAN
  BY <1>2, <1>5, Zenon
<1> QED  BY <1>1, <1>3, <1>8, <1>9, <1>10, <1>11, <1>12, <1>13 DEF GradeInv

LEMMA EndGroupGradeInv ==
  ASSUME MergeInv, SearchInv, GradeInv, EndGroup
  PROVE  GradeInv'
<1>1. /\ phase = "group" /\ phase' = "grading" /\ turn' = turn + 1
      /\ group_result' = Put(group_result, order[turn], worst)
      /\ UNCHANGED <<config, order, at, skip, worst, test_result>>
      /\ at > Len(TestsIn(order[turn]))
  BY DEF EndGroup, merging, search
<1>2. Lists' = Lists /\ Needs' = Needs /\ policy' = policy
  BY <1>1, GradingUnchanged
<1>3. /\ Lists[turn] = TestsIn(order[turn]) /\ at \in Nat \ {0} /\ Len(Lists[turn]) \in Nat
      /\ Lists[turn] \in Seq(Nat) /\ turn \in Nat \ {0} /\ at <= Len(Lists[turn]) + 1
      /\ turn \in 1 .. Len(order)
  BY <1>1, InGroup
<1>4. at - 1 = Len(Lists[turn])
  BY <1>1, <1>3
<1>5. /\ DOMAIN test_result = Before(Lists, Past, turn) \cup First(Lists[turn], Len(Lists[turn]))
      /\ GradedSoFar(Lists[turn], Before(Lists, Past, turn), Len(Lists[turn]), test_result,
                     worst, policy)
      /\ GradedIn(Lists, Past, turn - 1, test_result, policy)
      /\ SkippedBehind(Lists, test_result, policy)
      /\ DecidedIn(order, turn - 1, group_result, Needs, policy)
      /\ "SKIP_GROUP" \in policy => \A d \in Needs[turn] : group_result[d] = "OK"
  BY <1>1, <1>4 DEF GradeInv
<1>6. worst # "SKIP"
  BY <1>5 DEF GradedSoFar
<1>7. (\A j \in 1 .. turn - 1 : Past'[j] = Past[j]) /\ Past'[turn] = worst
  BY <1>1, <1>3, PastNext
<1>8. Before(Lists, Past', turn + 1) = Before(Lists, Past, turn) \cup Range(Lists[turn])
  <2>1. NextBefore(Lists, Past, turn, Past')
    BY <1>3, <1>7, BeforeNext
  <2> QED  BY <1>6, <1>7, <2>1 DEF NextBefore
<1>9. First(Lists[turn], Len(Lists[turn])) = Range(Lists[turn])
  <2>1. DOMAIN Lists[turn] = 1 .. Len(Lists[turn])
    BY <1>3
  <2> QED  BY <2>1 DEF First, Range
<1>10. GradedIn(Lists, Past', turn, test_result, policy)
  BY <1>3, <1>5, <1>7, GradedNext
<1>11. DecidedIn(order, turn, group_result', Needs, policy)
  <2>1. /\ \A i \in 1 .. turn : \A d \in Needs[i] : \E j \in 1 .. i - 1 : order[j] = d
        /\ \A i, j \in 1 .. turn : order[i] = order[j] => i = j
    <3>1. 1 .. turn \subseteq 1 .. Len(order)
      BY <1>3
    <3> QED  BY <1>1, <3>1, Ordered
  <2>2. DecidedIn(order, turn, Put(group_result, order[turn], worst), Needs, policy)
    BY <1>3, <1>5, <1>6, <2>1, DecidedNext
  <2> QED  BY <1>1, <2>2
<1>12. turn' - 1 = turn /\ turn' \in Nat \ {0} /\ turn' <= Len(order) + 1
  BY <1>1, <1>3
<1>13. /\ skip \in BOOLEAN /\ DOMAIN test_result \subseteq Nat
       /\ \A t \in DOMAIN test_result : test_result[t] \in GRADE_STATUS
  BY DEF GradeInv
<1> QED  BY <1>1, <1>2, <1>3, <1>5, <1>8, <1>9, <1>10, <1>11, <1>12, <1>13 DEF GradeInv

LEMMA NextGradeInv ==
  MergeInv /\ SearchInv /\ SearchInv' /\ GradeInv /\ [Next]_vars => GradeInv'
<1> SUFFICES ASSUME MergeInv, SearchInv, SearchInv', GradeInv, [Next]_vars PROVE GradeInv'
  OBVIOUS
<1>1. CASE UpdateFile \/ StartGrading \/ VisitRoot \/ VisitDependency \/ LeaveGroup \/ EndSearch
  BY <1>1, SearchGradeInv
<1>2. CASE StartGroup
  BY <1>2, StartGroupGradeInv
<1>3. CASE PassOver
  BY <1>3, PassOverGradeInv
<1>4. CASE GradeTest
  BY <1>4, GradeTestGradeInv
<1>5. CASE EndGroup
  BY <1>5, EndGroupGradeInv
<1>6. CASE Finish \/ UNCHANGED vars
  <2>1. /\ UNCHANGED <<config, order, turn, at, skip, worst, test_result, group_result>>
        /\ \/ phase' = phase
           \/ phase = "grading" /\ turn > Len(order) /\ phase' = "done"
    BY <1>6 DEF Finish, vars, merging, search, grading
  <2>2. Lists' = Lists /\ Needs' = Needs /\ policy' = policy /\ Past' = Past
    BY <2>1, GradingUnchanged, PastUnchanged
  <2>3. CASE phase' = phase
    BY <2>1, <2>2, <2>3 DEF GradeInv
  <2>4. CASE phase = "grading" /\ turn > Len(order) /\ phase' = "done"
    <3>1. turn = Len(order) + 1
      <4>1. Len(order) \in Nat
        BY <2>4, Ordered
      <4> QED  BY <2>4, <4>1 DEF GradeInv
    <3> QED  BY <2>1, <2>2, <2>4, <3>1 DEF GradeInv
  <2> QED  BY <2>1, <2>3, <2>4
<1> QED  BY <1>1, <1>2, <1>3, <1>4, <1>5, <1>6 DEF Next

LEMMA AlwaysGradeInv == Spec => [](MergeInv /\ SearchInv /\ GradeInv)
<1>1. Init => GradeInv
  BY InitGradeInv
<1>2. MergeInv /\ SearchInv /\ SearchInv' /\ GradeInv /\ [Next]_vars => GradeInv'
  BY NextGradeInv
<1> QED  BY <1>1, <1>2, AlwaysSearchInv, PTL DEF Spec

(* What the invariants say of a finished grading, group by group.          *)
OwnIn(i) == First(Lists[i], Len(Lists[i])) \ Before(Lists, Past, i)

LEMMA AtTheEnd ==
  ASSUME MergeInv, SearchInv, GradeInv, phase = "done", NEW i \in DOMAIN order
  PROVE  /\ i \in 1 .. Len(order) /\ Lists[i] = TestsIn(order[i]) /\ Lists[i] \in Seq(Nat)
         /\ Past[i] = group_result[order[i]] /\ OwnTests(i) = OwnIn(i)
         /\ group_result[order[i]] # "SKIP" =>
              GradedSoFar(Lists[i], Before(Lists, Past, i), Len(Lists[i]), test_result,
                          group_result[order[i]], policy)
<1>1. /\ i \in 1 .. Len(order) /\ Len(order) \in Nat /\ turn = Len(order) + 1
  BY Ordered DEF GradeInv
<1>2. 1 .. turn - 1 = 1 .. Len(order) /\ turn - 1 = Len(order)
  BY <1>1
<1>3. /\ \A j \in 1 .. Len(order) : Past[j] = group_result[order[j]]
      /\ \A j \in 1 .. Len(order) : Lists[j] = TestsIn(order[j])
  BY <1>2 DEF Past, Lists
<1>4. Lists[i] \in Seq(Nat)
  BY <1>1, Ordered
<1>5. OwnTests(i) = OwnIn(i)
  <2>1. First(Lists[i], Len(Lists[i])) = Range(Lists[i])
    <3>1. DOMAIN Lists[i] = 1 .. Len(Lists[i])
      BY <1>4
    <3> QED  BY <3>1 DEF First, Range
  <2>2. \A j \in 1 .. i - 1 : Past[j] = group_result[order[j]] /\ Lists[j] = TestsIn(order[j])
    BY <1>1, <1>3
  <2>3. ASSUME NEW t
        PROVE  t \in Before(Lists, Past, i)
                 <=> \E j \in 1 .. i - 1 : /\ t \in Range(TestsIn(order[j]))
                                           /\ group_result[order[j]] # "SKIP"
    BY <2>2 DEF Before
  <2> QED  BY <1>1, <1>3, <2>1, <2>3 DEF OwnTests, OwnIn
<1>6. ASSUME group_result[order[i]] # "SKIP"
      PROVE  GradedSoFar(Lists[i], Before(Lists, Past, i), Len(Lists[i]), test_result,
                         group_result[order[i]], policy)
  <2>1. GradedIn(Lists, Past, Len(order), test_result, policy)
    BY <1>2 DEF GradeInv
  <2> QED  BY <1>1, <1>3, <1>6, <2>1 DEF GradedIn
<1> QED  BY <1>1, <1>3, <1>4, <1>5, <1>6

(* Whenever a group's turn comes, each group it depends on has a result    *)
(* already: the value() of an optional in grade never throws, on whatever  *)
(* files, tests and policy (submission_config.cpp:123-129).                *)
DependenciesDecided ==
  (phase = "grading" /\ turn <= Len(order)) => DepsIn(order[turn]) \subseteq DOMAIN group_result

THEOREM DependenciesAreDecided == Spec => []DependenciesDecided
<1>1. MergeInv /\ SearchInv /\ GradeInv => DependenciesDecided
  <2> SUFFICES ASSUME MergeInv, SearchInv, GradeInv, phase = "grading", turn <= Len(order),
                      NEW d \in DepsIn(order[turn])
               PROVE  d \in DOMAIN group_result
    BY DEF DependenciesDecided
  <2>1. turn \in 1 .. Len(order)
    BY Ordered DEF GradeInv
  <2>2. d \in Needs[turn]
    BY <2>1 DEF Needs
  <2>3. PICK j \in 1 .. turn - 1 : order[j] = d
    BY <2>1, <2>2, Ordered
  <2>4. DOMAIN group_result = {order[i] : i \in 1 .. turn - 1}
    BY DEF GradeInv, DecidedIn
  <2> QED  BY <2>3, <2>4
<1> QED  BY <1>1, AlwaysGradeInv, PTL

(* A graded group's result is the worst of its own tests, OK if it has     *)
(* none, whatever the lists that overlap, the policy and the verdicts      *)
(* (submission_config.cpp:85-101, run.cpp:37-41).                          *)
THEOREM ResultIsWorst == Spec => []GroupIsWorstOfOwnTests
<1>1. MergeInv /\ SearchInv /\ GradeInv => GroupIsWorstOfOwnTests
  <2> SUFFICES ASSUME MergeInv, SearchInv, GradeInv, phase = "done", NEW i \in DOMAIN order,
                      group_result[order[i]] # "SKIP"
               PROVE  /\ \A t \in OwnTests(i) : Rank(test_result[t]) <= Rank(group_result[order[i]])
                      /\ \/ group_result[order[i]] = "OK"
                         \/ \E t \in OwnTests(i) : test_result[t] = group_result[order[i]]
    BY DEF GroupIsWorstOfOwnTests
  <2>1. /\ GradedSoFar(Lists[i], Before(Lists, Past, i), Len(Lists[i]), test_result,
                       group_result[order[i]], policy)
        /\ OwnTests(i) = First(Lists[i], Len(Lists[i])) \ Before(Lists, Past, i)
    BY AtTheEnd DEF OwnIn
  <2> QED  BY <2>1 DEF GradedSoFar
<1> QED  BY <1>1, AlwaysGradeInv, PTL

(* Under SKIP_GROUP a group is skipped exactly behind a dependency that    *)
(* failed or was skipped (submission_config.cpp:125-133).                  *)
THEOREM SkippedBehindDependency == Spec => []SkippedIffDependencyFailed
<1>1. MergeInv /\ SearchInv /\ GradeInv => SkippedIffDependencyFailed
  <2> SUFFICES ASSUME MergeInv, SearchInv, GradeInv, phase = "done", "SKIP_GROUP" \in policy,
                      NEW g \in Group
               PROVE  group_result[g] = "SKIP" <=> \E d \in Range(deps[g]) : group_result[d] # "OK"
    BY DEF SkippedIffDependencyFailed
  <2>1. PICK i \in 1 .. Len(order) : order[i] = g /\ Needs[i] = Range(deps[g])
    BY Ordered
  <2>2. DecidedIn(order, Len(order), group_result, Needs, policy)
    <3>1. turn = Len(order) + 1 /\ Len(order) \in Nat
      BY Ordered DEF GradeInv
    <3>2. turn - 1 = Len(order)
      BY <3>1
    <3> QED  BY <3>2 DEF GradeInv
  <2> QED  BY <2>1, <2>2 DEF DecidedIn
<1> QED  BY <1>1, AlwaysGradeInv, PTL

(* Under SKIP_TEST nothing of a group is run after its first own test that *)
(* is not OK (submission_config.cpp:94-95).                                *)
THEOREM NothingIsRunAfterFailure == Spec => []NothingRunAfterFailure
<1>1. MergeInv /\ SearchInv /\ GradeInv => NothingRunAfterFailure
  <2> SUFFICES ASSUME MergeInv, SearchInv, GradeInv, phase = "done", "SKIP_TEST" \in policy,
                      NEW i \in DOMAIN order,
                      NEW m \in DOMAIN TestsIn(order[i]), NEW n \in DOMAIN TestsIn(order[i]), m < n,
                      {TestsIn(order[i])[m], TestsIn(order[i])[n]} \subseteq OwnTests(i),
                      group_result[order[i]] # "SKIP",
                      \A k \in 1 .. n - 1 : TestsIn(order[i])[k] # TestsIn(order[i])[n],
                      test_result[TestsIn(order[i])[m]] # "OK"
               PROVE  test_result[TestsIn(order[i])[n]] = "SKIP"
    BY DEF NothingRunAfterFailure
  <2>1. /\ GradedSoFar(Lists[i], Before(Lists, Past, i), Len(Lists[i]), test_result,
                       group_result[order[i]], policy)
        /\ OwnTests(i) = First(Lists[i], Len(Lists[i])) \ Before(Lists, Past, i)
        /\ Lists[i] = TestsIn(order[i]) /\ Lists[i] \in Seq(Nat)
    BY AtTheEnd DEF OwnIn
  <2>2. m \in 1 .. Len(Lists[i]) /\ n \in 1 .. Len(Lists[i])
    BY <2>1
  <2>3. Lists[i][m] \notin Before(Lists, Past, i) /\ Lists[i][n] \notin Before(Lists, Past, i)
    BY <2>1
  <2> QED  BY <2>1, <2>2, <2>3 DEF GradedSoFar
<1> QED  BY <1>1, AlwaysGradeInv, PTL

(* Every group is reported, in the order of the configuration, and SKIP in *)
(* the report is a decision of the policy: nothing is missing from the     *)
(* results (test_result.cpp:7-19, submission_config.cpp:94-97, 131).       *)
THEOREM NothingIsUnreported == Spec => []ReportIsComplete
<1>1. MergeInv /\ SearchInv /\ GradeInv => ReportIsComplete
  <2> SUFFICES ASSUME MergeInv, SearchInv, GradeInv, phase = "done", Group # {}
               PROVE  /\ [i \in DOMAIN Report |-> Report[i].group] = config.group_order
                      /\ \A i \in DOMAIN Report :
                           /\ Report[i].result = "SKIP" => "SKIP_GROUP" \in policy
                           /\ \A n \in DOMAIN Report[i].tests : Report[i].tests[n][2] = "SKIP" =>
                                /\ "SKIP_TEST" \in policy
                                /\ \E g \in Group : \E m, k \in DOMAIN tests[g] :
                                     /\ m < k /\ tests[g][k] = Report[i].tests[n][1]
                                     /\ test_result[tests[g][m]] \notin {"OK", "SKIP"}
    BY DEF ReportIsComplete
  <2> DEFINE told(t) == IF t \in DOMAIN test_result THEN test_result[t] ELSE "SKIP"
             result(g) == IF g \in DOMAIN group_result THEN group_result[g] ELSE "SKIP"
             lines(g) == IF result(g) = "SKIP" THEN <<>> ELSE
                           [i \in DOMAIN tests[g] |-> <<tests[g][i], told(tests[g][i])>>]
  <2>1. /\ config.group_order \in Seq(Group) /\ tests \in [Group -> Seq(Nat)]
    BY MergedGroups
  <2>2. /\ DOMAIN Report = DOMAIN config.group_order
        /\ \A i \in DOMAIN Report :
             /\ Report[i].group = config.group_order[i]
             /\ Report[i].result = result(config.group_order[i])
             /\ Report[i].tests = lines(config.group_order[i])
    BY DEF Report, Lines
  <2> HIDE DEF told, result, lines
  <2>3. [i \in DOMAIN Report |-> Report[i].group] = config.group_order
    <3>1. config.group_order = [i \in DOMAIN config.group_order |-> config.group_order[i]]
      BY <2>1
    <3> QED  BY <2>2, <3>1
  <2>4. DecidedIn(order, Len(order), group_result, Needs, policy) /\ Len(order) \in Nat
    <3>1. turn = Len(order) + 1 /\ Len(order) \in Nat
      BY Ordered DEF GradeInv
    <3>2. turn - 1 = Len(order)
      BY <3>1
    <3> QED  BY <3>1, <3>2 DEF GradeInv
  <2>5. ASSUME NEW g \in Group
        PROVE  \E i \in 1 .. Len(order) : /\ order[i] = g /\ Lists[i] = tests[g]
                                          /\ g \in DOMAIN group_result
    BY <2>4, Ordered DEF DecidedIn
  <2>6. ASSUME NEW g \in Group, result(g) = "SKIP" PROVE "SKIP_GROUP" \in policy
    <3>1. PICK i \in 1 .. Len(order) : order[i] = g /\ g \in DOMAIN group_result
      BY <2>5
    <3> QED  BY <2>4, <2>6, <3>1 DEF DecidedIn, result
  <2>7. ASSUME NEW g \in Group, result(g) # "SKIP", NEW n \in DOMAIN tests[g]
        PROVE  tests[g][n] \in DOMAIN test_result
    <3>1. PICK i \in 1 .. Len(order) : order[i] = g /\ Lists[i] = tests[g] /\ g \in DOMAIN group_result
      BY <2>5
    <3>2. i \in DOMAIN order /\ group_result[order[i]] # "SKIP"
      BY <2>7, <3>1, Ordered DEF result
    <3>3. First(tests[g], Len(tests[g])) \subseteq DOMAIN test_result
      BY <3>1, <3>2, AtTheEnd DEF GradedSoFar
    <3>4. n \in 1 .. Len(tests[g])
      BY <2>1
    <3> QED  BY <3>3, <3>4 DEF First
  <2>8. ASSUME NEW t \in DOMAIN test_result, test_result[t] = "SKIP"
        PROVE  /\ "SKIP_TEST" \in policy
               /\ \E g \in Group : \E m, k \in DOMAIN tests[g] :
                    m < k /\ tests[g][k] = t /\ test_result[tests[g][m]] \notin {"OK", "SKIP"}
    <3>1. SkippedBehind(Lists, test_result, policy)
      BY DEF GradeInv
    <3>2. /\ "SKIP_TEST" \in policy
          /\ \E i \in DOMAIN Lists : \E m, k \in 1 .. Len(Lists[i]) :
               /\ m < k /\ Lists[i][k] = t /\ Lists[i][m] \in DOMAIN test_result
               /\ test_result[Lists[i][m]] \notin {"OK", "SKIP"}
      BY <2>8, <3>1 DEF SkippedBehind
    <3>3. PICK i \in DOMAIN Lists : \E m, k \in 1 .. Len(Lists[i]) :
            m < k /\ Lists[i][k] = t /\ test_result[Lists[i][m]] \notin {"OK", "SKIP"}
      BY <3>2
    <3>4. i \in 1 .. Len(order)
      BY DEF Lists
    <3>5. order[i] \in Group /\ Lists[i] = tests[order[i]]
      BY <3>4, Ordered
    <3>6. DOMAIN tests[order[i]] = 1 .. Len(tests[order[i]])
      BY <2>1, <3>5
    <3> QED  BY <3>2, <3>3, <3>5, <3>6
  <2>9. ASSUME NEW i \in DOMAIN Report
        PROVE  Report[i].result = "SKIP" => "SKIP_GROUP" \in policy
    <3>1. config.group_order[i] \in Group
      BY <2>1, <2>2
    <3> QED  BY <2>2, <2>6, <3>1
  <2>10. ASSUME NEW i \in DOMAIN Report, NEW n \in DOMAIN Report[i].tests,
                Report[i].tests[n][2] = "SKIP"
         PROVE  /\ "SKIP_TEST" \in policy
                /\ \E g \in Group : \E m, k \in DOMAIN tests[g] :
                     /\ m < k /\ tests[g][k] = Report[i].tests[n][1]
                     /\ test_result[tests[g][m]] \notin {"OK", "SKIP"}
    <3>1. PICK h \in Group : h = config.group_order[i] /\ Report[i].tests = lines(h)
      BY <2>1, <2>2
    <3>2. /\ result(h) # "SKIP" /\ n \in DOMAIN tests[h]
          /\ Report[i].tests[n] = <<tests[h][n], told(tests[h][n])>>
      <4>1. DOMAIN <<>> = {}
        OBVIOUS
      <4>2. result(h) # "SKIP"
        BY <2>10, <3>1, <4>1 DEF lines
      <4> QED  BY <2>10, <3>1, <4>2 DEF lines
    <3>3. tests[h][n] \in DOMAIN test_result
      BY <2>7, <3>2
    <3>4. test_result[tests[h][n]] = "SKIP" /\ Report[i].tests[n][1] = tests[h][n]
      BY <2>10, <3>2, <3>3 DEF told
    <3> QED  BY <2>8, <3>3, <3>4
  <2> QED  BY <2>3, <2>9, <2>10
<1> QED  BY <1>1, AlwaysGradeInv, PTL
-------------------------------------------------------------------------------
(* The program ends: a search with cycles and groups met on many paths,    *)
(* and the nested loops after it, go down a ladder of four numbers.        *)

(* What is left to do: the program's part; files, groups not yet visited,  *)
(* or groups to grade; calls to return from and roots to look at; and the  *)
(* dependencies or tests of the group under way.                           *)
Left ==
  CASE phase = "update" -> <<3, Len(files) - read, 0, 0>>
    [] phase = "topo" ->
         <<2, Cardinality(Group \ visited), Cardinality(Group) + 1 - root + Len(stack),
           IF stack = <<>> THEN 0 ELSE Len(deps[Top.group]) + 1 - Top.next>>
    [] phase = "grading" -> <<1, Len(order) + 1 - turn, 1, 0>>
    [] phase = "group" ->
         <<1, Len(order) + 1 - turn, 0, Len(TestsIn(order[turn])) + 1 - at>>
    [] OTHER -> <<0, 0, 0, 0>>

(* x comes before y in the dictionary.                                     *)
Lower(x, y) ==
  \E i \in 1 .. 4 : x[i] < y[i] /\ \A j \in 1 .. i - 1 : x[j] = y[j]

Ladder == Nat \X Nat \X Nat \X Nat

LEMMA LowerAt ==
  ASSUME NEW x \in Ladder, NEW y \in Ladder
  PROVE  Lower(x, y) <=> \/ x[1] < y[1]
                         \/ x[1] = y[1] /\ x[2] < y[2]
                         \/ x[1] = y[1] /\ x[2] = y[2] /\ x[3] < y[3]
                         \/ x[1] = y[1] /\ x[2] = y[2] /\ x[3] = y[3] /\ x[4] < y[4]
<1> DEFINE At(i) == x[i] < y[i] /\ \A j \in 1 .. i - 1 : x[j] = y[j]
<1>1. Lower(x, y) <=> At(1) \/ At(2) \/ At(3) \/ At(4)
  <2>1. 1 .. 4 = {1, 2, 3, 4}
    OBVIOUS
  <2>2. Lower(x, y) <=> \E i \in 1 .. 4 : At(i)
    BY DEF Lower
  <2> HIDE DEF At
  <2> QED  BY <2>1, <2>2
<1>2. 1 .. 1 - 1 = {} /\ 1 .. 2 - 1 = {1} /\ 1 .. 3 - 1 = {1, 2} /\ 1 .. 4 - 1 = {1, 2, 3}
  OBVIOUS
<1>3. /\ At(1) <=> x[1] < y[1]
      /\ At(2) <=> x[1] = y[1] /\ x[2] < y[2]
      /\ At(3) <=> x[1] = y[1] /\ x[2] = y[2] /\ x[3] < y[3]
      /\ At(4) <=> x[1] = y[1] /\ x[2] = y[2] /\ x[3] = y[3] /\ x[4] < y[4]
  BY <1>2
<1> HIDE DEF At
<1> QED  BY <1>1, <1>3

(* Every set of rungs that is not empty has one with none of them below.   *)
LEMMA LowestRung ==
  ASSUME NEW S \in SUBSET Ladder, S # {}
  PROVE  \E y \in S : \A x \in S : ~Lower(x, y)
<1> DEFINE A == {x[1] : x \in S}
<1>1. PICK a \in A : \A m \in A : a <= m
  <2>1. A \in SUBSET Nat /\ A # {}
    BY DEF Ladder
  <2> HIDE DEF A
  <2> QED  BY <2>1, LeastElement
<1> DEFINE S1 == {x \in S : x[1] = a}
           B == {x[2] : x \in S1}
<1>2. PICK b \in B : \A m \in B : b <= m
  <2>1. B \in SUBSET Nat /\ B # {}
    BY DEF Ladder
  <2> HIDE DEF B
  <2> QED  BY <2>1, LeastElement
<1> DEFINE S2 == {x \in S1 : x[2] = b}
           C == {x[3] : x \in S2}
<1>3. PICK c \in C : \A m \in C : c <= m
  <2>1. C \in SUBSET Nat /\ C # {}
    BY DEF Ladder
  <2> HIDE DEF C
  <2> QED  BY <2>1, LeastElement
<1> DEFINE S3 == {x \in S2 : x[3] = c}
           D == {x[4] : x \in S3}
<1>4. PICK d \in D : \A m \in D : d <= m
  <2>1. D \in SUBSET Nat /\ D # {}
    BY DEF Ladder
  <2> HIDE DEF D
  <2> QED  BY <2>1, LeastElement
<1>5. PICK y \in S : y[1] = a /\ y[2] = b /\ y[3] = c /\ y[4] = d
  OBVIOUS
<1>6. ASSUME NEW x \in S PROVE ~Lower(x, y)
  <2>1. x \in Ladder /\ y \in Ladder
    OBVIOUS
  <2>2. a <= x[1]
    BY <1>1
  <2>3. x[1] = a => b <= x[2]
    BY <1>2
  <2>4. x[1] = a /\ x[2] = b => c <= x[3]
    BY <1>3
  <2>5. x[1] = a /\ x[2] = b /\ x[3] = c => d <= x[4]
    BY <1>4
  <2>6. /\ x[1] \in Nat /\ x[2] \in Nat /\ x[3] \in Nat /\ x[4] \in Nat
        /\ y[1] \in Nat /\ y[2] \in Nat /\ y[3] \in Nat /\ y[4] \in Nat
    BY <2>1 DEF Ladder
  <2> QED  BY <1>5, <2>1, <2>2, <2>3, <2>4, <2>5, <2>6, LowerAt
<1> QED  BY <1>6

(* Nobody climbs down for ever.                                            *)
THEOREM LadderEnds ==
  ASSUME NEW f \in [Nat -> Ladder]
  PROVE  \E n \in Nat : ~Lower(f[n + 1], f[n])
<1> DEFINE S == {f[n] : n \in Nat}
<1>1. S \in SUBSET Ladder /\ S # {}
  <2>1. f[0] \in S
    OBVIOUS
  <2> QED  BY <2>1
<1>2. PICK y \in S : \A x \in S : ~Lower(x, y)
  <2> HIDE DEF S
  <2> QED  BY <1>1, LowestRung
<1>3. PICK n \in Nat : y = f[n]
  OBVIOUS
<1>4. f[n + 1] \in S
  OBVIOUS
<1> QED  BY <1>2, <1>3, <1>4

-------------------------------------------------------------------------------
RootInv == phase = "topo" => root <= Cardinality(Group) + 1

LEMMA NextRootInv ==
  MergeInv /\ SearchInv /\ RootInv /\ [Next]_vars => RootInv'
<1> SUFFICES ASSUME MergeInv, SearchInv, RootInv, [Next]_vars, phase' = "topo"
             PROVE  root' <= Cardinality(Group') + 1
  BY DEF RootInv
<1>1. CASE StartGrading
  <2>1. phase = "update" /\ root' = root /\ UNCHANGED <<files, read, config>>
    BY <1>1 DEF StartGrading, merging
  <2>2. root = 1 /\ Group' = Group
    BY <2>1 DEF SearchInv, Group
  <2>3. \E n \in Nat : Group' = 1 .. n /\ Cardinality(Group') = n
    <3>1. MergeInv'
      BY NextMergeInv
    <3>2. \E n \in Nat : NamesOf(files, Len(files))' = 1 .. n
      BY <3>1, FilesType DEF MergeInv
    <3>3. PICK n \in Nat : Group' = 1 .. n
      BY <3>1, <3>2 DEF MergeInv
    <3>4. Cardinality(1 .. n) = n
      BY FS_Interval
    <3> QED  BY <3>3, <3>4
  <2> QED  BY <2>1, <2>2, <2>3
<1>2. CASE VisitRoot
  <2>1. phase = "topo" /\ root' = root + 1 /\ root <= Cardinality(Group) /\ config' = config
    BY <1>2 DEF VisitRoot, merging
  <2>2. Group' = Group
    BY <2>1 DEF Group
  <2>3. PICK n \in Nat : Cardinality(Group) = n
    BY <2>1, MergedGroups
  <2>4. root \in Nat
    BY DEF SearchInv, SearchType
  <2> QED  BY <2>1, <2>2, <2>3, <2>4
<1>3. CASE ~StartGrading /\ ~VisitRoot
  <2>1. phase = "topo" /\ root' = root /\ config' = config
    BY <1>3 DEF Next, UpdateFile, VisitDependency, LeaveGroup, EndSearch, StartGroup,
       PassOver, GradeTest, EndGroup, Finish, vars, merging, search
  <2> QED  BY <2>1 DEF RootInv, Group
<1> QED  BY <1>1, <1>2, <1>3

LEMMA AlwaysRootInv == Spec => [](MergeInv /\ SearchInv /\ GradeInv /\ RootInv)
<1>1. Init => RootInv
  BY DEF Init, RootInv
<1>2. MergeInv /\ SearchInv /\ RootInv /\ [Next]_vars => RootInv'
  BY NextRootInv
<1> QED  BY <1>1, <1>2, AlwaysGradeInv, PTL DEF Spec

(* The rungs of the search and of the grading, with their types.           *)
LEMMA LeftInSearch ==
  ASSUME MergeInv, SearchInv, RootInv, phase = "topo"
  PROVE  /\ Left = <<2, Cardinality(Group \ visited),
                     Cardinality(Group) + 1 - root + Len(stack),
                     IF stack = <<>> THEN 0 ELSE Len(deps[Top.group]) + 1 - Top.next>>
         /\ IsFiniteSet(Group) /\ Cardinality(Group \ visited) \in Nat
         /\ Cardinality(Group) \in Nat /\ Len(stack) \in Nat /\ root \in Nat
         /\ Cardinality(Group) + 1 - root \in Nat
         /\ stack # <<>> => /\ Top.group \in Group /\ Len(deps[Top.group]) \in Nat
                            /\ Top.next \in Nat /\ Len(deps[Top.group]) + 1 - Top.next \in Nat
<1>1. Left = <<2, Cardinality(Group \ visited),
               Cardinality(Group) + 1 - root + Len(stack),
               IF stack = <<>> THEN 0 ELSE Len(deps[Top.group]) + 1 - Top.next>>
  BY DEF Left
<1>2. PICK n \in Nat : Group = 1 .. n /\ Cardinality(Group) = n
  BY MergedGroups
<1>3. IsFiniteSet(Group) /\ Cardinality(Group \ visited) \in Nat
  <2>1. IsFiniteSet(1 .. n)
    BY FS_Interval
  <2>2. IsFiniteSet(Group \ visited)
    BY <1>2, <2>1, FS_Difference
  <2> QED  BY <1>2, <2>1, <2>2, FS_CardinalityType
<1>4. /\ SearchedIn(deps, root, valid, stack, visited, order)
      /\ deps \in [Group -> Seq(Nat)] /\ stack \in Seq(Frame) /\ root \in Nat
  BY Searching
<1>5. Cardinality(Group) + 1 - root \in Nat
  BY <1>2, <1>4 DEF RootInv
<1>6. ASSUME stack # <<>>
      PROVE  /\ Top.group \in Group /\ Len(deps[Top.group]) \in Nat
             /\ Top.next \in Nat /\ Len(deps[Top.group]) + 1 - Top.next \in Nat
  <2>1. Len(stack) \in 1 .. Len(stack) /\ Top \in Frame
    BY <1>4, <1>6 DEF Top
  <2>2. Top.group \in Group /\ Top.next <= Len(deps[Top.group]) + 1
    BY <1>4, <2>1 DEF SearchedIn, Chain, Top
  <2>3. Len(deps[Top.group]) \in Nat /\ Top.next \in Nat
    BY <1>4, <2>1, <2>2 DEF Frame
  <2> QED  BY <2>2, <2>3
<1> QED  BY <1>1, <1>2, <1>3, <1>4, <1>5, <1>6

LEMMA LeftInGrading ==
  ASSUME MergeInv, SearchInv, GradeInv
  PROVE  /\ phase \in {"grading", "group"} =>
              /\ Len(order) \in Nat /\ turn \in Nat /\ Len(order) + 1 - turn \in Nat
         /\ phase = "grading" => Left = <<1, Len(order) + 1 - turn, 1, 0>>
         /\ phase = "group" =>
              /\ Left = <<1, Len(order) + 1 - turn, 0, Len(TestsIn(order[turn])) + 1 - at>>
              /\ Len(TestsIn(order[turn])) \in Nat /\ at \in Nat
              /\ Len(TestsIn(order[turn])) + 1 - at \in Nat
<1>1. ASSUME phase \in {"grading", "group"}
      PROVE  Len(order) \in Nat /\ turn \in Nat /\ Len(order) + 1 - turn \in Nat
  <2>1. Len(order) \in Nat
    BY <1>1, Ordered
  <2>2. turn \in Nat /\ turn <= Len(order) + 1
    BY <1>1 DEF GradeInv
  <2> QED  BY <2>1, <2>2
<1>2. phase = "grading" => Left = <<1, Len(order) + 1 - turn, 1, 0>>
  BY DEF Left
<1>3. ASSUME phase = "group"
      PROVE  /\ Left = <<1, Len(order) + 1 - turn, 0, Len(TestsIn(order[turn])) + 1 - at>>
             /\ Len(TestsIn(order[turn])) \in Nat /\ at \in Nat
             /\ Len(TestsIn(order[turn])) + 1 - at \in Nat
  <2>1. Left = <<1, Len(order) + 1 - turn, 0, Len(TestsIn(order[turn])) + 1 - at>>
    BY <1>3 DEF Left
  <2>2. /\ Len(TestsIn(order[turn])) \in Nat /\ at \in Nat
        /\ at <= Len(TestsIn(order[turn])) + 1
    BY <1>3, InGroup
  <2> QED  BY <2>1, <2>2
<1> QED  BY <1>1, <1>2, <1>3

LEMMA LeftIsRung ==
  ASSUME MergeInv, SearchInv, GradeInv, RootInv
  PROVE  Left \in Ladder
<1>1. CASE phase = "update"
  <2>1. Len(files) \in Nat /\ read \in 0 .. Len(files)
    BY FilesType DEF MergeInv
  <2>2. Left = <<3, Len(files) - read, 0, 0>> /\ Len(files) - read \in Nat
    BY <1>1, <2>1 DEF Left
  <2> QED  BY <2>2 DEF Ladder
<1>2. CASE phase = "topo"
  <2>1. /\ Cardinality(Group) + 1 - root + Len(stack) \in Nat
        /\ (IF stack = <<>> THEN 0 ELSE Len(deps[Top.group]) + 1 - Top.next) \in Nat
    BY <1>2, LeftInSearch
  <2> QED  BY <1>2, <2>1, LeftInSearch DEF Ladder
<1>3. CASE phase \in {"grading", "group"}
  BY <1>3, LeftInGrading DEF Ladder
<1>4. CASE phase \in {"done", "exited"}
  BY <1>4 DEF Left, Ladder
<1> QED  BY <1>1, <1>2, <1>3, <1>4 DEF SearchInv, SearchType

(* A call of valid_DAG that is entered visits one more group.              *)
LEMMA FewerUnvisited ==
  ASSUME NEW G, IsFiniteSet(G), NEW seen, NEW g \in G, g \notin seen
  PROVE  /\ Cardinality(G \ (seen \cup {g})) \in Nat
         /\ Cardinality(G \ (seen \cup {g})) < Cardinality(G \ seen)
<1> DEFINE S == G \ seen
<1>1. IsFiniteSet(S) /\ g \in S /\ S \ {g} = G \ (seen \cup {g})
  BY FS_Difference
<1> HIDE DEF S
<1>2. IsFiniteSet(S \ {g}) /\ Cardinality(S \ {g}) = Cardinality(S) - 1
  BY <1>1, FS_RemoveElement
<1>3. Cardinality(S) \in Nat /\ Cardinality(S \ {g}) \in Nat
  BY <1>1, <1>2, FS_CardinalityType
<1>4. Cardinality(S \ {g}) < Cardinality(S)
  BY <1>2, <1>3
<1> QED  BY <1>1, <1>3, <1>4 DEF S

LEMMA ReadingLowers ==
  ASSUME MergeInv, SearchInv, Left \in Ladder, (Left \in Ladder)', UpdateFile \/ StartGrading
  PROVE  Lower(Left', Left)
<1>1. PICK a \in Nat, b \in Nat, c \in Nat, d \in Nat : Left' = <<a, b, c, d>>
  BY DEF Ladder
<1>2. Len(files) \in Nat /\ read \in 0 .. Len(files) /\ phase = "update"
  BY FilesType DEF MergeInv, UpdateFile, StartGrading
<1>3. Left = <<3, Len(files) - read, 0, 0>> /\ Len(files) - read \in Nat
  BY <1>2 DEF Left
<1>4. CASE UpdateFile
  <2>1. phase' = "update" /\ files' = files /\ read' = read + 1
    BY <1>2, <1>4 DEF UpdateFile
  <2>2. Left' = <<3, Len(files) - (read + 1), 0, 0>>
    BY <2>1 DEF Left
  <2>3. Len(files) - (read + 1) \in Int /\ Len(files) - (read + 1) < Len(files) - read
    BY <1>2
  <2> QED  BY <1>3, <2>2, <2>3, LowerAt
<1>5. CASE StartGrading
  <2>1. phase' \in {"topo", "grading"}
    BY <1>5 DEF StartGrading
  <2>2. Left'[1] \in {1, 2}
    BY <2>1 DEF Left
  <2>3. a \in {1, 2}
    BY <1>1, <2>2
  <2> QED  BY <1>1, <1>3, <2>3, LowerAt
<1> QED  BY <1>4, <1>5

LEMMA RootLowers ==
  ASSUME MergeInv, SearchInv, RootInv, Left \in Ladder, (Left \in Ladder)', VisitRoot
  PROVE  Lower(Left', Left)
<1>1. /\ phase = "topo" /\ phase' = "topo" /\ stack = <<>> /\ Call(root)
      /\ root' = root + 1 /\ root <= Cardinality(Group) /\ config' = config
  BY DEF VisitRoot, merging
<1>2. Group' = Group /\ deps' = deps
  BY <1>1 DEF Group, deps
<1>3. /\ IsFiniteSet(Group) /\ Cardinality(Group) \in Nat /\ root \in Nat
      /\ Cardinality(Group \ visited) \in Nat /\ Cardinality(Group) + 1 - root \in Nat
  BY <1>1, LeftInSearch
<1>4. Left = <<2, Cardinality(Group \ visited), Cardinality(Group) + 1 - root + 0, 0>>
  <2>1. Len(<<>>) = 0
    OBVIOUS
  <2> QED  BY <1>1, <2>1, LeftInSearch
<1>5. PICK c \in Nat, d \in Nat :
        Left' = <<2, Cardinality(Group \ visited'), c, d>>
          /\ (stack' = <<>> => c = Cardinality(Group) + 1 - (root + 1) + 0)
          /\ Cardinality(Group \ visited') \in Nat
  <2> DEFINE c == Cardinality(Group') + 1 - root' + Len(stack')
             d == (IF stack = <<>> THEN 0 ELSE Len(deps[Top.group]) + 1 - Top.next)'
  <2>1. /\ Left' = <<2, Cardinality(Group' \ visited'), c, d>>
        /\ c \in Nat /\ d \in Nat /\ Cardinality(Group' \ visited') \in Nat
    <3>1. Left' = <<2, Cardinality(Group' \ visited'), c, d>>
      BY <1>1 DEF Left
    <3> HIDE DEF c, d
    <3> QED  BY <3>1 DEF Ladder
  <2>2. stack' = <<>> => c = Cardinality(Group) + 1 - (root + 1) + 0
    BY <1>1, <1>2
  <2> HIDE DEF c, d
  <2> QED  BY <1>2, <2>1, <2>2
<1>6. root \in Group /\ root \notin parent
  <2>1. PICK n \in Nat : Group = 1 .. n /\ Cardinality(Group) = n
    BY <1>1, MergedGroups
  <2>2. parent = {} /\ root \in Nat \ {0}
    BY <1>1, Searching DEF GroupsOn
  <2> QED  BY <1>1, <2>1, <2>2
<1>7. CASE root \in visited
  <2>1. stack' = <<>> /\ visited' = visited
    BY <1>1, <1>6, <1>7, EmptyStack DEF Call
  <2>2. PICK k \in Nat, l \in Nat : /\ k = Cardinality(Group \ visited)
                                    /\ l = Cardinality(Group) + 1 - root + 0
    BY <1>3
  <2>3. c < l
    BY <1>3, <1>5, <2>1, <2>2
  <2>4. Left = <<2, k, l, 0>> /\ Left' = <<2, k, c, d>>
    BY <1>4, <1>5, <2>1, <2>2
  <2> QED  BY <2>3, <2>4, LowerAt
<1>8. CASE root \notin visited
  <2>1. visited' = visited \cup {root}
    BY <1>1, <1>6, <1>8 DEF Call
  <2>2. Cardinality(Group \ visited') < Cardinality(Group \ visited)
    BY <1>3, <1>6, <1>8, <2>1, FewerUnvisited
  <2>3. PICK k \in Nat, l \in Nat, m \in Nat :
          Left = <<2, k, l, 0>> /\ Left' = <<2, m, c, d>> /\ m < k
    BY <1>3, <1>4, <1>5, <2>2
  <2> QED  BY <2>3, LowerAt
<1> QED  BY <1>7, <1>8

(* Inside a call: a dependency is answered, entered, or the last has been. *)
LEMMA LeftOfTop ==
  ASSUME phase = "topo", (Left \in Ladder)', phase' = "topo", UNCHANGED <<config, root>>
  PROVE  \E b \in Nat, c \in Nat, d \in Nat :
           /\ Left' = <<2, b, c, d>>
           /\ b = Cardinality(Group \ visited')
           /\ c = Cardinality(Group) + 1 - root + Len(stack')
           /\ d = IF stack' = <<>> THEN 0
                  ELSE Len(deps[Top'.group]) + 1 - Top'.next
<1>1. Group' = Group /\ deps' = deps
  BY DEF Group, deps
<1> DEFINE b == Cardinality(Group \ visited')
           c == Cardinality(Group) + 1 - root + Len(stack')
           d == IF stack' = <<>> THEN 0 ELSE Len(deps[Top'.group]) + 1 - Top'.next
<1>2. Left' = <<2, b, c, d>>
  BY <1>1 DEF Left
<1>3. b \in Nat /\ c \in Nat /\ d \in Nat
  <2> HIDE DEF b, c, d
  <2> QED  BY <1>2 DEF Ladder
<1> QED  BY <1>2, <1>3

LEMMA DependencyLowers ==
  ASSUME MergeInv, SearchInv, RootInv, Left \in Ladder, (Left \in Ladder)', VisitDependency
  PROVE  Lower(Left', Left)
<1> DEFINE g == deps[Top.group][Top.next]
<1>1. /\ phase = "topo" /\ phase' = "topo" /\ stack # <<>> /\ Call(g)
      /\ Top.next <= Len(deps[Top.group])
      /\ root' = root /\ config' = config
  BY DEF VisitDependency, merging
<1>2. /\ IsFiniteSet(Group) /\ Cardinality(Group) + 1 - root \in Nat
      /\ stack \in Seq(Frame) /\ Len(stack) \in Nat
      /\ Len(deps[Top.group]) \in Nat /\ Top.next \in Nat
  BY <1>1, LeftInSearch, Searching
<1>3. PICK b \in Nat, c \in Nat, d \in Nat :
        /\ Left = <<2, b, c, d>>
        /\ b = Cardinality(Group \ visited)
        /\ c = Cardinality(Group) + 1 - root + Len(stack)
        /\ d = Len(deps[Top.group]) + 1 - Top.next
  <2>1. Cardinality(Group) + 1 - root + Len(stack) \in Nat
    BY <1>2
  <2> QED  BY <1>1, <2>1, LeftInSearch
<1>4. PICK bb \in Nat, cc \in Nat, dd \in Nat :
        /\ Left' = <<2, bb, cc, dd>>
        /\ bb = Cardinality(Group \ visited')
        /\ cc = Cardinality(Group) + 1 - root + Len(stack')
        /\ dd = IF stack' = <<>> THEN 0 ELSE Len(deps[Top'.group]) + 1 - Top'.next
  BY <1>1, LeftOfTop
<1>5. CASE g \notin Group \/ g \in parent \/ g \in visited
  <2>1. PICK r \in BOOLEAN : stack' = Answered(stack, r) /\ visited' = visited
    BY <1>1, <1>5 DEF Call
  <2>2. TopIsTold(stack, r, stack')
    BY <1>1, <1>2, <2>1, AnsweredTop
  <2>3. /\ Len(stack') = Len(stack) /\ stack' # <<>>
        /\ Top'.group = Top.group /\ Top'.next = Top.next + 1
    BY <2>2 DEF TopIsTold, Top
  <2>4. bb = b /\ cc = c
    BY <1>3, <1>4, <2>1, <2>3
  <2>5. dd < d
    <3>1. PICK l \in Nat, n \in Nat : l = Len(deps[Top.group]) /\ n = Top.next
      BY <1>2
    <3>2. d = l + 1 - n
      BY <1>3, <3>1
    <3>3. dd = l + 1 - (n + 1)
      BY <1>4, <2>3, <3>1
    <3> QED  BY <3>2, <3>3
  <2> QED  BY <1>3, <1>4, <2>4, <2>5, LowerAt
<1>6. CASE g \in Group /\ g \notin parent /\ g \notin visited
  <2>1. visited' = visited \cup {g}
    BY <1>1, <1>6 DEF Call
  <2>2. bb < b
    BY <1>2, <1>3, <1>4, <1>6, <2>1, FewerUnvisited
  <2> QED  BY <1>3, <1>4, <2>2, LowerAt
<1> QED  BY <1>5, <1>6

LEMMA LeaveLowers ==
  ASSUME MergeInv, SearchInv, RootInv, Left \in Ladder, (Left \in Ladder)', LeaveGroup
  PROVE  Lower(Left', Left)
<1>1. /\ phase = "topo" /\ phase' = "topo" /\ stack # <<>>
      /\ stack' = Answered(Popped(stack), stack[Len(stack)].result)
      /\ root' = root /\ config' = config /\ visited' = visited
  BY DEF LeaveGroup, merging, Top, Popped
<1>2. /\ Cardinality(Group) + 1 - root \in Nat /\ Len(stack) \in Nat
      /\ stack \in Seq(Frame) /\ deps \in [Group -> Seq(Nat)] /\ Chain(deps, stack)
  BY <1>1, LeftInSearch, Searching DEF SearchedIn
<1>3. Len(stack') = Len(stack) - 1
  <2>1. Popped(stack) \in Seq(Frame) /\ Len(Popped(stack)) = Len(stack) - 1
    BY <1>1, <1>2, ChainPopped
  <2>2. CASE Popped(stack) = <<>>
    BY <1>1, <2>1, <2>2, EmptyStack DEF Answered
  <2>3. CASE Popped(stack) # <<>>
    <3>1. stack[Len(stack)] \in Frame
      BY <1>1, <1>2
    <3>2. TopIsTold(Popped(stack), stack[Len(stack)].result, stack')
      BY <1>1, <2>1, <2>3, <3>1, AnsweredTop DEF Frame
    <3> QED  BY <2>1, <3>2 DEF TopIsTold
  <2> QED  BY <2>2, <2>3
<1>4. PICK b \in Nat, c \in Nat, d \in Nat :
        /\ Left = <<2, b, c, d>>
        /\ b = Cardinality(Group \ visited)
        /\ c = Cardinality(Group) + 1 - root + Len(stack)
  <2>1. Cardinality(Group) + 1 - root + Len(stack) \in Nat
    BY <1>2
  <2> QED  BY <1>1, <2>1, LeftInSearch
<1>5. PICK bb \in Nat, cc \in Nat, dd \in Nat :
        /\ Left' = <<2, bb, cc, dd>>
        /\ bb = Cardinality(Group \ visited')
        /\ cc = Cardinality(Group) + 1 - root + Len(stack')
  BY <1>1, LeftOfTop
<1>6. bb = b /\ cc < c
  <2>1. Group' = Group
    BY <1>1 DEF Group
  <2>2. bb = b
    BY <1>1, <1>4, <1>5, <2>1
  <2>3. PICK k \in Nat, l \in Nat : k = Cardinality(Group) + 1 - root /\ l = Len(stack)
    BY <1>2
  <2>4. c = k + l /\ cc = k + (l - 1)
    BY <1>1, <1>3, <1>4, <1>5, <2>1, <2>3
  <2> QED  BY <2>2, <2>3, <2>4
<1> QED  BY <1>4, <1>5, <1>6, LowerAt

LEMMA GradingLowers ==
  ASSUME MergeInv, SearchInv, GradeInv, RootInv, Left \in Ladder, (Left \in Ladder)',
         EndSearch \/ StartGroup \/ PassOver \/ GradeTest \/ EndGroup \/ Finish
  PROVE  Lower(Left', Left)
<1>1. PICK a \in Nat, b \in Nat, c \in Nat, d \in Nat : Left' = <<a, b, c, d>>
  BY DEF Ladder
<1>2. CASE EndSearch
  <2>1. phase = "topo" /\ phase' \in {"grading", "exited"}
    BY <1>2 DEF EndSearch
  <2>2. PICK k \in Nat, l \in Nat, m \in Nat : Left = <<2, k, l, m>>
    BY <2>1 DEF Left, Ladder
  <2>3. Left'[1] \in {0, 1}
    BY <2>1 DEF Left
  <2>4. a < 2
    BY <1>1, <2>3
  <2> QED  BY <1>1, <2>2, <2>4, LowerAt
<1>3. CASE StartGroup
  <2>1. phase = "grading" /\ order' = order /\ phase' \in {"grading", "group"}
        /\ \/ phase' = "grading" /\ turn' = turn + 1
           \/ phase' = "group" /\ turn' = turn
    BY <1>3, LeftInGrading DEF StartGroup, search
  <2>2. PICK k \in Nat : Left = <<1, k, 1, 0>> /\ k = Len(order) + 1 - turn
    BY <2>1, LeftInGrading
  <2>3. a = 1 /\ b = Len(order) + 1 - turn' /\ c = IF phase' = "group" THEN 0 ELSE 1
    BY <1>1, <2>1 DEF Left
  <2>4. b < k \/ (b = k /\ c < 1)
    <3>1. PICK l \in Nat, t \in Nat : l = Len(order) /\ t = turn
      BY <2>1, LeftInGrading
    <3>2. CASE phase' = "grading" /\ turn' = turn + 1
      BY <2>2, <2>3, <3>1, <3>2
    <3>3. CASE phase' = "group" /\ turn' = turn
      BY <2>2, <2>3, <3>1, <3>3
    <3> QED  BY <2>1, <3>2, <3>3
  <2> QED  BY <1>1, <2>2, <2>3, <2>4, LowerAt
<1>4. CASE PassOver \/ GradeTest
  <2>1. phase = "group" /\ phase' = "group" /\ at' = at + 1
        /\ order' = order /\ turn' = turn /\ config' = config
    BY <1>4 DEF PassOver, GradeTest, merging, search
  <2>2. PICK k \in Nat, l \in Nat :
          /\ Left = <<1, k, 0, l>> /\ k = Len(order) + 1 - turn
          /\ l = Len(TestsIn(order[turn])) + 1 - at
    BY <2>1, LeftInGrading
  <2>3. TestsIn(order[turn])' = TestsIn(order[turn])
    BY <2>1 DEF TestsIn, tests, Group
  <2>4. a = 1 /\ b = Len(order') + 1 - turn' /\ c = 0
        /\ d = Len(TestsIn(order[turn])') + 1 - at'
    BY <1>1, <2>1 DEF Left
  <2>5. b = k /\ d < l
    <3>1. PICK n \in Nat, m \in Nat : n = Len(TestsIn(order[turn])) /\ m = at
      BY <2>1, LeftInGrading
    <3>2. l = n + 1 - m /\ d = n + 1 - (m + 1)
      BY <2>1, <2>2, <2>3, <2>4, <3>1
    <3>3. d < l
      BY <3>2
    <3> QED  BY <2>1, <2>2, <2>4, <3>3
  <2> QED  BY <1>1, <2>2, <2>4, <2>5, LowerAt
<1>5. CASE EndGroup
  <2>1. phase = "group" /\ phase' = "grading" /\ order' = order /\ turn' = turn + 1
    BY <1>5 DEF EndGroup, search
  <2>2. PICK k \in Nat, l \in Nat : Left = <<1, k, 0, l>> /\ k = Len(order) + 1 - turn
    BY <2>1, LeftInGrading
  <2>3. a = 1 /\ b = Len(order) + 1 - (turn + 1)
    BY <1>1, <2>1 DEF Left
  <2>4. b < k
    <3>1. PICK n \in Nat, t \in Nat : n = Len(order) /\ t = turn
      BY <2>1, LeftInGrading
    <3>2. k = n + 1 - t /\ b = n + 1 - (t + 1)
      BY <2>2, <2>3, <3>1
    <3> QED  BY <3>2
  <2> QED  BY <1>1, <2>2, <2>3, <2>4, LowerAt
<1>6. CASE Finish
  <2>1. phase = "grading" /\ phase' = "done"
    BY <1>6 DEF Finish
  <2>2. PICK k \in Nat : Left = <<1, k, 1, 0>>
    BY <2>1, LeftInGrading
  <2>3. a = 0
    BY <1>1, <2>1 DEF Left
  <2> QED  BY <1>1, <2>2, <2>3, LowerAt
<1> QED  BY <1>2, <1>3, <1>4, <1>5, <1>6

LEMMA AlwaysOnLadder ==
  Spec => [](MergeInv /\ SearchInv /\ GradeInv /\ RootInv /\ Left \in Ladder)
<1>1. MergeInv /\ SearchInv /\ GradeInv /\ RootInv => Left \in Ladder
  BY LeftIsRung
<1> QED  BY <1>1, AlwaysRootInv, PTL

(* The search ends on every graph, those with cycles and with groups that  *)
(* many paths reach included, and so do the loops behind it: every step of *)
(* the program goes down, and LadderEnds says that nobody goes down for    *)
(* ever (submission_config.cpp:14-44, 85-137, sandbox.cpp:22-29).          *)
THEOREM EveryStepGoesDown == Spec => [][Lower(Left', Left)]_vars
<1>1. ASSUME MergeInv, SearchInv, GradeInv, RootInv, Left \in Ladder, (Left \in Ladder)',
             [Next]_vars
      PROVE  [Lower(Left', Left)]_vars
  <2>1. CASE UpdateFile \/ StartGrading
    BY <1>1, <2>1, ReadingLowers
  <2>2. CASE VisitRoot
    BY <1>1, <2>2, RootLowers
  <2>3. CASE VisitDependency
    BY <1>1, <2>3, DependencyLowers
  <2>4. CASE LeaveGroup
    BY <1>1, <2>4, LeaveLowers
  <2>5. CASE EndSearch \/ StartGroup \/ PassOver \/ GradeTest \/ EndGroup \/ Finish
    BY <1>1, <2>5, GradingLowers
  <2>6. CASE UNCHANGED vars
    BY <2>6
  <2> QED  BY <1>1, <2>1, <2>2, <2>3, <2>4, <2>5, <2>6 DEF Next
<1> QED  BY <1>1, AlwaysOnLadder, PTL DEF Spec
===============================================================================
