---------------------------- MODULE GoalPlanProofs ----------------------------
(***************************************************************************)
(* What plan_goal makes of any request: a valid plan, if the items it was  *)
(* given, or the lanes it chose itself, are valid and can be verified, for  *)
(* the order of the lanes and the verification added to them keep what      *)
(* validate_goal_plan accepts.  ButlerProofs uses this of proposals and     *)
(* drafts, GoalsProofs of the goals that are made of them.                  *)
(***************************************************************************)
EXTENDS GoalPlan, SequenceTheorems, FiniteSetTheorems, TLAPS

(* The items of requests, whose roles and kinds are any names.              *)
WorkItem(Names, Files) ==
  [role : Names, kind : Names, deps : SUBSET Int, artifacts : SUBSET Files]

Known(Names) == RoleKinds \cup Kinds \subseteq Names

LEMMA LastOfSome ==
  ASSUME NEW S \in SUBSET (1..MaxItems), S # {}
  PROVE  LastOf(S) \in S /\ \A j \in S : j <= LastOf(S)
<1>1. \E i \in S : \A j \in S : j <= i
  <2>0. \A j \in S : j \in {1, 2, 3, 4, 5, 6}
    BY DEF MaxItems
  <2>1. CASE 6 \in S
    BY <2>0, <2>1
  <2>2. CASE 6 \notin S /\ 5 \in S
    BY <2>0, <2>2
  <2>3. CASE 6 \notin S /\ 5 \notin S /\ 4 \in S
    BY <2>0, <2>3
  <2>4. CASE 6 \notin S /\ 5 \notin S /\ 4 \notin S /\ 3 \in S
    BY <2>0, <2>4
  <2>5. CASE 6 \notin S /\ 5 \notin S /\ 4 \notin S /\ 3 \notin S /\ 2 \in S
    BY <2>0, <2>5
  <2>6. CASE 6 \notin S /\ 5 \notin S /\ 4 \notin S /\ 3 \notin S /\ 2 \notin S
    <3>1. S = {1}
      BY <2>0, <2>6
    <3> QED BY <3>1
  <2> QED BY <2>1, <2>2, <2>3, <2>4, <2>5, <2>6
<1> QED BY <1>1 DEF LastOf

(* What validate_goal_plan asks of every item, whatever its neighbours.     *)
Fit(item, i, declared) ==
  /\ item.role \in RoleKinds /\ item.kind \in Kinds
  /\ (item.role = "verification") = (item.kind = "verification")
  /\ item.kind = "verification" => item.artifacts = {}
  /\ item.artifacts \subseteq declared
  /\ item.deps \subseteq 1..(i - 1)

LEMMA ValidParts ==
  ASSUME NEW items, NEW declared
  PROVE  Valid(items, declared) <=>
           /\ Len(items) \in 1..MaxItems
           /\ \A i \in DOMAIN items : Fit(items[i], i, declared)
           /\ \A f \in declared :
                Cardinality({i \in DOMAIN items : f \in items[i].artifacts}) = 1
BY DEF Valid, Fit

(* Items that differ in what they wait for only.                            *)
LEMMA OnlyWaits ==
  ASSUME NEW items, NEW waits, NEW declared, Valid(items, declared),
         Len(waits) = Len(items), DOMAIN waits = DOMAIN items,
         \A i \in DOMAIN items :
           /\ waits[i].role = items[i].role /\ waits[i].kind = items[i].kind
           /\ waits[i].artifacts = items[i].artifacts
           /\ waits[i].deps \subseteq 1..(i - 1)
  PROVE  Valid(waits, declared) /\ \A kind : Of(waits, kind) = Of(items, kind)
<1>1. \A i \in DOMAIN waits : Fit(waits[i], i, declared)
  BY ValidParts DEF Fit
<1>2. \A f : {i \in DOMAIN waits : f \in waits[i].artifacts}
               = {i \in DOMAIN items : f \in items[i].artifacts}
  OBVIOUS
<1>3. Valid(waits, declared)
  BY <1>1, <1>2, ValidParts
<1>4. \A kind : Of(waits, kind) = Of(items, kind)
  BY DEF Of
<1> QED BY <1>3, <1>4

LEMMA OneEntry ==
  ASSUME NEW S, NEW s \in Seq(S), NEW i \in 1..Len(s), NEW x \in S
  PROVE  LET t == [s EXCEPT ![i] = x]
         IN  /\ Len(t) = Len(s) /\ DOMAIN t = 1..Len(s)
             /\ \A k \in 1..Len(s) : t[k] = IF k = i THEN x ELSE s[k]
<1>1. DOMAIN s = 1..Len(s)
  BY LenProperties
<1>2. [s EXCEPT ![i] = x] \in Seq(S) /\ Len([s EXCEPT ![i] = x]) = Len(s)
  BY <1>1, ExceptSeq
<1> QED BY <1>1, <1>2

(* Every item that writes to the shared worktree waits for the one before.  *)
Serially(items) ==
  \A i \in DOMAIN items : items[i].role \in SerialRoles => SerialBefore(items, i) \subseteq items[i].deps

(* Nothing but roles decides who waits, so the order once made stays.       *)
LEMMA SerialKept ==
  ASSUME NEW Names, NEW Files, NEW items \in Seq(WorkItem(Names, Files))
  PROVE  LET lanes == EnforceSerial(items)
         IN  /\ lanes \in Seq(WorkItem(Names, Files)) /\ Len(lanes) = Len(items)
             /\ DOMAIN lanes = DOMAIN items
             /\ \A i \in DOMAIN items :
                  /\ lanes[i].role = items[i].role /\ lanes[i].kind = items[i].kind
                  /\ lanes[i].artifacts = items[i].artifacts
                  /\ lanes[i].deps \subseteq items[i].deps \cup 1..(i - 1)
             /\ \A kind : Of(lanes, kind) = Of(items, kind)
             /\ Serially(lanes)
<1> DEFINE n == Len(items)
           e(i) == IF items[i].role \in SerialRoles
                   THEN [items[i] EXCEPT !.deps = @ \cup SerialBefore(items, i)]
                   ELSE items[i]
           lanes == EnforceSerial(items)
<1>0. n \in Nat /\ DOMAIN items = 1..n /\ \A i \in 1..n : items[i] \in WorkItem(Names, Files)
  BY LenProperties, ElementOfSeq
<1>1. lanes = [i \in 1..n |-> e(i)]
  BY <1>0 DEF EnforceSerial
<1>2. ASSUME NEW i \in 1..n
      PROVE  /\ e(i) \in WorkItem(Names, Files) /\ e(i).role = items[i].role
             /\ e(i).kind = items[i].kind /\ e(i).artifacts = items[i].artifacts
             /\ e(i).deps \subseteq items[i].deps \cup 1..(i - 1)
             /\ items[i].role \in SerialRoles => SerialBefore(items, i) \subseteq e(i).deps
  <2> DEFINE before == SerialBefore(items, i)
  <2>1. before \subseteq 1..(i - 1) /\ before \in SUBSET Int
    BY DEF SerialBefore
  <2>2. items[i] \in WorkItem(Names, Files)
    BY <1>0
  <2> HIDE DEF before
  <2>3. e(i) = IF items[i].role \in SerialRoles
               THEN [items[i] EXCEPT !.deps = items[i].deps \cup before] ELSE items[i]
    BY DEF before
  <2> HIDE DEF e
  <2>4. /\ e(i) \in WorkItem(Names, Files) /\ e(i).role = items[i].role
        /\ e(i).kind = items[i].kind /\ e(i).artifacts = items[i].artifacts
        /\ e(i).deps \subseteq items[i].deps \cup 1..(i - 1)
        /\ items[i].role \in SerialRoles => before \subseteq e(i).deps
    BY <2>1, <2>2, <2>3 DEF WorkItem
  <2> QED BY <2>4 DEF before
<1> HIDE DEF e
<1>3. lanes \in Seq(WorkItem(Names, Files)) /\ Len(lanes) = n /\ DOMAIN lanes = 1..n
  <2>1. lanes \in [1..n -> WorkItem(Names, Files)]
    BY <1>1, <1>2
  <2>2. lanes \in Seq(WorkItem(Names, Files))
    BY <1>0, <2>1
  <2>3. Len(lanes) = n
    BY <1>0, <1>1, <2>2, LenProperties
  <2> QED BY <1>1, <2>2, <2>3
<1>4. \A i \in 1..n : lanes[i] = e(i)
  BY <1>1
<1> HIDE DEF lanes
<1>5. \A kind : Of(lanes, kind) = Of(items, kind)
  BY <1>0, <1>2, <1>3, <1>4 DEF Of
<1>6. ASSUME NEW i \in 1..n PROVE SerialBefore(lanes, i) = SerialBefore(items, i)
  <2>1. \A j \in 1..(i - 1) : j \in 1..n
    BY <1>0
  <2>2. \A j \in 1..(i - 1) : lanes[j].role = items[j].role
    BY <1>2, <1>4, <2>1
  <2>3. \A j \in 1..(i - 1) : \A k \in (j + 1)..(i - 1) : k \in 1..(i - 1)
    BY <1>0
  <2> QED BY <2>2, <2>3 DEF SerialBefore
<1>7. Serially(lanes)
  BY <1>2, <1>3, <1>4, <1>6 DEF Serially
<1>8. \A i \in DOMAIN items :
        /\ lanes[i].role = items[i].role /\ lanes[i].kind = items[i].kind
        /\ lanes[i].artifacts = items[i].artifacts
        /\ lanes[i].deps \subseteq items[i].deps \cup 1..(i - 1)
  BY <1>0, <1>2, <1>4
<1> QED BY <1>0, <1>3, <1>5, <1>7, <1>8 DEF lanes

LEMMA SerialValid ==
  ASSUME NEW Names, NEW Files, NEW items \in Seq(WorkItem(Names, Files)), NEW declared,
         Valid(items, declared)
  PROVE  /\ EnforceSerial(items) \in Seq(WorkItem(Names, Files))
         /\ Valid(EnforceSerial(items), declared)
         /\ Len(EnforceSerial(items)) = Len(items)
         /\ \A kind : Of(EnforceSerial(items), kind) = Of(items, kind)
<1> DEFINE lanes == EnforceSerial(items)
<1>1. /\ lanes \in Seq(WorkItem(Names, Files)) /\ Len(lanes) = Len(items)
      /\ DOMAIN lanes = DOMAIN items
      /\ \A i \in DOMAIN items :
           /\ lanes[i].role = items[i].role /\ lanes[i].kind = items[i].kind
           /\ lanes[i].artifacts = items[i].artifacts
           /\ lanes[i].deps \subseteq items[i].deps \cup 1..(i - 1)
  BY SerialKept
<1> HIDE DEF lanes
<1>2. \A i \in DOMAIN items : lanes[i].deps \subseteq 1..(i - 1)
  BY <1>1, ValidParts DEF Fit
<1>3. Valid(lanes, declared) /\ \A kind : Of(lanes, kind) = Of(items, kind)
  BY <1>1, <1>2, OnlyWaits
<1> QED BY <1>1, <1>3 DEF lanes

(* The verification waits for all that is built and comes last, whether it  *)
(* is added or was asked for.                                              *)
Verified(items) ==
  LET builds == Of(items, "implementation")
  IN  builds # {} => \E v \in Of(items, "verification") :
                       /\ builds \subseteq items[v].deps
                       /\ \A i \in DOMAIN items : items[i].kind \in Kinds => i <= v

(* It writes to no worktree.                                               *)
LEMMA VerificationAdded ==
  ASSUME NEW Names, Known(Names), NEW Files, NEW items \in Seq(WorkItem(Names, Files)),
         Len(items) <= MaxItems, ~Unverifiable(items), Serially(items)
  PROVE  LET whole == WithVerification(items)
         IN  /\ whole \in Seq(WorkItem(Names, Files)) /\ Len(whole) \in Len(items)..MaxItems
             /\ Of(whole, "implementation") = Of(items, "implementation")
             /\ Verified(whole) /\ Serially(whole)
<1> DEFINE n      == Len(items)
           builds == Of(items, "implementation")
           checks == Of(items, "verification")
           whole  == WithVerification(items)
           Good   == /\ whole \in Seq(WorkItem(Names, Files)) /\ Len(whole) \in n..MaxItems
                     /\ Of(whole, "implementation") = builds
                     /\ Verified(whole) /\ Serially(whole)
<1>0. /\ n \in Nat /\ n \in 0..MaxItems /\ DOMAIN items = 1..n
      /\ \A i \in 1..n : items[i] \in WorkItem(Names, Files)
  <2>1. DOMAIN items = 1..n /\ n \in Nat
    BY LenProperties
  <2>2. \A i \in 1..n : items[i] \in WorkItem(Names, Files)
    BY ElementOfSeq
  <2>3. n \in 0..MaxItems
    <3>1. n <= MaxItems
      OBVIOUS
    <3> HIDE DEF n
    <3> QED BY <2>1, <3>1 DEF MaxItems
  <2> QED BY <2>1, <2>2, <2>3
<1>1. builds \in SUBSET (1..MaxItems) /\ checks \in SUBSET (1..MaxItems)
      /\ builds \subseteq 1..n /\ checks \subseteq 1..n
  BY <1>0 DEF Of, MaxItems
<1>2. ASSUME builds = {} PROVE Good
  <2>1. whole = items
    BY <1>2 DEF WithVerification
  <2>2. n \in n..MaxItems
    BY <1>0
  <2> QED BY <1>2, <2>1, <2>2 DEF Verified
<1>3. ASSUME builds # {}, checks = {} PROVE Good
  <2> DEFINE v == Item("verification", "verification", builds, {})
  <2>1. whole = Append(items, v) /\ n + 1 \in n..MaxItems
    <3>1. whole = Append(items, v)
      BY <1>3 DEF WithVerification
    <3>2. ~(n >= MaxItems)
      BY <1>3 DEF Unverifiable
    <3> HIDE DEF n, v
    <3> QED BY <1>0, <3>1, <3>2 DEF MaxItems
  <2>2. v \in WorkItem(Names, Files)
    <3>1. "verification" \in Names /\ builds \in SUBSET Int
      BY <1>1 DEF Known, Kinds
    <3> HIDE DEF builds
    <3> QED BY <3>1 DEF Item, WorkItem
  <2>3. v.role = "verification" /\ v.kind = "verification" /\ v.deps = builds
    BY DEF Item
  <2> HIDE DEF v
  <2>4. /\ whole \in Seq(WorkItem(Names, Files)) /\ Len(whole) = n + 1 /\ whole[n + 1] = v
        /\ \A i \in 1..n : whole[i] = items[i]
    BY <2>1, <2>2, AppendProperties
  <2>5. DOMAIN whole = 1..(n + 1)
    BY <2>4, LenProperties
  <2> HIDE DEF whole
  <2>6. \A i \in 1..(n + 1) : i \in 1..n \/ i = n + 1
    BY <1>0
  <2>7. n + 1 \notin 1..n /\ n + 1 \in 1..(n + 1) /\ \A i \in 1..n : i \in 1..(n + 1)
    BY <1>0
  <2>8. Of(whole, "implementation") = builds
    <3>1. Of(whole, "implementation")
            = {i \in 1..(n + 1) : whole[i].kind = "implementation"}
      BY <2>5 DEF Of
    <3>2. builds = {i \in 1..n : items[i].kind = "implementation"}
      BY <1>0 DEF Of
    <3> HIDE DEF n, builds
    <3> QED BY <2>3, <2>4, <2>6, <2>7, <3>1, <3>2
  <2>9. Verified(whole)
    <3>1. n + 1 \in Of(whole, "verification")
      BY <2>3, <2>4, <2>5, <2>7 DEF Of
    <3>2. \A i \in DOMAIN whole : i <= n + 1
      BY <1>0, <2>5
    <3> QED BY <2>3, <2>4, <2>8, <3>1, <3>2 DEF Verified
  <2>10. ASSUME NEW i \in DOMAIN whole, whole[i].role \in SerialRoles
         PROVE  SerialBefore(whole, i) \subseteq whole[i].deps
    <3>1. i \in 1..n
      BY <2>3, <2>4, <2>5, <2>6, <2>10 DEF SerialRoles
    <3>2. \A j \in 1..(i - 1) : whole[j] = items[j] /\ \A k \in (j + 1)..(i - 1) : whole[k] = items[k]
      BY <1>0, <2>4, <3>1
    <3>3. SerialBefore(whole, i) = SerialBefore(items, i)
      BY <3>2 DEF SerialBefore
    <3> QED BY <1>0, <2>4, <2>10, <3>1, <3>3 DEF Serially
  <2>11. Serially(whole)
    BY <2>10 DEF Serially
  <2> QED BY <2>1, <2>4, <2>8, <2>9, <2>11
<1>4. ASSUME builds # {}, checks # {} PROVE Good
  <2> DEFINE k == LastOf(checks)
             v == [items[k] EXCEPT !.deps = @ \cup builds]
  <2>1. k \in checks /\ k \in 1..n /\ (\A i \in builds : i < k) /\ (\A i \in checks : i <= k)
    <3>1. /\ k \in checks /\ LastOf(builds) \in builds
          /\ (\A i \in builds : i <= LastOf(builds)) /\ (\A i \in checks : i <= k)
      BY <1>1, <1>4, LastOfSome
    <3>2. ~(k <= LastOf(builds))
      BY <1>4 DEF Unverifiable
    <3> DEFINE m == LastOf(builds)
    <3>3. m \in Nat /\ k \in Nat
      BY <1>1, <3>1 DEF MaxItems
    <3>4. k \in 1..n
      BY <1>1, <3>1
    <3>5. \A i \in builds : i \in Nat /\ i <= m
      BY <1>1, <3>1
    <3> HIDE DEF k, m, builds, checks
    <3>6. ~(k <= m)
      BY <3>2 DEF m
    <3> QED BY <3>1, <3>3, <3>4, <3>5, <3>6
  <2>2. whole = [items EXCEPT ![k] = v]
    <3>1. whole = [items EXCEPT ![k].deps = @ \cup builds]
      BY <1>4 DEF WithVerification
    <3> QED BY <3>1
  <2>3. v \in WorkItem(Names, Files) /\ v.role = items[k].role /\ v.kind = items[k].kind
        /\ v.deps = items[k].deps \cup builds
    <3>1. items[k] \in WorkItem(Names, Files) /\ builds \in SUBSET Int
      BY <1>0, <1>1, <2>1
    <3> HIDE DEF k, builds
    <3> QED BY <3>1 DEF WorkItem
  <2> HIDE DEF v, whole
  <2>4. /\ Len(whole) = n /\ DOMAIN whole = 1..n
        /\ \A i \in 1..n : whole[i] = IF i = k THEN v ELSE items[i]
    <3> HIDE DEF k
    <3> QED BY <1>0, <2>1, <2>2, <2>3, OneEntry
  <2>5. whole \in Seq(WorkItem(Names, Files))
    <3> HIDE DEF k
    <3>1. \A i \in 1..n : whole[i] \in WorkItem(Names, Files)
      BY <1>0, <2>3, <2>4
    <3>2. whole = [i \in 1..n |-> whole[i]]
      BY <2>2, <2>4, <1>0
    <3> QED BY <1>0, <3>1, <3>2
  <2> HIDE DEF k, builds, checks
  <2>6. \A i \in 1..n : /\ whole[i].role = items[i].role /\ whole[i].kind = items[i].kind
                        /\ items[i].deps \subseteq whole[i].deps
    BY <2>3, <2>4
  <2>7. Of(whole, "implementation") = builds /\ Of(whole, "verification") = checks
    BY <1>0, <2>4, <2>6 DEF Of, builds, checks
  <2>8. Verified(whole)
    <3>1. builds \subseteq whole[k].deps
      BY <2>1, <2>3, <2>4
    <3>2. ASSUME NEW i \in 1..n, whole[i].kind \in Kinds PROVE i <= k
      <4>1. i \in builds \/ i \in checks
        BY <1>0, <2>6, <3>2 DEF Kinds, builds, checks, Of
      <4>2. i \in Nat /\ k \in Nat
        BY <1>0, <2>1
      <4> QED BY <2>1, <4>1, <4>2
    <3> QED BY <2>1, <2>4, <2>7, <3>1, <3>2 DEF Verified
  <2>9. ASSUME NEW i \in DOMAIN whole, whole[i].role \in SerialRoles
        PROVE  SerialBefore(whole, i) \subseteq whole[i].deps
    <3>1. i \in 1..n
      BY <2>4
    <3>2. \A j \in 1..(i - 1) : /\ whole[j].role = items[j].role
                                /\ \A l \in (j + 1)..(i - 1) : whole[l].role = items[l].role
      BY <1>0, <2>6, <3>1
    <3>3. SerialBefore(whole, i) = SerialBefore(items, i)
      BY <3>2 DEF SerialBefore
    <3> QED BY <1>0, <2>6, <2>9, <3>1, <3>3 DEF Serially
  <2>10. Len(whole) \in n..MaxItems
    BY <1>0, <2>4
  <2>11. Serially(whole)
    BY <2>9 DEF Serially
  <2> QED BY <2>5, <2>7, <2>8, <2>10, <2>11 DEF builds
<1> HIDE DEF Good
<1>5. Good
  BY <1>2, <1>3, <1>4
<1> QED BY <1>5 DEF Good

LEMMA VerificationValid ==
  ASSUME NEW Names, Known(Names), NEW Files, NEW items \in Seq(WorkItem(Names, Files)),
         NEW declared, Valid(items, declared), ~Unverifiable(items)
  PROVE  Valid(WithVerification(items), declared)
<1> DEFINE n      == Len(items)
           builds == Of(items, "implementation")
           checks == Of(items, "verification")
<1>0. /\ n \in Nat /\ n \in 1..MaxItems /\ DOMAIN items = 1..n
      /\ \A i \in 1..n : items[i] \in WorkItem(Names, Files) /\ Fit(items[i], i, declared)
      /\ \A f \in declared : Cardinality({i \in 1..n : f \in items[i].artifacts}) = 1
  <2>1. DOMAIN items = 1..n /\ n \in Nat
    BY LenProperties
  <2> QED BY <2>1, ElementOfSeq, ValidParts
<1>1. builds \in SUBSET (1..MaxItems) /\ checks \in SUBSET (1..MaxItems)
      /\ builds \subseteq 1..n /\ checks \subseteq 1..n
  BY <1>0 DEF Of, MaxItems
<1>2. CASE builds = {}
  BY <1>2 DEF WithVerification
<1>3. CASE builds # {} /\ checks = {}
  <2> DEFINE v == Item("verification", "verification", builds, {})
             s == Append(items, v)
  <2>1. WithVerification(items) = s /\ n < MaxItems
    <3>1. WithVerification(items) = s
      BY <1>3 DEF WithVerification
    <3>2. ~(n >= MaxItems)
      BY <1>3 DEF Unverifiable
    <3> HIDE DEF s, n
    <3> QED BY <1>0, <3>1, <3>2 DEF MaxItems
  <2>2. v \in WorkItem(Names, Files)
    <3>1. "verification" \in Names /\ builds \in SUBSET Int
      BY <1>1 DEF Known, Kinds
    <3> HIDE DEF builds
    <3> QED BY <3>1 DEF Item, WorkItem
  <2>3. /\ v.role = "verification" /\ v.kind = "verification" /\ v.artifacts = {}
        /\ v.deps = builds
    BY DEF Item
  <2> HIDE DEF v
  <2>4. /\ s \in Seq(WorkItem(Names, Files)) /\ Len(s) = n + 1 /\ s[n + 1] = v
        /\ \A i \in 1..n : s[i] = items[i]
    BY <2>2, AppendProperties
  <2>5. DOMAIN s = 1..(n + 1)
    BY <2>4, LenProperties
  <2> HIDE DEF s
  <2>6. ASSUME NEW i \in 1..(n + 1) PROVE Fit(s[i], i, declared)
    <3>1. CASE i \in 1..n
      BY <1>0, <2>4, <3>1
    <3>2. CASE i = n + 1
      <4>1. (i - 1) = n
        BY <1>0, <3>2
      <4>2. s[i].deps \subseteq 1..(i - 1)
        BY <1>1, <2>3, <2>4, <3>2, <4>1
      <4> QED BY <2>3, <2>4, <3>2, <4>2 DEF Fit, RoleKinds, Kinds
    <3> QED BY <1>0, <3>1, <3>2
  <2>7. \A f : {i \in 1..(n + 1) : f \in s[i].artifacts} = {i \in 1..n : f \in items[i].artifacts}
    BY <1>0, <2>3, <2>4
  <2>8. Len(s) \in 1..MaxItems
    BY <1>0, <2>1, <2>4 DEF MaxItems
  <2> QED BY <1>0, <2>1, <2>5, <2>6, <2>7, <2>8, ValidParts
<1>4. CASE builds # {} /\ checks # {}
  <2> DEFINE k == LastOf(checks)
             v == [items[k] EXCEPT !.deps = @ \cup builds]
             s == [items EXCEPT ![k] = v]
  <2>1. k \in checks /\ k \in 1..n /\ \A i \in builds : i < k
    <3>1. k \in checks /\ LastOf(builds) \in builds /\ \A i \in builds : i <= LastOf(builds)
      BY <1>1, <1>4, LastOfSome
    <3>2. ~(k <= LastOf(builds))
      BY <1>4 DEF Unverifiable
    <3> DEFINE m == LastOf(builds)
    <3>3. m \in Nat /\ k \in Nat
      BY <1>1, <3>1 DEF MaxItems
    <3>4. k \in 1..n
      BY <1>1, <3>1
    <3>5. \A i \in builds : i \in Nat /\ i <= m
      BY <1>1, <3>1
    <3> HIDE DEF k, m, builds, checks
    <3>6. ~(k <= m)
      BY <3>2 DEF m
    <3> QED BY <3>1, <3>3, <3>4, <3>5, <3>6
  <2>2. WithVerification(items) = [items EXCEPT ![k].deps = @ \cup builds]
    BY <1>4 DEF WithVerification
  <2>3. WithVerification(items) = s
    BY <2>2
  <2>4. v \in WorkItem(Names, Files) /\ v.role = items[k].role /\ v.kind = items[k].kind
        /\ v.artifacts = items[k].artifacts /\ v.deps = items[k].deps \cup builds
    <3>1. items[k] \in WorkItem(Names, Files) /\ builds \in SUBSET Int
      BY <1>0, <1>1, <2>1
    <3> HIDE DEF k, builds
    <3> QED BY <3>1 DEF WorkItem
  <2>5. v.deps \subseteq 1..(k - 1)
    <3>1. items[k].deps \subseteq 1..(k - 1)
      BY <1>0, <2>1 DEF Fit
    <3>2. builds \subseteq 1..(k - 1)
      <4>1. k \in Nat
        BY <1>0, <2>1
      <4> HIDE DEF k, builds
      <4> QED BY <1>0, <1>1, <2>1, <4>1
    <3> QED BY <2>4, <3>1, <3>2
  <2> HIDE DEF v
  <2>6. /\ Len(s) = n /\ DOMAIN s = 1..n
        /\ \A i \in 1..n : s[i] = IF i = k THEN v ELSE items[i]
    <3> HIDE DEF k
    <3> QED BY <1>0, <2>1, <2>4, OneEntry
  <2> HIDE DEF s, k, builds
  <2>7. \A i \in 1..n : /\ s[i].role = items[i].role /\ s[i].kind = items[i].kind
                        /\ s[i].artifacts = items[i].artifacts
                        /\ s[i].deps \subseteq 1..(i - 1)
    BY <1>0, <2>4, <2>5, <2>6 DEF Fit
  <2> QED BY <1>0, <2>3, <2>6, <2>7, OnlyWaits
<1> QED BY <1>2, <1>3, <1>4

(* A request with items makes a plan if they are valid and verifiable.      *)
LEMMA StructuredPlans ==
  ASSUME NEW Names, Known(Names), NEW Files, NEW q,
         q.items \in Seq(WorkItem(Names, Files)), q.structured, q.gates,
         q.milestones = MaxItems, ~(q.file /\ q.artifacts = {}),
         Valid(q.items, q.artifacts), ~Unverifiable(q.items)
  PROVE  Planned(q)
<1> DEFINE lanes == EnforceSerial(q.items)
<1>1. /\ lanes \in Seq(WorkItem(Names, Files)) /\ Valid(lanes, q.artifacts)
      /\ Len(lanes) = Len(q.items) /\ \A kind : Of(lanes, kind) = Of(q.items, kind)
  BY SerialValid
<1> HIDE DEF lanes
<1>2. ~Unverifiable(lanes)
  BY <1>1 DEF Unverifiable
<1>3. Valid(WithVerification(lanes), q.artifacts)
  BY <1>1, <1>2, VerificationValid
<1>4. Valid(Items(q), q.artifacts)
  BY <1>3 DEF Items, lanes
<1>5. Len(q.items) \in 1..q.milestones
  BY DEF Valid
<1> QED BY <1>4, <1>5 DEF Planned

(* The lanes of roles, none of which has files.                             *)
LEMMA LanesValid ==
  ASSUME NEW Names, Known(Names), NEW Files, NEW n \in 1..MaxItems, NEW items,
         items = [i \in 1..n |-> items[i]],
         \A i \in 1..n : \E role \in RoleKinds, kind \in Kinds, deps \in SUBSET (1..(i - 1)) :
           /\ items[i] = Item(role, kind, deps, {})
           /\ (role = "verification") = (kind = "verification")
  PROVE  items \in Seq(WorkItem(Names, Files)) /\ Valid(items, {}) /\ Len(items) = n
<1>0. n \in Nat /\ DOMAIN items = 1..n
  BY DEF MaxItems
<1>1. ASSUME NEW i \in 1..n PROVE items[i] \in WorkItem(Names, Files) /\ Fit(items[i], i, {})
  <2>1. PICK role \in RoleKinds, kind \in Kinds, deps \in SUBSET (1..(i - 1)) :
           /\ items[i] = Item(role, kind, deps, {})
           /\ (role = "verification") = (kind = "verification")
    OBVIOUS
  <2>2. role \in Names /\ kind \in Names /\ deps \in SUBSET Int
    BY DEF Known
  <2>3. items[i] \in WorkItem(Names, Files)
    BY <2>1, <2>2 DEF Item, WorkItem
  <2>4. Fit(items[i], i, {})
    BY <2>1 DEF Fit, Item
  <2> QED BY <2>3, <2>4
<1>2. items \in Seq(WorkItem(Names, Files)) /\ Len(items) = n
  <2>1. items \in [1..n -> WorkItem(Names, Files)]
    BY <1>1
  <2>2. items \in Seq(WorkItem(Names, Files))
    BY <1>0, <2>1
  <2> QED BY <1>0, <2>2, LenProperties
<1>3. Valid(items, {})
  BY <1>0, <1>1, <1>2, ValidParts
<1> QED BY <1>2, <1>3

(* At most three optional lanes follow the first.                           *)
LEMMA FewLanes ==
  ASSUME NEW S, NEW a \in Seq(S), NEW b \in Seq(S), NEW c \in Seq(S), NEW d \in Seq(S),
         Len(a) \in 0..1, Len(b) \in 0..1, Len(c) \in 0..1, Len(d) \in 0..1,
         Len(a) = 1 \/ Len(d) = 1
  PROVE  a \o b \o c \o d \in Seq(S) /\ Len(a \o b \o c \o d) \in 1..4
<1>1. a \o b \in Seq(S) /\ Len(a \o b) = Len(a) + Len(b)
  BY ConcatProperties
<1>2. (a \o b) \o c \in Seq(S) /\ Len((a \o b) \o c) = Len(a) + Len(b) + Len(c)
  BY <1>1, ConcatProperties
<1>3. ((a \o b) \o c) \o d \in Seq(S)
      /\ Len(((a \o b) \o c) \o d) = Len(a) + Len(b) + Len(c) + Len(d)
  BY <1>2, ConcatProperties
<1> DEFINE i == Len(a)
           j == Len(b)
           k == Len(c)
           m == Len(d)
<1>4. Len(a) + Len(b) + Len(c) + Len(d) \in 1..4
  <2>1. i \in {0, 1} /\ j \in {0, 1} /\ k \in {0, 1} /\ m \in {0, 1} /\ (i = 1 \/ m = 1)
    OBVIOUS
  <2> HIDE DEF i, j, k, m
  <2>2. i + j + k + m \in 1..4
    BY <2>1
  <2> QED BY <2>2 DEF i, j, k, m
<1> QED BY <1>3, <1>4

LEMMA DefaultItemsValid ==
  ASSUME NEW Names, Known(Names), NEW Files, NEW in, NEW milestones \in Nat \ {0}
  PROVE  LET items == DefaultItems(in, milestones)
         IN  /\ items \in Seq(WorkItem(Names, Files)) /\ Valid(items, {}) /\ ~Unverifiable(items)
             /\ Serially(items) /\ Of(items, "implementation") # {}
<1> DEFINE S == {"backend", "frontend", "ui", "devops_sre", "fullstack"}
           a == <<"backend">>
           b == IF in.layers >= 2 THEN <<"frontend">> ELSE <<>>
           c == IF in.components >= 3 THEN <<"ui">> ELSE <<>>
           d == IF in.deploy \/ in.migration THEN <<"devops_sre">> ELSE <<>>
           lanes == IF Route(in) = "ephemeral-fullstack" THEN <<"fullstack">> ELSE Lanes(in)
           n == IF Len(lanes) < milestones THEN Len(lanes) ELSE milestones
           plain == [i \in 1..n |-> Item(lanes[i], "implementation", {}, {})]
<1>1. /\ a \in Seq(S) /\ <<"frontend">> \in Seq(S) /\ <<"devops_sre">> \in Seq(S)
      /\ <<"ui">> \in Seq(S) /\ <<"fullstack">> \in Seq(S) /\ <<>> \in Seq(S)
      /\ Len(a) = 1 /\ Len(<<"frontend">>) = 1 /\ Len(<<"ui">>) = 1
      /\ Len(<<"devops_sre">>) = 1 /\ Len(<<"fullstack">>) = 1 /\ Len(<<>>) = 0
  BY EmptySeq
<1>2. a \in Seq(S) /\ b \in Seq(S) /\ c \in Seq(S) /\ d \in Seq(S)
      /\ Len(a) \in 0..1 /\ Len(b) \in 0..1 /\ Len(c) \in 0..1 /\ Len(d) \in 0..1 /\ Len(a) = 1
  <2> HIDE DEF S
  <2> QED BY <1>1
<1>3. Lanes(in) = a \o b \o c \o d
  BY DEF Lanes
<1> HIDE DEF a, b, c, d, S
<1>4. Lanes(in) \in Seq(S) /\ Len(Lanes(in)) \in 1..4
  BY <1>2, <1>3, FewLanes
<1>5. lanes \in Seq(S) /\ Len(lanes) \in 1..4
  BY <1>1, <1>4
<1> HIDE DEF lanes
<1>6. n \in 1..MaxItems /\ n \in Nat /\ n < MaxItems /\ \A i \in 1..n : lanes[i] \in S
  <2> DEFINE l == Len(lanes)
  <2>1. n \in Nat /\ n <= 4 /\ n >= 1 /\ n <= l /\ l \in Nat
    <3>1. l \in 1..4 /\ n = IF l < milestones THEN l ELSE milestones
      BY <1>5
    <3> HIDE DEF l, n
    <3> QED BY <3>1
  <2> HIDE DEF n
  <2>2. \A i \in 1..n : i \in 1..l
    <3> HIDE DEF l
    <3> QED BY <2>1
  <2> QED BY <1>5, <2>1, <2>2, ElementOfSeq DEF MaxItems
<1>7. DefaultItems(in, milestones) = EnforceSerial(plain)
  BY DEF DefaultItems, lanes
<1> HIDE DEF n
<1>8. /\ plain = [i \in 1..n |-> plain[i]]
      /\ \A i \in 1..n : plain[i] = Item(lanes[i], "implementation", {}, {})
  OBVIOUS
<1> HIDE DEF plain
<1>9. ASSUME NEW i \in 1..n
      PROVE  \E role \in RoleKinds, kind \in Kinds, deps \in SUBSET (1..(i - 1)) :
               /\ plain[i] = Item(role, kind, deps, {})
               /\ (role = "verification") = (kind = "verification")
  <2>1. lanes[i] \in RoleKinds /\ lanes[i] # "verification" /\ "implementation" \in Kinds
    BY <1>6 DEF S, RoleKinds, SerialRoles, Kinds
  <2>2. {} \in SUBSET (1..(i - 1))
    OBVIOUS
  <2> QED BY <1>8, <2>1, <2>2
<1>10. plain \in Seq(WorkItem(Names, Files)) /\ Valid(plain, {}) /\ Len(plain) = n
  BY <1>6, <1>8, <1>9, LanesValid
<1> DEFINE items == EnforceSerial(plain)
<1>11. /\ items \in Seq(WorkItem(Names, Files)) /\ Valid(items, {}) /\ Len(items) = n
       /\ \A kind : Of(items, kind) = Of(plain, kind)
       /\ Serially(items)
  BY <1>10, SerialValid, SerialKept
<1>12. Of(plain, "verification") = {} /\ 1 \in Of(plain, "implementation")
  <2>1. DOMAIN plain = 1..n /\ 1 \in 1..n
    BY <1>6, <1>8
  <2> QED BY <1>8, <2>1 DEF Of, Item
<1> HIDE DEF items
<1>13. ~Unverifiable(items)
  <2>1. ~(Len(items) >= MaxItems)
    BY <1>6, <1>11 DEF MaxItems
  <2>2. Of(items, "verification") = {}
    BY <1>11, <1>12
  <2> QED BY <2>1, <2>2 DEF Unverifiable
<1>14. Of(items, "implementation") # {}
  BY <1>11, <1>12
<1> QED BY <1>7, <1>11, <1>13, <1>14 DEF items

(* The declared artifacts go to one item, which builds.                     *)
LEMMA FilesPlaced ==
  ASSUME NEW Names, NEW Files, NEW items \in Seq(WorkItem(Names, Files)),
         NEW declared \in SUBSET Files, Len(items) <= MaxItems,
         Of(items, "implementation") # {}
  PROVE  LET placed == WithArtifacts(items, declared)
         IN  /\ placed \in Seq(WorkItem(Names, Files)) /\ Len(placed) = Len(items)
             /\ DOMAIN placed = DOMAIN items
             /\ \A i \in DOMAIN items :
                  /\ placed[i].role = items[i].role /\ placed[i].kind = items[i].kind
                  /\ placed[i].deps = items[i].deps
             /\ Valid(items, {}) => Valid(placed, declared)
<1> DEFINE n      == Len(items)
           builds == Of(items, "implementation")
           k      == LastOf(builds)
           v      == [items[k] EXCEPT !.artifacts = declared]
           placed == WithArtifacts(items, declared)
           Good   == /\ placed \in Seq(WorkItem(Names, Files)) /\ Len(placed) = n
                     /\ DOMAIN placed = DOMAIN items
                     /\ \A i \in DOMAIN items :
                          /\ placed[i].role = items[i].role /\ placed[i].kind = items[i].kind
                          /\ placed[i].deps = items[i].deps
                     /\ Valid(items, {}) => Valid(placed, declared)
<1>1. CASE declared = {}
  BY <1>1 DEF WithArtifacts
<1>2. ASSUME declared # {} PROVE Good
  <2>0. n \in Nat /\ DOMAIN items = 1..n /\ \A i \in 1..n : items[i] \in WorkItem(Names, Files)
    BY LenProperties, ElementOfSeq
  <2>1. builds \in SUBSET (1..MaxItems) /\ builds \subseteq 1..n
    <3>1. n <= MaxItems
      OBVIOUS
    <3> HIDE DEF n
    <3> QED BY <2>0, <3>1 DEF Of, MaxItems
  <2>2. k \in builds /\ k \in 1..n
    BY <2>1, LastOfSome
  <2>3. placed = [items EXCEPT ![k] = v]
    <3>1. placed = [items EXCEPT ![k].artifacts = declared]
      BY <1>2 DEF WithArtifacts
    <3> QED BY <3>1
  <2> HIDE DEF k
  <2>4. /\ v \in WorkItem(Names, Files) /\ v.role = items[k].role /\ v.kind = items[k].kind
        /\ v.deps = items[k].deps /\ v.artifacts = declared
    <3>1. items[k] \in WorkItem(Names, Files)
      BY <2>0, <2>2
    <3> QED BY <3>1 DEF WorkItem
  <2> HIDE DEF v, placed
  <2>5. /\ Len(placed) = n /\ DOMAIN placed = 1..n
        /\ \A i \in 1..n : placed[i] = IF i = k THEN v ELSE items[i]
    BY <2>0, <2>2, <2>3, <2>4, OneEntry
  <2>6. placed \in Seq(WorkItem(Names, Files))
    <3>1. \A i \in 1..n : placed[i] \in WorkItem(Names, Files)
      BY <2>0, <2>4, <2>5
    <3>2. placed = [i \in 1..n |-> placed[i]]
      BY <2>0, <2>3, <2>5
    <3> QED BY <2>0, <3>1, <3>2
  <2>7. ASSUME Valid(items, {}) PROVE Valid(placed, declared)
    <3>1. n \in 1..MaxItems /\ \A i \in 1..n : Fit(items[i], i, {})
      BY <2>0, <2>7, ValidParts
    <3>2. items[k].kind = "implementation"
      BY <2>2 DEF Of
    <3>3. \A i \in 1..n : Fit(placed[i], i, declared)
      BY <2>4, <2>5, <3>1, <3>2 DEF Fit
    <3>4. ASSUME NEW f \in declared PROVE Cardinality({i \in 1..n : f \in placed[i].artifacts}) = 1
      <4>1. \A i \in 1..n : i # k => placed[i].artifacts = {}
        BY <2>5, <3>1 DEF Fit
      <4>2. {i \in 1..n : f \in placed[i].artifacts} = {k}
        BY <2>2, <2>4, <2>5, <4>1
      <4> QED BY <4>2, FS_Singleton
    <3> QED BY <2>5, <3>1, <3>3, <3>4, ValidParts
  <2>8. \A i \in DOMAIN items :
          /\ placed[i].role = items[i].role /\ placed[i].kind = items[i].kind
          /\ placed[i].deps = items[i].deps
    BY <2>0, <2>4, <2>5
  <2> QED BY <2>0, <2>5, <2>6, <2>7, <2>8
<1> HIDE DEF Good
<1>3. Good
  BY <1>1, <1>2 DEF Good
<1> QED BY <1>3 DEF Good

-----------------------------------------------------------------------------
(* The plan of a request.                                                  *)

(* Items of any kind, a bound from the project's policy, declared files.    *)
WellAsked(Names, Files, q) ==
  /\ q.items \in Seq(WorkItem(Names, Files)) /\ q.artifacts \in SUBSET Files
  /\ q.milestones \in 1..MaxItems

(* A plan has its order and its verification, whatever the request waited   *)
(* for, and whoever chose the lanes.                                       *)
LEMMA PlannedItems ==
  ASSUME NEW Names, Known(Names), NEW Files, NEW q, WellAsked(Names, Files, q), Planned(q)
  PROVE  LET items == Items(q)
         IN  /\ items \in Seq(WorkItem(Names, Files)) /\ Len(items) \in 1..MaxItems
             /\ Valid(items, q.artifacts) /\ Verified(items) /\ Serially(items)
<1>1. Valid(Items(q), q.artifacts) /\ Len(Items(q)) \in 1..MaxItems
  BY DEF Planned, Valid
<1>2. CASE q.structured
  <2> DEFINE lanes == EnforceSerial(q.items)
  <2>1. /\ lanes \in Seq(WorkItem(Names, Files)) /\ Len(lanes) = Len(q.items)
        /\ \A kind : Of(lanes, kind) = Of(q.items, kind)
        /\ Serially(lanes)
    BY SerialKept DEF WellAsked
  <2>2. Items(q) = WithVerification(lanes)
    BY <1>2 DEF Items
  <2> HIDE DEF lanes
  <2>3. Len(lanes) <= MaxItems
    <3>1. Len(q.items) \in 1..q.milestones /\ q.milestones \in 1..MaxItems
      BY <1>2 DEF Planned, WellAsked
    <3> QED BY <2>1, <3>1 DEF MaxItems
  <2>4. ~Unverifiable(lanes)
    <3>1. ~Unverifiable(q.items)
      BY <1>2 DEF Planned
    <3> QED BY <2>1, <3>1 DEF Unverifiable
  <2> QED BY <1>1, <2>1, <2>2, <2>3, <2>4, VerificationAdded
<1>3. CASE ~q.structured
  <2> DEFINE lanes  == DefaultItems(q.sizing, q.milestones)
             whole  == WithVerification(lanes)
             placed == WithArtifacts(whole, q.artifacts)
  <2>1. /\ lanes \in Seq(WorkItem(Names, Files)) /\ Valid(lanes, {}) /\ ~Unverifiable(lanes)
        /\ Serially(lanes) /\ Of(lanes, "implementation") # {}
    <3>1. q.milestones \in Nat \ {0}
      BY DEF WellAsked
    <3> QED BY <3>1, DefaultItemsValid
  <2>2. Items(q) = placed
    BY <1>3 DEF Items
  <2> HIDE DEF lanes
  <2>3. Len(lanes) <= MaxItems
    <3> DEFINE n == Len(lanes)
    <3>1. n \in 1..MaxItems
      BY <2>1 DEF Valid
    <3> HIDE DEF n
    <3>2. n <= MaxItems
      BY <3>1 DEF MaxItems
    <3> QED BY <3>2 DEF n
  <2>4. /\ whole \in Seq(WorkItem(Names, Files)) /\ Len(whole) \in Len(lanes)..MaxItems
        /\ Of(whole, "implementation") # {} /\ Verified(whole) /\ Serially(whole)
    BY <2>1, <2>3, VerificationAdded
  <2> HIDE DEF whole
  <2>5. Len(whole) <= MaxItems
    BY <2>4 DEF MaxItems
  <2>6. /\ placed \in Seq(WorkItem(Names, Files)) /\ DOMAIN placed = DOMAIN whole
        /\ \A i \in DOMAIN whole :
             /\ placed[i].role = whole[i].role /\ placed[i].kind = whole[i].kind
             /\ placed[i].deps = whole[i].deps
    BY <2>4, <2>5, FilesPlaced DEF WellAsked
  <2> HIDE DEF placed
  <2>7. \A kind : Of(placed, kind) = Of(whole, kind)
    BY <2>6 DEF Of
  <2>8. Of(placed, "verification") \subseteq DOMAIN placed
    BY DEF Of
  <2>9. Verified(placed)
    BY <2>4, <2>6, <2>7, <2>8 DEF Verified
  <2>10. Serially(placed)
    <3> SUFFICES ASSUME NEW i \in DOMAIN whole, whole[i].role \in SerialRoles
                 PROVE  SerialBefore(placed, i) \subseteq whole[i].deps
      BY <2>6 DEF Serially
    <3>1. DOMAIN whole = 1..Len(whole) /\ Len(whole) \in Nat
      BY <2>4, LenProperties
    <3>2. \A j \in 1..(i - 1) : /\ placed[j].role = whole[j].role
                                /\ \A k \in (j + 1)..(i - 1) : placed[k].role = whole[k].role
      BY <2>6, <3>1
    <3>3. SerialBefore(placed, i) = SerialBefore(whole, i)
      BY <3>2 DEF SerialBefore
    <3> QED BY <2>4, <3>3 DEF Serially
  <2> QED BY <1>1, <2>2, <2>6, <2>9, <2>10
<1> QED BY <1>2, <1>3

(* A request that leaves the plan to plan_goal gets one.                    *)
LEMMA DefaultsPlan ==
  ASSUME NEW q, q.milestones \in 1..MaxItems, ~q.structured, q.gates,
         ~(q.file /\ q.artifacts = {})
  PROVE  Planned(q)
<1> DEFINE Names  == RoleKinds \cup Kinds
           lanes  == DefaultItems(q.sizing, q.milestones)
           whole  == WithVerification(lanes)
<1>1. Known(Names) /\ q.milestones \in Nat \ {0}
  BY DEF Known
<1> HIDE DEF Names
<1>2. /\ lanes \in Seq(WorkItem(Names, q.artifacts)) /\ Valid(lanes, {}) /\ ~Unverifiable(lanes)
      /\ Serially(lanes) /\ Of(lanes, "implementation") # {}
  BY <1>1, DefaultItemsValid
<1> HIDE DEF lanes
<1>3. Len(lanes) <= MaxItems
  BY <1>2 DEF Valid, MaxItems
<1>4. /\ whole \in Seq(WorkItem(Names, q.artifacts)) /\ Len(whole) \in Len(lanes)..MaxItems
      /\ Of(whole, "implementation") # {}
  BY <1>1, <1>2, <1>3, VerificationAdded
<1>5. Valid(whole, {})
  BY <1>1, <1>2, VerificationValid
<1> HIDE DEF whole
<1>6. Len(whole) <= MaxItems
  BY <1>4 DEF MaxItems
<1>7. Valid(WithArtifacts(whole, q.artifacts), q.artifacts)
  BY <1>4, <1>5, <1>6, FilesPlaced
<1> QED BY <1>2, <1>7 DEF Planned, Items, lanes, whole

-----------------------------------------------------------------------------
(* What follows from the order: of two items that write to the shared       *)
(* worktree the later waits for the earlier.                               *)

LEMMA FirstOfSome ==
  ASSUME NEW S \in SUBSET (1..MaxItems), S # {}
  PROVE  \E i \in S : \A j \in S : i <= j
<1>0. \A j \in S : j \in {1, 2, 3, 4, 5, 6}
  BY DEF MaxItems
<1>1. CASE 1 \in S
  BY <1>0, <1>1
<1>2. CASE 1 \notin S /\ 2 \in S
  BY <1>0, <1>2
<1>3. CASE 1 \notin S /\ 2 \notin S /\ 3 \in S
  BY <1>0, <1>3
<1>4. CASE 1 \notin S /\ 2 \notin S /\ 3 \notin S /\ 4 \in S
  BY <1>0, <1>4
<1>5. CASE 1 \notin S /\ 2 \notin S /\ 3 \notin S /\ 4 \notin S /\ 5 \in S
  BY <1>0, <1>5
<1>6. CASE 1 \notin S /\ 2 \notin S /\ 3 \notin S /\ 4 \notin S /\ 5 \notin S
  <2>1. S = {6}
    BY <1>0, <1>6
  <2> QED BY <2>1
<1> QED BY <1>1, <1>2, <1>3, <1>4, <1>5, <1>6

(* In a set that holds what its members wait for, the earliest member that  *)
(* comes after the earlier item and writes has one before it that writes.   *)
LEMMA SerialAncestors ==
  ASSUME NEW items, Serially(items), NEW n \in 1..MaxItems, DOMAIN items = 1..n,
         NEW i \in 1..n, NEW j \in 1..n, i < j,
         items[i].role \in SerialRoles, items[j].role \in SerialRoles
  PROVE  i \in Ancestors(items)[j]
<1>0. \A k \in 1..n : k \in 1..MaxItems /\ k \in Nat
  BY DEF MaxItems
<1> SUFFICES ASSUME NEW S \in SUBSET (1..n), \A d \in S : items[d].deps \subseteq S,
                    items[j].deps \subseteq S, i \notin S
             PROVE  FALSE
  BY DEF Ancestors
<1> DEFINE T == {m \in 1..n : items[m].role \in SerialRoles /\ i < m /\ (m \in S \/ m = j)}
<1>1. PICK m \in T : \A k \in T : m <= k
  <2>1. j \in T /\ T \in SUBSET (1..MaxItems)
    BY <1>0
  <2> HIDE DEF T
  <2> QED BY <2>1, FirstOfSome
<1>2. m \in 1..n /\ items[m].role \in SerialRoles /\ i < m /\ items[m].deps \subseteq S
  OBVIOUS
<1> DEFINE K == {k \in 1..(m - 1) : items[k].role \in SerialRoles}
<1>3. PICK k \in K : \A l \in K : l <= k
  <2>1. i \in K /\ K \in SUBSET (1..MaxItems)
    BY <1>0, <1>2
  <2> HIDE DEF K
  <2>2. LastOf(K) \in K /\ \A l \in K : l <= LastOf(K)
    BY <2>1, LastOfSome
  <2> QED BY <2>2
<1>4. k \in 1..n /\ k < m /\ items[k].role \in SerialRoles
  BY <1>0, <1>2
<1>5. i <= k
  BY <1>0, <1>2, <1>3
<1>6. k \in SerialBefore(items, m)
  <2>1. \A l \in (k + 1)..(m - 1) : l \in 1..(m - 1) /\ ~(l <= k)
    BY <1>0, <1>2, <1>4
  <2>2. \A l \in (k + 1)..(m - 1) : items[l].role \notin SerialRoles
    BY <1>3, <2>1
  <2> QED BY <2>2 DEF SerialBefore
<1>7. k \in S
  BY <1>2, <1>6 DEF Serially
<1>8. i < k
  BY <1>0, <1>4, <1>5, <1>7
<1>9. k \in T
  BY <1>4, <1>7, <1>8
<1> QED BY <1>0, <1>1, <1>2, <1>4, <1>9

-----------------------------------------------------------------------------
(* Sizes.                                                                  *)

LEMMA TiersGrow ==
  ASSUME NEW s \in Int, NEW t \in Int, s <= t
  PROVE  /\ Tier[SizeClass(s)].hard <= Tier[SizeClass(t)].hard
         /\ Tier[SizeClass(s)].attempts <= Tier[SizeClass(t)].attempts
<1> DEFINE rank(r) == IF r < 25 THEN 1 ELSE IF r < 60 THEN 2 ELSE IF r < 120 THEN 3
                      ELSE IF r < 200 THEN 4 ELSE 5
           hard    == <<300, 600, 1200, 2400, 4800>>
           tries   == <<2, 2, 3, 3, 4>>
<1>1. \A r \in Int : /\ rank(r) \in 1..5 /\ Tier[SizeClass(r)].hard = hard[rank(r)]
                     /\ Tier[SizeClass(r)].attempts = tries[rank(r)]
  <2> SUFFICES ASSUME NEW r \in Int
               PROVE  /\ rank(r) \in 1..5 /\ Tier[SizeClass(r)].hard = hard[rank(r)]
                      /\ Tier[SizeClass(r)].attempts = tries[rank(r)]
    OBVIOUS
  <2>1. CASE r < 25
    <3>1. SizeClass(r) = "XS" /\ rank(r) = 1
      BY <2>1 DEF SizeClass
    <3> QED BY <3>1 DEF Tier
  <2>2. CASE r >= 25 /\ r < 60
    <3>1. SizeClass(r) = "S" /\ rank(r) = 2
      BY <2>2 DEF SizeClass
    <3> QED BY <3>1 DEF Tier
  <2>3. CASE r >= 60 /\ r < 120
    <3>1. SizeClass(r) = "M" /\ rank(r) = 3
      BY <2>3 DEF SizeClass
    <3> QED BY <3>1 DEF Tier
  <2>4. CASE r >= 120 /\ r < 200
    <3>1. SizeClass(r) = "L" /\ rank(r) = 4
      BY <2>4 DEF SizeClass
    <3> QED BY <3>1 DEF Tier
  <2>5. CASE r >= 200
    <3>1. SizeClass(r) = "XL" /\ rank(r) = 5
      BY <2>5 DEF SizeClass
    <3> QED BY <3>1 DEF Tier
  <2> QED BY <2>1, <2>2, <2>3, <2>4, <2>5
<1>2. rank(s) <= rank(t)
  OBVIOUS
<1> HIDE DEF rank
<1>3. \A a, b \in 1..5 : a <= b => hard[a] <= hard[b] /\ tries[a] <= tries[b]
  OBVIOUS
<1> HIDE DEF hard, tries
<1> QED BY <1>1, <1>2, <1>3

LEMMA ShareIsLess ==
  ASSUME NEW x \in Nat \ {0}, NEW total \in 1..MaxItems
  PROVE  /\ AtLeast1((x + total - 1) \div total) \in Nat
         /\ AtLeast1((x + total - 1) \div total) <= x
<1>1. total \in {1, 2, 3, 4, 5, 6}
  BY DEF MaxItems
<1>2. (x + total - 1) \div total \in Int /\ (x + total - 1) \div total <= x
  BY <1>1
<1> DEFINE share == (x + total - 1) \div total
<1> HIDE DEF share
<1>3. share \in Int /\ share <= x
  BY <1>2 DEF share
<1>4. AtLeast1(share) \in Nat /\ AtLeast1(share) <= x
  BY <1>3 DEF AtLeast1
<1> QED BY <1>4 DEF share

LEMMA FewIsLess ==
  ASSUME NEW x \in Nat \ {0}
  PROVE  AtLeast1(AtMost2(x)) \in Nat /\ AtLeast1(AtMost2(x)) <= x
BY DEF AtLeast1, AtMost2

(* A part of a goal scores no more than the goal.                           *)
PartOf(part, in) ==
  /\ part.layers <= in.layers /\ part.components <= in.components /\ part.files <= in.files
  /\ part.migration => in.migration
  /\ part.deploy => in.deploy
  /\ part.commands = in.commands /\ part.seconds = in.seconds
  /\ part.dependencies = in.dependencies
  /\ RiskPoints[part.risk] <= RiskPoints[in.risk]

LEMMA ScoreShrinks ==
  ASSUME NEW in \in SizingInputs, NEW part \in SizingInputs, PartOf(part, in)
  PROVE  Score(part) \in Int /\ Score(in) \in Int /\ Score(part) <= Score(in)
<1> DEFINE rest == in.seconds \div 30
           Sum(q, m, d, r) == 8 * q.layers + 5 * q.components + 3 * q.files + m + d
                                + 4 * q.commands + rest + 6 * q.dependencies + r
           m(q) == IF q.migration THEN 12 ELSE 0
           d(q) == IF q.deploy THEN 10 ELSE 0
           r(q) == RiskPoints[q.risk]
<1>1. rest \in Int /\ rest = part.seconds \div 30
  BY DEF SizingInputs, PartOf
<1>2. \A q \in {in, part} : Score(q) = Sum(q, m(q), d(q), r(q))
  <2>1. part.seconds \div 30 = rest
    BY <1>1
  <2> QED BY <2>1 DEF Score
<1>3. /\ m(part) \in Int /\ m(in) \in Int /\ d(part) \in Int /\ d(in) \in Int
      /\ m(part) <= m(in) /\ d(part) <= d(in)
  BY DEF PartOf
<1>4. r(part) \in Int /\ r(in) \in Int /\ r(part) <= r(in)
  BY DEF SizingInputs, RiskPoints, PartOf
<1>5. \A q \in {in, part} : /\ q.layers \in Int /\ q.components \in Int /\ q.files \in Int
                            /\ q.commands \in Int /\ q.dependencies \in Int
  BY DEF SizingInputs
<1>6. /\ part.layers <= in.layers /\ part.components <= in.components
      /\ part.files <= in.files /\ part.commands = in.commands
      /\ part.dependencies = in.dependencies
  BY DEF PartOf
<1> HIDE DEF rest, m, d, r
<1> QED BY <1>1, <1>2, <1>3, <1>4, <1>5, <1>6

(* No item deserves more than its goal, if the goal counts something of     *)
(* each kind.                                                              *)
LEMMA ChildIsSmaller ==
  ASSUME NEW in \in SizingInputs, in.layers > 0, in.components > 0, in.files > 0,
         NEW item, NEW total \in 1..MaxItems
  PROVE  LET child == Budget(ChildSizing(in, item, total))
         IN  child.hard <= Budget(in).hard /\ child.attempts <= Budget(in).attempts
<1> DEFINE part == ChildSizing(in, item, total)
<1>1. /\ in.layers \in Nat \ {0} /\ in.components \in Nat \ {0} /\ in.files \in Nat \ {0}
  BY DEF SizingInputs
<1>2. part \in SizingInputs /\ PartOf(part, in)
  <2>1. CASE item.kind = "verification"
    <3> DEFINE l == AtLeast1(AtMost2(in.layers))
               c == AtLeast1(AtMost2(in.components))
               f == AtLeast1(AtMost2(in.files))
               r == IF in.risk = "low" THEN "low" ELSE "medium"
    <3>1. /\ l \in Nat /\ l <= in.layers /\ c \in Nat /\ c <= in.components
          /\ f \in Nat /\ f <= in.files
      BY <1>1, FewIsLess
    <3>2. r \in DOMAIN RiskPoints /\ RiskPoints[r] <= RiskPoints[in.risk]
      BY DEF RiskPoints, SizingInputs
    <3>3. part = [in EXCEPT !.layers = l, !.components = c, !.files = f,
                            !.migration = FALSE, !.deploy = FALSE, !.risk = r]
      BY <2>1 DEF ChildSizing
    <3> HIDE DEF l, c, f, r, part
    <3> QED BY <3>1, <3>2, <3>3 DEF SizingInputs, PartOf
  <2>2. CASE item.kind # "verification"
    <3> DEFINE share(x) == AtLeast1((x + total - 1) \div total)
               l == share(in.layers)
               c == share(in.components)
               f == share(in.files)
    <3>1. /\ l \in Nat /\ l <= in.layers /\ c \in Nat /\ c <= in.components
          /\ f \in Nat /\ f <= in.files
      BY <1>1, ShareIsLess
    <3>2. part = [in EXCEPT !.layers = l, !.components = c, !.files = f]
      BY <2>2 DEF ChildSizing
    <3>3. RiskPoints[in.risk] <= RiskPoints[in.risk]
      BY DEF RiskPoints, SizingInputs
    <3> HIDE DEF l, c, f, part
    <3> QED BY <3>1, <3>2, <3>3 DEF SizingInputs, PartOf
  <2> QED BY <2>1, <2>2
<1> HIDE DEF part
<1>3. Score(part) \in Int /\ Score(in) \in Int /\ Score(part) <= Score(in)
  BY <1>2, ScoreShrinks
<1> QED BY <1>3, TiersGrow DEF Budget, part
=============================================================================
