------------------------- MODULE Components_proofs ----------------------------
(***************************************************************************)
(* Proofs about entitlement issuance, check-in, the resource catalog, the  *)
(* inventory and attachments, for every value of their constants.          *)
(*                                                                         *)
(* The components share no state: each part of this module is about one of *)
(* them. They stand together because they rest on the same lemmas about    *)
(* numbers, sums and sequences, which come first.                          *)
(***************************************************************************)
EXTENDS Issuance, CheckIn, Catalog, Inventory, Attachments,
        FiniteSetTheorems, SequenceTheorems, WellFoundedInduction, TLAPS

-------------------------------------------------------------------------------
\* A set of natural numbers has a least element...
LEMMA Least ==
  ASSUME NEW T, T \subseteq Nat, T # {}
  PROVE  \E n \in T : \A m \in T : n <= m
<1> DEFINE R == OpToRel(<, Nat)
<1>1. IsWellFoundedOn(R, Nat)
  BY NatLessThanWellFounded
<1>2. PICK x \in T : \A y \in T : ~ (<<y, x>> \in R)
  BY <1>1, WFMin
<1>3. \A m, n \in Nat : m < n => <<m, n>> \in R
  BY DEF OpToRel
<1> HIDE DEF R
<1>4. ASSUME NEW m \in T, ~ (x <= m) PROVE FALSE
  <2>1. m \in Nat /\ x \in Nat
    OBVIOUS
  <2>2. m < x
    BY <1>4, <2>1
  <2>3. <<m, x>> \in R
    BY <2>1, <2>2, <1>3
  <2> QED BY <1>2, <2>3
<1> QED BY <1>4

\* ... so that one which has 0 and every successor has them all. This is
\* induction for a set of numbers.
LEMMA Induction ==
  ASSUME NEW T, T \subseteq Nat, 0 \in T, \A n \in T : n + 1 \in T
  PROVE  T = Nat
<1>1. SUFFICES ASSUME T # Nat PROVE FALSE
  OBVIOUS
<1>2. PICK n \in Nat \ T : \A m \in Nat \ T : n <= m
  BY <1>1, Least
<1>3. n - 1 \in Nat
  BY <1>2
<1>4. n - 1 \in T
  BY <1>2, <1>3
<1> QED BY <1>2, <1>4

-------------------------------------------------------------------------------
\* How SumFunctionOnSet adds up: an element, and then the others.
Chosen(s) == CHOOSE x \in s : TRUE
Adds(f, g, s) == IF s = {} THEN 0 ELSE f[Chosen(s)] + g[s \ {Chosen(s)}]
AddsUp(f, g, S) == \A s \in SUBSET S : g[s] = Adds(f, g, s)

LEMMA ChosenFromSet == ASSUME NEW s, s # {} PROVE Chosen(s) \in s
BY DEF Chosen

LEMMA Smaller ==
  ASSUME NEW S, IsFiniteSet(S), NEW s \in SUBSET S
  PROVE  /\ IsFiniteSet(s) /\ Cardinality(s) \in Nat
         /\ Cardinality(s) = 0 <=> s = {}
         /\ \A x \in s : s \ {x} \in SUBSET S /\ Cardinality(s \ {x}) = Cardinality(s) - 1
<1>1. IsFiniteSet(s)
  BY FS_Subset
<1> QED BY <1>1, FS_CardinalityType, FS_EmptySet, FS_RemoveElement

LEMMA AddsUpExists ==
  ASSUME NEW f, NEW S, IsFiniteSet(S)
  PROVE  \E g : g = [s \in SUBSET S |-> Adds(f, g, s)]
<1> DEFINE Small(n) == {s \in SUBSET S : Cardinality(s) <= n}
           T == {n \in Nat : \E g : \A s \in Small(n) : g[s] = Adds(f, g, s)}
<1>1. 0 \in T
  <2> DEFINE g == [s \in SUBSET S |-> 0]
  <2>1. \A s \in Small(0) : s = {} /\ g[s] = 0
    <3> TAKE s \in Small(0)
    <3>1. Cardinality(s) \in Nat /\ (Cardinality(s) = 0 <=> s = {})
      BY Smaller
    <3> QED BY <3>1
  <2>2. \A s \in Small(0) : g[s] = Adds(f, g, s)
    BY <2>1 DEF Adds
  <2> QED BY <2>2
<1>2. ASSUME NEW n \in T PROVE n + 1 \in T
  <2>1. PICK g : \A s \in Small(n) : g[s] = Adds(f, g, s)
    OBVIOUS
  <2> DEFINE k == [s \in SUBSET S |-> Adds(f, g, s)]
  <2>2. ASSUME NEW s \in Small(n + 1) PROVE k[s] = Adds(f, k, s)
    <3>1. CASE s = {}
      BY <3>1 DEF Adds
    <3>2. CASE s # {}
      <4> DEFINE r == s \ {Chosen(s)}
      <4>1. Chosen(s) \in s
        BY <3>2, ChosenFromSet
      <4>2. r \in SUBSET S /\ Cardinality(r) = Cardinality(s) - 1
        BY <4>1, Smaller
      <4>3. Cardinality(s) \in Nat /\ Cardinality(s) <= n + 1 /\ n \in Nat
        BY Smaller
      <4>4. r \in Small(n)
        BY <4>2, <4>3
      <4>5. k[r] = g[r]
        BY <2>1, <4>2, <4>4
      <4> QED BY <3>2, <4>5 DEF Adds
    <3> QED BY <3>1, <3>2
  <2>3. n + 1 \in Nat
    OBVIOUS
  <2> HIDE DEF k
  <2> QED BY <2>2, <2>3
<1>3. T = Nat
  <2> HIDE DEF T
  <2>1. T \subseteq Nat
    BY DEF T
  <2> QED BY <1>1, <1>2, <2>1, Induction
<1>4. Cardinality(S) \in T
  BY <1>3, FS_CardinalityType
<1>5. PICK g : \A s \in Small(Cardinality(S)) : g[s] = Adds(f, g, s)
  BY <1>4
<1>6. \A s \in SUBSET S : s \in Small(Cardinality(S))
  BY FS_Subset
<1> DEFINE k == [s \in SUBSET S |-> g[s]]
<1>7. ASSUME NEW s \in SUBSET S PROVE k[s] = Adds(f, k, s)
  <2>1. s # {} => s \ {Chosen(s)} \in SUBSET S
    OBVIOUS
  <2>2. g[s] = Adds(f, g, s)
    BY <1>5, <1>6
  <2> QED BY <2>1, <2>2 DEF Adds
<1>8. k = [s \in SUBSET S |-> Adds(f, k, s)]
  BY <1>7
<1> HIDE DEF k
<1> QED BY <1>8

LEMMA AddsUpUnique ==
  ASSUME NEW f, NEW f2, NEW S, IsFiniteSet(S), NEW g, NEW k,
         AddsUp(f, g, S), AddsUp(f2, k, S), \A x \in S : f[x] = f2[x]
  PROVE  g[S] = k[S]
<1> DEFINE T == {n \in Nat : \A s \in SUBSET S : Cardinality(s) <= n => g[s] = k[s]}
<1>1. 0 \in T
  <2> SUFFICES ASSUME NEW s \in SUBSET S, Cardinality(s) <= 0 PROVE g[s] = k[s]
    OBVIOUS
  <2>1. s = {}
    BY Smaller
  <2> QED BY <2>1 DEF AddsUp, Adds
<1>2. ASSUME NEW n \in T PROVE n + 1 \in T
  <2> SUFFICES ASSUME NEW s \in SUBSET S, Cardinality(s) <= n + 1
               PROVE  g[s] = k[s]
    OBVIOUS
  <2>1. CASE s = {}
    BY <2>1 DEF AddsUp, Adds
  <2>2. CASE s # {}
    <3>1. Chosen(s) \in s
      BY <2>2, ChosenFromSet
    <3>2. s \ {Chosen(s)} \in SUBSET S /\ Cardinality(s \ {Chosen(s)}) = Cardinality(s) - 1
          /\ Cardinality(s) \in Nat
      BY <3>1, Smaller
    <3>3. g[s \ {Chosen(s)}] = k[s \ {Chosen(s)}]
      BY <3>2
    <3> QED BY <2>2, <3>1, <3>3 DEF AddsUp, Adds
  <2> QED BY <2>1, <2>2
<1>3. T = Nat
  <2> HIDE DEF T
  <2>1. T \subseteq Nat
    BY DEF T
  <2> QED BY <1>1, <1>2, <2>1, Induction
<1> QED BY <1>3, FS_CardinalityType

\* The sum is what such a function gives.
LEMMA SumAddsUp ==
  ASSUME NEW f, NEW S, IsFiniteSet(S)
  PROVE  \E g : AddsUp(f, g, S) /\ SumFunctionOnSet(f, S) = g[S]
<1> DEFINE g == CHOOSE k : k = [s \in SUBSET S |-> Adds(f, k, s)]
<1>1. g = [s \in SUBSET S |-> Adds(f, g, s)]
  BY AddsUpExists
<1>2. SumFunctionOnSet(f, S) = g[S]
  BY DEF SumFunctionOnSet, FoldFunctionOnSet, MapThenFoldSet, Adds, Chosen
<1> HIDE DEF g
<1>3. AddsUp(f, g, S)
  BY <1>1 DEF AddsUp
<1> QED BY <1>2, <1>3

\* The sum over no element, and over a set of which some element is chosen.
LEMMA SumOfNone == ASSUME NEW f PROVE SumFunctionOnSet(f, {}) = 0
<1>1. PICK g : AddsUp(f, g, {}) /\ SumFunctionOnSet(f, {}) = g[{}]
  BY SumAddsUp, FS_EmptySet
<1> QED BY <1>1 DEF AddsUp, Adds

LEMMA SumOfChosen ==
  ASSUME NEW f, NEW S, IsFiniteSet(S), S # {}
  PROVE  SumFunctionOnSet(f, S) = f[Chosen(S)] + SumFunctionOnSet(f, S \ {Chosen(S)})
<1> DEFINE R == S \ {Chosen(S)}
<1>1. PICK g : AddsUp(f, g, S) /\ SumFunctionOnSet(f, S) = g[S]
  BY SumAddsUp
<1>2. IsFiniteSet(R) /\ R \in SUBSET S
  BY FS_RemoveElement
<1>3. PICK k : AddsUp(f, k, R) /\ SumFunctionOnSet(f, R) = k[R]
  BY <1>2, SumAddsUp
<1>4. AddsUp(f, g, R)
  BY <1>1, <1>2 DEF AddsUp
<1>5. g[R] = k[R]
  <2> HIDE DEF R
  <2> QED BY <1>2, <1>3, <1>4, AddsUpUnique
<1> QED BY <1>1, <1>3, <1>5 DEF AddsUp, Adds

\* It depends on the values over the set only.
LEMMA SumOfEqual ==
  ASSUME NEW f, NEW g, NEW S, IsFiniteSet(S), \A x \in S : f[x] = g[x]
  PROVE  SumFunctionOnSet(f, S) = SumFunctionOnSet(g, S)
<1>1. PICK a : AddsUp(f, a, S) /\ SumFunctionOnSet(f, S) = a[S]
  BY SumAddsUp
<1>2. PICK b : AddsUp(g, b, S) /\ SumFunctionOnSet(g, S) = b[S]
  BY SumAddsUp
<1> QED BY <1>1, <1>2, AddsUpUnique

\* Whatever element is taken out, the sum is that element and the others.
LEMMA SumWithout ==
  ASSUME NEW f, NEW S, IsFiniteSet(S), \A x \in S : f[x] \in Nat
  PROVE  /\ SumFunctionOnSet(f, S) \in Nat
         /\ \A x \in S : SumFunctionOnSet(f, S) = f[x] + SumFunctionOnSet(f, S \ {x})
<1> DEFINE Sum(s) == SumFunctionOnSet(f, s)
           Right(s) == Sum(s) \in Nat /\ \A x \in s : Sum(s) = f[x] + Sum(s \ {x})
           T == {n \in Nat : \A s \in SUBSET S : Cardinality(s) <= n => Right(s)}
<1> HIDE DEF Sum
<1>1. 0 \in T
  <2> SUFFICES ASSUME NEW s \in SUBSET S, Cardinality(s) <= 0 PROVE Right(s)
    OBVIOUS
  <2>1. s = {}
    BY Smaller
  <2>2. Sum({}) = 0
    BY SumOfNone DEF Sum
  <2> QED BY <2>1, <2>2
<1>2. ASSUME NEW n \in T PROVE n + 1 \in T
  <2> SUFFICES ASSUME NEW s \in SUBSET S, Cardinality(s) <= n + 1 PROVE Right(s)
    OBVIOUS
  <2>1. CASE s = {}
    <3>1. Sum({}) = 0
      BY SumOfNone DEF Sum
    <3> QED BY <2>1, <3>1
  <2>2. CASE s # {}
    <3> DEFINE c == Chosen(s)
    <3>1. c \in s /\ f[c] \in Nat
      BY <2>2, ChosenFromSet
    <3>2. IsFiniteSet(s) /\ Cardinality(s) \in Nat
      BY Smaller
    <3>3. Sum(s) = f[c] + Sum(s \ {c})
      BY <2>2, <3>2, SumOfChosen DEF Sum
    <3>4. \A x \in s : s \ {x} \in SUBSET S /\ Right(s \ {x})
      <4> TAKE x \in s
      <4>1. s \ {x} \in SUBSET S /\ Cardinality(s \ {x}) = Cardinality(s) - 1
        BY Smaller
      <4>2. Cardinality(s \ {x}) <= n
        BY <3>2, <4>1
      <4> QED BY <4>1, <4>2
    <3>5. Sum(s) \in Nat
      BY <3>1, <3>3, <3>4
    <3>6. ASSUME NEW x \in s, x # c PROVE Sum(s) = f[x] + Sum(s \ {x})
      <4> DEFINE r == (s \ {c}) \ {x}
      <4>1. r = (s \ {x}) \ {c}
        OBVIOUS
      <4> HIDE DEF c, r
      <4>2. Sum(s \ {c}) = f[x] + Sum(r)
        BY <3>1, <3>4, <3>6 DEF r
      <4>3. Sum(s \ {x}) = f[c] + Sum(r)
        BY <3>1, <3>4, <3>6, <4>1
      <4>4. Sum(r) \in Nat /\ f[x] \in Nat
        <5>1. r \in SUBSET S /\ Cardinality(r) <= n
          <6>1. s \ {c} \in SUBSET S /\ Cardinality(s \ {c}) = Cardinality(s) - 1
            BY <3>1, Smaller
          <6>2. Cardinality(r) = Cardinality(s \ {c}) - 1
            BY <6>1, <3>6, Smaller DEF r
          <6> QED BY <3>2, <6>1, <6>2 DEF r
        <5> QED BY <5>1
      <4> QED BY <3>1, <3>3, <4>2, <4>3, <4>4
    <3> QED BY <3>3, <3>5, <3>6
  <2> QED BY <2>1, <2>2
<1>3. T = Nat
  <2> HIDE DEF T
  <2>1. T \subseteq Nat
    BY DEF T
  <2> QED BY <1>1, <1>2, <2>1, Induction
<1>4. Right(S)
  BY <1>3, FS_CardinalityType
<1> QED BY <1>4 DEF Sum
-------------------------------------------------------------------------------
\* A sequence of which one element is replaced, or which has one more.
LEMMA Replaced ==
  ASSUME NEW S, NEW s \in Seq(S), NEW i \in DOMAIN s, NEW x \in S,
         NEW t, t = [s EXCEPT ![i] = x]
  PROVE  /\ t \in Seq(S) /\ Len(t) = Len(s) /\ DOMAIN t = DOMAIN s
         /\ t[i] = x /\ \A j \in DOMAIN s \ {i} : t[j] = s[j]
<1>1. i \in 1..Len(s)
  BY LenProperties
<1>2. t \in Seq(S) /\ Len(t) = Len(s) /\ \A j \in 1..Len(s) : t[j] = IF j = i THEN x ELSE s[j]
  BY <1>1, ExceptSeq
<1> QED BY <1>1, <1>2, LenProperties

LEMMA Appended ==
  ASSUME NEW S, NEW s \in Seq(S), NEW x \in S, NEW t, t = Append(s, x)
  PROVE  /\ t \in Seq(S) /\ Len(s) \in Nat /\ Len(t) = Len(s) + 1
         /\ DOMAIN t = DOMAIN s \cup {Len(s) + 1} /\ Len(s) + 1 \notin DOMAIN s
         /\ t[Len(s) + 1] = x /\ \A j \in DOMAIN s : t[j] = s[j]
<1>1. /\ t \in Seq(S) /\ Len(t) = Len(s) + 1 /\ t[Len(s) + 1] = x
      /\ \A j \in 1..Len(s) : t[j] = s[j]
  BY AppendProperties
<1>2. DOMAIN s = 1..Len(s) /\ DOMAIN t = 1..Len(t) /\ Len(s) \in Nat
  BY <1>1, LenProperties
<1> QED BY <1>1, <1>2
-------------------------------------------------------------------------------
(***************************************************************************)
(* Issuance: batches are imported once, and whole.                         *)
(***************************************************************************)
\* A batch lists finitely many rows.
LEMMA RowsAreFinite ==
  ASSUME NEW file \in Files
  PROVE  IsFiniteSet(DOMAIN Valid(file))
<1>1. file \in Seq({"good", "dangling", "malformed"})
  BY IssuanceAssumption
<1>2. DOMAIN file = 1..Len(file) /\ Len(file) \in Nat
  BY <1>1, LenProperties
<1>3. IsFiniteSet(1..Len(file))
  BY <1>2, FS_Interval
<1>4. DOMAIN Valid(file) \subseteq 1..Len(file)
  BY <1>2 DEF Valid
<1> QED BY <1>3, <1>4, FS_Subset

LEMMA BatchFacts ==
  ASSUME IssuanceTypeOK
  PROVE  /\ batches \in Seq(Batch) /\ imported \in Seq(Nat)
         /\ DOMAIN imported = DOMAIN batches /\ 0 \notin DOMAIN batches
         /\ Len(batches) \in Nat /\ Len(imported) = Len(batches)
         /\ \A b \in DOMAIN batches :
              batches[b] \in Batch /\ imported[b] \in Nat /\ Size(b) \in Nat
         /\ \A b \in DOMAIN batches : DOMAIN batches[b].rows # {} => Size(b) # 0
<1>1. batches \in Seq(Batch) /\ imported \in Seq(Nat) /\ Len(imported) = Len(batches)
  BY DEF IssuanceTypeOK
<1>2. DOMAIN batches = 1..Len(batches) /\ DOMAIN imported = 1..Len(imported)
      /\ Len(batches) \in Nat
  BY <1>1, LenProperties
<1>3. \A b \in DOMAIN batches : batches[b] \in Batch /\ imported[b] \in Nat
  BY <1>1, <1>2, ElementOfSeq
<1>4. \A b \in DOMAIN batches : IsFiniteSet(DOMAIN batches[b].rows)
  <2> TAKE b \in DOMAIN batches
  <2>1. PICK file \in Files : batches[b].rows = Valid(file)
    BY <1>3 DEF Batch
  <2> QED BY <2>1, RowsAreFinite
<1>5. \A b \in DOMAIN batches : Size(b) \in Nat
                                /\ (Size(b) = 0 <=> DOMAIN batches[b].rows = {})
  BY <1>4, FS_CardinalityType, FS_EmptySet DEF Size
<1> QED BY <1>1, <1>2, <1>3, <1>5

LEMMA IssuanceInitIInv == IssuanceInit => IssuanceIInv
<1> SUFFICES ASSUME IssuanceInit PROVE IssuanceIInv OBVIOUS
<1>1. DOMAIN batches = {} /\ DOMAIN imported = {}
  BY DEF IssuanceInit
<1>2. IssuanceTypeOK
  <2>1. imported \in Seq(Nat) /\ batches \in Seq(Batch) /\ Len(imported) = Len(batches)
    BY DEF IssuanceInit
  <2> QED BY <2>1, <1>1 DEF IssuanceInit, IssuanceTypeOK
<1> QED BY <1>1, <1>2
        DEF IssuanceInit, IssuanceIInv, ImportedOnce, ImportIsWhole, BatchesInHand

\* A step that stays away from the batches, or that leaves the one it worked on:
\* where it had imported that, its handler died.
LEMMA AwayFromBatches ==
  ASSUME IssuanceIInv, IssuanceTypeOK', NEW h \in Issuers,
         NEW place \in {"idle", "rules", "audit"}, GotoBatch(h, place, 0),
         UNCHANGED <<imported, batches, contended>>, cutShort \subseteq cutShort',
         issuing[h] = "confirm" => on[h] \in cutShort'
  PROVE  IssuanceIInv'
<1>1. /\ issuing' = [issuing EXCEPT ![h] = place] /\ on' = [on EXCEPT ![h] = 0]
      /\ issuing \in [Issuers -> {"idle", "create", "confirm", "rules", "audit"}]
      /\ on \in [Issuers -> {0} \cup DOMAIN batches]
  BY DEF GotoBatch, IssuanceIInv, ImportedOnce, IssuanceTypeOK
<1>2. \A b : Size(b)' = Size(b)
  BY DEF Size
<1>3. 0 \notin DOMAIN batches
  BY BatchFacts DEF IssuanceIInv, ImportedOnce
<1>4. ImportedOnce' /\ ImportIsWhole'
  BY <1>2 DEF IssuanceIInv, ImportedOnce, ImportIsWhole
<1>5. BatchesInHand'
  BY <1>1, <1>3 DEF IssuanceIInv, BatchesInHand
<1> QED BY <1>4, <1>5 DEF IssuanceIInv

LEMMA BatchesUntouched ==
  ASSUME IssuanceIInv, IssuanceTypeOK',
         UNCHANGED <<imported, batches, issuing, on, contended, cutShort>>
  PROVE  IssuanceIInv'
<1>1. \A b : Size(b)' = Size(b)
  BY DEF Size
<1> QED BY <1>1 DEF IssuanceIInv, ImportedOnce, ImportIsWhole, BatchesInHand

\* A file is validated: the new batch has given nothing.
LEMMA ValidateKeeps == ASSUME IssuanceIInv, Validate PROVE IssuanceIInv'
<1>1. IssuanceTypeOK /\ ImportedOnce /\ ImportIsWhole /\ BatchesInHand
  BY DEF IssuanceIInv, ImportedOnce
<1>2. PICK file \in Files : /\ DOMAIN Valid(file) # {}
                            /\ batches' = Append(batches,
                                 [rows |-> Valid(file), status |-> "pending"])
                            /\ imported' = Append(imported, 0)
  BY DEF Validate
<1>3. /\ batches \in Seq(Batch) /\ imported \in Seq(Nat) /\ Len(batches) \in Nat
      /\ DOMAIN imported = DOMAIN batches /\ Len(imported) = Len(batches)
      /\ 0 \notin DOMAIN batches
  BY <1>1, BatchFacts
<1>4. PICK n \in Nat : n = Len(batches) + 1
  BY <1>3
<1>5. PICK new \in Batch : /\ new.rows = Valid(file) /\ new.status = "pending"
                           /\ batches' = Append(batches, new)
  BY <1>2 DEF Batch
<1>6. /\ batches' \in Seq(Batch) /\ Len(batches') = n
      /\ DOMAIN batches' = DOMAIN batches \cup {n} /\ n \notin DOMAIN batches
      /\ batches'[n] = new /\ \A b \in DOMAIN batches : batches'[b] = batches[b]
  BY <1>3, <1>5, <1>4, Appended
<1>7. /\ imported' \in Seq(Nat) /\ Len(imported') = n /\ imported'[n] = 0
      /\ \A b \in DOMAIN batches : imported'[b] = imported[b]
  <2>1. 0 \in Nat
    OBVIOUS
  <2> QED BY <1>2, <1>3, <1>4, <2>1, Appended
<1>8. /\ UNCHANGED <<issuing, on, contended, cutShort>>
      /\ UNCHANGED <<auto, manual, approved, left, unapplied>>
  BY DEF Validate, historyVars
<1>9. IssuanceTypeOK'
  BY <1>1, <1>6, <1>7, <1>8 DEF IssuanceTypeOK
<1>10. \A b \in DOMAIN batches : Size(b)' = Size(b)
  BY <1>6 DEF Size
<1>11. \A h \in Issuers : on[h] # n /\ (on[h] = 0 \/ on[h] \in DOMAIN batches)
  <2>1. n # 0
    BY <1>4
  <2> QED BY <1>1, <1>6, <2>1 DEF IssuanceTypeOK
<1>12. ImportedOnce'
  BY <1>1, <1>5, <1>6, <1>7, <1>8, <1>9, <1>10 DEF ImportedOnce
<1>13. ImportIsWhole'
  <2>1. ASSUME NEW b \in DOMAIN batches
        PROVE  \E times \in 0..imported'[b] : imported'[b] = times * Size(b)'
    BY <1>1, <1>7, <1>10, <2>1 DEF ImportIsWhole
  <2>2. Size(n)' \in Nat
    <3>1. Size(n)' = Cardinality(DOMAIN Valid(file))
      BY <1>5, <1>6 DEF Size
    <3>2. Cardinality(DOMAIN Valid(file)) \in Nat
      BY RowsAreFinite, FS_CardinalityType
    <3> QED BY <3>1, <3>2
  <2>3. \E times \in 0..imported'[n] : imported'[n] = times * Size(n)'
    <3>1. PICK size \in Nat : size = Size(n)'
      BY <2>2
    <3>2. 0 = 0 * size /\ 0 \in 0..0
      BY <3>1
    <3> QED BY <1>7, <3>1, <3>2
  <2>4. \A b \in DOMAIN batches : batches'[b] = batches[b] /\ imported'[b] = imported[b]
    BY <1>6, <1>7
  <2> QED BY <1>1, <1>6, <1>7, <2>1, <2>3, <2>4 DEF ImportIsWhole
<1>14. BatchesInHand'
  <2>1. \A b \in DOMAIN batches' : DOMAIN batches'[b].rows # {}
    BY <1>1, <1>2, <1>5, <1>6 DEF BatchesInHand
  <2>2. \A h \in Issuers : /\ (issuing'[h] \in {"create", "confirm"} <=> on'[h] # 0)
                           /\ issuing'[h] = "confirm" => imported'[on'[h]] # 0
    BY <1>1, <1>7, <1>8, <1>11 DEF BatchesInHand
  <2>3. \A b \in DOMAIN batches' \ contended' : \A g, h \in Issuers :
           on'[g] = b /\ on'[h] = b => g = h
    BY <1>1, <1>6, <1>8, <1>11 DEF BatchesInHand
  <2>4. \A b \in DOMAIN batches' \ (contended' \cup cutShort') :
          /\ imported'[b] # 0 /\ batches'[b].status = "pending" =>
               \E h \in Issuers : issuing'[h] = "confirm" /\ on'[h] = b
          /\ \A h \in Issuers : on'[h] = b =>
               /\ batches'[b].status = "pending"
               /\ issuing'[h] = "create" => imported'[b] = 0
    <3> TAKE b \in DOMAIN batches' \ (contended' \cup cutShort')
    <3>1. CASE b = n
      BY <1>7, <1>8, <1>11, <3>1
    <3>2. CASE b \in DOMAIN batches
      BY <1>1, <1>6, <1>7, <1>8, <3>2 DEF BatchesInHand
    <3> QED BY <1>6, <3>1, <3>2
  <2> QED BY <2>1, <2>2, <2>3, <2>4 DEF BatchesInHand
<1> QED BY <1>12, <1>13, <1>14 DEF IssuanceIInv

\* A handler takes a batch up. If nobody works on it, it has given nothing: it is
\* pending, and a handler that had imported it would be there still.
LEMMA LoadBatchKeeps ==
  ASSUME IssuanceIInv, NEW h \in Issuers, LoadBatch(h) PROVE IssuanceIInv'
<1>1. IssuanceTypeOK /\ ImportedOnce /\ ImportIsWhole /\ BatchesInHand
  BY DEF IssuanceIInv, ImportedOnce
<1>2. PICK b \in DOMAIN batches :
        /\ batches[b].status = "pending"
        /\ GotoBatch(h, "create", b)
        /\ contended' = contended \cup {c \in {b} : \E g \in Issuers : on[g] = c}
  BY DEF LoadBatch
<1>3. /\ issuing[h] = "idle"
      /\ UNCHANGED <<imported, auto, manual, batches, approved, left, cutShort, unapplied>>
  BY DEF LoadBatch, entitlements
<1>4. /\ issuing' = [issuing EXCEPT ![h] = "create"] /\ on' = [on EXCEPT ![h] = b]
      /\ issuing \in [Issuers -> {"idle", "create", "confirm", "rules", "audit"}]
      /\ on \in [Issuers -> {0} \cup DOMAIN batches]
      /\ contended \subseteq contended' /\ contended' \subseteq DOMAIN batches
  BY <1>1, <1>2 DEF GotoBatch, IssuanceTypeOK
<1>5. IssuanceTypeOK'
  BY <1>1, <1>3, <1>4 DEF IssuanceTypeOK
<1>6. \A c : Size(c)' = Size(c)
  BY <1>3 DEF Size
<1>7. ImportedOnce' /\ ImportIsWhole'
  BY <1>1, <1>3, <1>4, <1>5, <1>6 DEF ImportedOnce, ImportIsWhole
<1>8. b \notin contended' => \A g \in Issuers : on[g] # b
  BY <1>2
<1>9. b \notin contended' \cup cutShort' => imported[b] = 0
  BY <1>1, <1>2, <1>3, <1>4, <1>8 DEF BatchesInHand
<1>10. b # 0 /\ on[h] = 0
  BY <1>1, <1>3, BatchFacts DEF BatchesInHand
<1>11. BatchesInHand'
  <2>1. \A g \in Issuers : /\ (issuing'[g] \in {"create", "confirm"} <=> on'[g] # 0)
                           /\ issuing'[g] = "confirm" => imported'[on'[g]] # 0
    BY <1>1, <1>3, <1>4, <1>10 DEF BatchesInHand
  <2>2. \A c \in DOMAIN batches' \ contended' : \A f, g \in Issuers :
           on'[f] = c /\ on'[g] = c => f = g
    BY <1>1, <1>3, <1>4, <1>8 DEF BatchesInHand
  <2>3. \A c \in DOMAIN batches' \ (contended' \cup cutShort') :
          /\ imported'[c] # 0 /\ batches'[c].status = "pending" =>
               \E g \in Issuers : issuing'[g] = "confirm" /\ on'[g] = c
          /\ \A g \in Issuers : on'[g] = c =>
               /\ batches'[c].status = "pending"
               /\ issuing'[g] = "create" => imported'[c] = 0
    <3> TAKE c \in DOMAIN batches' \ (contended' \cup cutShort')
    <3>1. CASE c = b
      BY <1>2, <1>3, <1>9, <3>1
    <3>2. CASE c # b
      BY <1>1, <1>3, <1>4, <3>2 DEF BatchesInHand
    <3> QED BY <3>1, <3>2
  <2> QED BY <1>1, <1>3, <2>1, <2>2, <2>3 DEF BatchesInHand
<1> QED BY <1>7, <1>11 DEF IssuanceIInv

LEMMA OnceMore ==
  ASSUME NEW given \in Nat, NEW size \in Nat, size # 0,
         NEW times \in 0..given, given = times * size
  PROVE  \E more \in 0..(given + size) : given + size = more * size
<1>1. given + size = (times + 1) * size
  OBVIOUS
<1>2. times + 1 \in 0..(given + size)
  OBVIOUS
<1> QED BY <1>1, <1>2

\* The rows are inserted, all of them.
LEMMA CreateManyKeeps ==
  ASSUME IssuanceIInv, NEW h \in Issuers, CreateMany(h) PROVE IssuanceIInv'
<1>1. IssuanceTypeOK /\ ImportedOnce /\ ImportIsWhole /\ BatchesInHand
  BY DEF IssuanceIInv, ImportedOnce
<1>2. PICK b : b = on[h]
  OBVIOUS
<1>3. /\ issuing[h] = "create"
      /\ UNCHANGED <<auto, manual, batches, approved, left, contended, cutShort, unapplied>>
  BY DEF CreateMany, historyVars
<1>4. b \in DOMAIN batches /\ b # 0
  BY <1>1, <1>3, <1>2 DEF BatchesInHand, IssuanceTypeOK
<1>5. /\ issuing \in [Issuers -> {"idle", "create", "confirm", "rules", "audit"}]
      /\ on \in [Issuers -> {0} \cup DOMAIN batches]
  BY <1>1 DEF IssuanceTypeOK
<1>6. CASE \A i \in DOMAIN batches[b].rows : batches[b].rows[i] = "good"
  <2>1. imported' = [imported EXCEPT ![b] = imported[b] + Size(b)] /\ GotoBatch(h, "confirm", b)
    BY <1>6, <1>2 DEF CreateMany
  <2>2. /\ imported \in Seq(Nat) /\ DOMAIN imported = DOMAIN batches
        /\ Len(imported) = Len(batches)
        /\ imported[b] \in Nat /\ Size(b) \in Nat /\ Size(b) # 0
    BY <1>1, <1>4, BatchFacts DEF BatchesInHand
  <2>3. PICK sum \in Nat : sum = imported[b] + Size(b) /\ sum # 0
    BY <2>2
  <2>4. /\ imported' \in Seq(Nat) /\ Len(imported') = Len(imported)
        /\ DOMAIN imported' = DOMAIN batches
        /\ imported'[b] = sum /\ \A c \in DOMAIN batches \ {b} : imported'[c] = imported[c]
    <3>1. imported' = [imported EXCEPT ![b] = sum]
      BY <2>1, <2>3
    <3>2. b \in DOMAIN imported
      BY <1>4, <2>2
    <3> QED BY <2>2, <3>1, <3>2, Replaced
  <2>5. issuing' = [issuing EXCEPT ![h] = "confirm"] /\ on' = on
    BY <1>5, <1>2, <2>1 DEF GotoBatch
  <2>6. IssuanceTypeOK'
    <3>1. issuing' \in [Issuers -> {"idle", "create", "confirm", "rules", "audit"}]
      BY <1>5, <2>5
    <3> QED BY <1>1, <1>3, <2>2, <2>4, <2>5, <3>1 DEF IssuanceTypeOK
  <2>7. \A c : Size(c)' = Size(c)
    BY <1>3 DEF Size
  <2>8. b \notin contended \cup cutShort => sum = Size(b)
    <3>1. b \notin contended \cup cutShort => imported[b] = 0
      BY <1>2, <1>1, <1>3, <1>4 DEF BatchesInHand
    <3> QED BY <2>2, <2>3, <3>1
  <2>9. ImportedOnce'
    BY <1>1, <1>3, <2>3, <2>4, <2>6, <2>7, <2>8 DEF ImportedOnce
  <2>10. ImportIsWhole'
    <3>1. PICK times \in 0..imported[b] : imported[b] = times * Size(b)
      BY <1>1, <1>4 DEF ImportIsWhole
    <3>2. PICK given \in Nat, size \in Nat : given = imported[b] /\ size = Size(b)
      BY <2>2
    <3>3. \E more \in 0..(given + size) : given + size = more * size
      BY <2>2, <3>1, <3>2, OnceMore
    <3>4. \E more \in 0..imported'[b] : imported'[b] = more * Size(b)'
      BY <2>3, <2>4, <2>7, <3>2, <3>3
    <3>5. ASSUME NEW c \in DOMAIN batches \ {b}
          PROVE  /\ \E more \in 0..imported'[c] : imported'[c] = more * Size(c)'
                 /\ (\E i \in DOMAIN batches'[c].rows : batches'[c].rows[i] = "dangling") =>
                      imported'[c] = 0
      BY <1>1, <1>3, <2>4, <2>7 DEF ImportIsWhole
    <3>6. ~ \E i \in DOMAIN batches'[b].rows : batches'[b].rows[i] = "dangling"
      BY <1>3, <1>6
    <3> QED BY <1>3, <3>4, <3>5, <3>6 DEF ImportIsWhole
  <2>11. BatchesInHand'
    <3>1. \A g \in Issuers : /\ (issuing'[g] \in {"create", "confirm"} <=> on'[g] # 0)
                             /\ issuing'[g] = "confirm" => imported'[on'[g]] # 0
      <4> TAKE g \in Issuers
      <4>1. CASE g = h
        BY <1>2, <1>4, <1>5, <2>3, <2>4, <2>5, <4>1
      <4>2. CASE g # h
        <5>1. (issuing[g] \in {"create", "confirm"} <=> on[g] # 0)
              /\ (issuing[g] = "confirm" => imported[on[g]] # 0)
          BY <1>1 DEF BatchesInHand
        <5>2. on[g] # 0 => on[g] \in DOMAIN batches
          BY <1>5
        <5> QED BY <1>5, <2>3, <2>4, <2>5, <4>2, <5>1, <5>2
      <4> QED BY <4>1, <4>2
    <3>2. \A c \in DOMAIN batches' \ (contended' \cup cutShort') :
          /\ imported'[c] # 0 /\ batches'[c].status = "pending" =>
               \E g \in Issuers : issuing'[g] = "confirm" /\ on'[g] = c
          /\ \A g \in Issuers : on'[g] = c =>
               /\ batches'[c].status = "pending"
               /\ issuing'[g] = "create" => imported'[c] = 0
      <4> TAKE c \in DOMAIN batches' \ (contended' \cup cutShort')
      <4>1. CASE c = b
        <5>1. on'[h] = b /\ issuing'[h] = "confirm"
          BY <1>2, <1>5, <2>5
        <5>2. \A g \in Issuers : on'[g] = b => g = h
          BY <1>2, <1>1, <1>3, <1>4, <2>5, <4>1 DEF BatchesInHand
        <5>3. batches[b].status = "pending"
          BY <1>2, <1>1, <1>3, <1>4, <4>1 DEF BatchesInHand
        <5> QED BY <1>3, <4>1, <5>1, <5>2, <5>3
      <4>2. CASE c # b
        BY <1>2, <1>1, <1>3, <1>5, <2>4, <2>5, <4>2 DEF BatchesInHand
      <4> QED BY <4>1, <4>2
    <3> QED BY <1>1, <1>3, <2>5, <3>1, <3>2 DEF BatchesInHand
  <2> QED BY <2>9, <2>10, <2>11 DEF IssuanceIInv
<1>7. CASE ~ \A i \in DOMAIN batches[b].rows : batches[b].rows[i] = "good"
  <2>1. EndIssuing(h) /\ UNCHANGED imported
    BY <1>7, <1>2 DEF CreateMany
  <2>2. GotoBatch(h, "idle", 0)
    BY <2>1 DEF EndIssuing
  <2>3. IssuanceTypeOK'
    BY <1>1, <1>3, <2>1, <2>2 DEF IssuanceTypeOK, GotoBatch
  <2> QED BY <1>3, <2>1, <2>2, <2>3, AwayFromBatches
<1> QED BY <1>6, <1>7

\* The batch is marked: it has been imported.
LEMMA ConfirmBatchKeeps ==
  ASSUME IssuanceIInv, NEW h \in Issuers, ConfirmBatch(h) PROVE IssuanceIInv'
<1>1. IssuanceTypeOK /\ ImportedOnce /\ ImportIsWhole /\ BatchesInHand
  BY DEF IssuanceIInv, ImportedOnce
<1>2. PICK b : b = on[h]
  OBVIOUS
<1>3. /\ issuing[h] = "confirm"
      /\ batches' = [batches EXCEPT ![b].status = "confirmed"]
      /\ GotoBatch(h, "idle", 0)
      /\ UNCHANGED <<imported, auto, manual, approved, left, contended, cutShort, unapplied>>
  BY <1>2 DEF ConfirmBatch, EndIssuing, entitlements, historyVars
<1>4. b \in DOMAIN batches /\ imported[b] # 0 /\ b # 0
  BY <1>1, <1>2, <1>3 DEF BatchesInHand, IssuanceTypeOK
<1>5. PICK new : new = [batches[b] EXCEPT !.status = "confirmed"]
  OBVIOUS
<1>6. batches \in Seq(Batch) /\ batches[b] \in Batch /\ 0 \notin DOMAIN batches
  BY <1>1, <1>4, BatchFacts
<1>7. new \in Batch /\ new.rows = batches[b].rows /\ new.status = "confirmed"
  BY <1>5, <1>6 DEF Batch
<1>8. batches' = [batches EXCEPT ![b] = new]
  BY <1>3, <1>5
<1>9. /\ batches' \in Seq(Batch) /\ Len(batches') = Len(batches)
      /\ DOMAIN batches' = DOMAIN batches
      /\ batches'[b] = new /\ \A c \in DOMAIN batches \ {b} : batches'[c] = batches[c]
  BY <1>4, <1>6, <1>7, <1>8, Replaced
<1>10. /\ issuing' = [issuing EXCEPT ![h] = "idle"] /\ on' = [on EXCEPT ![h] = 0]
       /\ issuing \in [Issuers -> {"idle", "create", "confirm", "rules", "audit"}]
       /\ on \in [Issuers -> {0} \cup DOMAIN batches]
  BY <1>1, <1>3 DEF GotoBatch, IssuanceTypeOK
<1>11. IssuanceTypeOK'
  BY <1>1, <1>3, <1>9, <1>10 DEF IssuanceTypeOK
<1>12. \A c \in DOMAIN batches : batches'[c].rows = batches[c].rows
  BY <1>7, <1>9
<1>13. \A c \in DOMAIN batches : Size(c)' = Size(c)
  BY <1>12 DEF Size
<1>14. ImportedOnce'
  BY <1>1, <1>3, <1>4, <1>9, <1>11, <1>13 DEF ImportedOnce
<1>15. ImportIsWhole'
  BY <1>1, <1>3, <1>9, <1>12, <1>13 DEF ImportIsWhole
<1>16. BatchesInHand'
  <2>1. \A g \in Issuers : /\ (issuing'[g] \in {"create", "confirm"} <=> on'[g] # 0)
                           /\ issuing'[g] = "confirm" => imported'[on'[g]] # 0
    BY <1>1, <1>3, <1>10 DEF BatchesInHand
  <2>2. \A c \in DOMAIN batches' \ contended' : \A f, g \in Issuers :
           on'[f] = c /\ on'[g] = c => f = g
    BY <1>1, <1>3, <1>6, <1>9, <1>10 DEF BatchesInHand
  <2>3. \A c \in DOMAIN batches' \ (contended' \cup cutShort') :
          /\ imported'[c] # 0 /\ batches'[c].status = "pending" =>
               \E g \in Issuers : issuing'[g] = "confirm" /\ on'[g] = c
          /\ \A g \in Issuers : on'[g] = c =>
               /\ batches'[c].status = "pending"
               /\ issuing'[g] = "create" => imported'[c] = 0
    <3> TAKE c \in DOMAIN batches' \ (contended' \cup cutShort')
    <3>1. CASE c = b
      <4>1. \A g \in Issuers : on'[g] # b
        BY <1>1, <1>2, <1>3, <1>4, <1>9, <1>10, <3>1 DEF BatchesInHand
      <4> QED BY <1>7, <1>9, <3>1, <4>1
    <3>2. CASE c # b
      BY <1>1, <1>2, <1>3, <1>6, <1>9, <1>10, <3>2 DEF BatchesInHand
    <3> QED BY <3>1, <3>2
  <2>4. \A c \in DOMAIN batches' : DOMAIN batches'[c].rows # {}
    BY <1>1, <1>9, <1>12 DEF BatchesInHand
  <2> QED BY <2>1, <2>2, <2>3, <2>4 DEF BatchesInHand
<1> QED BY <1>14, <1>15, <1>16 DEF IssuanceIInv

\* A handler fails, or its process dies: what it worked on was cut short.
LEMMA FailIssuingKeeps ==
  ASSUME IssuanceIInv, NEW h \in Issuers, FailIssuing(h) PROVE IssuanceIInv'
<1>1. IssuanceTypeOK /\ BatchesInHand
  BY DEF IssuanceIInv, ImportedOnce
<1>2. /\ GotoBatch(h, "idle", 0)
      /\ UNCHANGED <<imported, auto, manual, batches, approved, contended>>
  BY DEF FailIssuing, EndIssuing, entitlements
<1>3. CASE issuing[h] \in {"create", "confirm"}
  <2>1. cutShort' = cutShort \cup {on[h]} /\ UNCHANGED <<left, unapplied>>
    BY <1>3 DEF FailIssuing
  <2>2. on[h] \in DOMAIN batches
    BY <1>1, <1>3 DEF BatchesInHand, IssuanceTypeOK
  <2>3. IssuanceTypeOK'
    BY <1>1, <1>2, <2>1, <2>2 DEF IssuanceTypeOK, GotoBatch
  <2> QED BY <1>2, <2>1, <2>3, AwayFromBatches
<1>4. CASE issuing[h] \notin {"create", "confirm"}
  <2>1. left' = {} /\ unapplied' = left /\ UNCHANGED cutShort
    BY <1>4 DEF FailIssuing
  <2>2. IssuanceTypeOK'
    BY <1>1, <1>2, <2>1 DEF IssuanceTypeOK, GotoBatch
  <2> QED BY <1>2, <1>4, <2>1, <2>2, AwayFromBatches
<1> QED BY <1>3, <1>4

\* What an approval issues by the rules, and what is issued by hand, is apart from
\* the batches.
LEMMA OthersKeep ==
  ASSUME IssuanceIInv,
         IssueManual \/ \E h \in Issuers : \/ Trigger(h) \/ SkipRule(h) \/ ApplyRule(h)
                                         \/ AuditRule(h) \/ EndRules(h)
  PROVE  IssuanceIInv'
<1>1. IssuanceTypeOK
  BY DEF IssuanceIInv, ImportedOnce
<1>2. CASE IssueManual
  <2>1. IssuanceTypeOK'
    BY <1>1, <1>2 DEF IssuanceTypeOK, IssueManual, historyVars
  <2> QED BY <1>2, <2>1, BatchesUntouched DEF IssueManual, historyVars
<1>3. ASSUME NEW h \in Issuers, SkipRule(h) PROVE IssuanceIInv'
  <2>1. IssuanceTypeOK'
    BY <1>1, <1>3 DEF IssuanceTypeOK, SkipRule, entitlements, historyVars
  <2> QED BY <1>3, <2>1, BatchesUntouched DEF SkipRule, entitlements, historyVars
<1>4. ASSUME NEW h \in Issuers, Trigger(h) PROVE IssuanceIInv'
  <2>1. IssuanceTypeOK'
    BY <1>1, <1>4 DEF IssuanceTypeOK, Trigger, GotoBatch, entitlements, historyVars
  <2> QED BY <1>4, <2>1, AwayFromBatches DEF Trigger, entitlements, historyVars
<1>5. ASSUME NEW h \in Issuers, ApplyRule(h) PROVE IssuanceIInv'
  <2>1. /\ GotoBatch(h, "audit", 0) /\ issuing[h] = "rules"
        /\ UNCHANGED <<imported, manual, batches, approved, contended, cutShort, unapplied>>
    BY <1>5 DEF ApplyRule, historyVars
  <2>2. PICK r \in left : auto' = [auto EXCEPT ![r] = @ + 1] /\ left' = left \ {r}
    BY <1>5 DEF ApplyRule
  <2>3. IssuanceTypeOK'
    BY <1>1, <2>1, <2>2 DEF IssuanceTypeOK, GotoBatch
  <2> QED BY <2>1, <2>3, AwayFromBatches
<1>6. ASSUME NEW h \in Issuers, AuditRule(h) PROVE IssuanceIInv'
  <2>1. IssuanceTypeOK'
    BY <1>1, <1>6 DEF IssuanceTypeOK, AuditRule, GotoBatch, entitlements, historyVars
  <2> QED BY <1>6, <2>1, AwayFromBatches DEF AuditRule, entitlements, historyVars
<1>7. ASSUME NEW h \in Issuers, EndRules(h) PROVE IssuanceIInv'
  <2>1. /\ GotoBatch(h, "idle", 0) /\ issuing[h] = "rules"
        /\ UNCHANGED <<imported, auto, manual, batches, approved, left, contended, cutShort,
                       unapplied>>
    BY <1>7 DEF EndRules, EndIssuing, entitlements, historyVars
  <2>2. IssuanceTypeOK'
    BY <1>1, <2>1 DEF IssuanceTypeOK, GotoBatch
  <2> QED BY <2>1, <2>2, AwayFromBatches
<1> QED BY <1>2, <1>3, <1>4, <1>5, <1>6, <1>7

\* The inductive invariant, for any number of requests, rules and files: batches
\* are imported whole, and what a handler's place says of its batch is true.
THEOREM IssuanceInvariance == IssuanceSpec => []IssuanceIInv
<1>1. IssuanceInit => IssuanceIInv
  BY IssuanceInitIInv
<1>2. IssuanceIInv /\ [IssuanceNext]_issuanceVars => IssuanceIInv'
  <2> SUFFICES ASSUME IssuanceIInv, [IssuanceNext]_issuanceVars PROVE IssuanceIInv'
    OBVIOUS
  <2>1. CASE Validate
    BY <2>1, ValidateKeeps
  <2>2. ASSUME NEW h \in Issuers, LoadBatch(h) \/ CreateMany(h) PROVE IssuanceIInv'
    BY <2>2, LoadBatchKeeps, CreateManyKeeps
  <2>3. ASSUME NEW h \in Issuers, ConfirmBatch(h) \/ FailIssuing(h) PROVE IssuanceIInv'
    BY <2>3, ConfirmBatchKeeps, FailIssuingKeeps
  <2>4. CASE IssueManual \/ \E h \in Issuers : \/ Trigger(h) \/ SkipRule(h) \/ ApplyRule(h)
                                             \/ AuditRule(h) \/ EndRules(h)
    BY <2>4, OthersKeep
  <2>5. CASE UNCHANGED issuanceVars
    <3>1. UNCHANGED <<imported, auto, manual, batches, approved, issuing, on, left, contended,
                      cutShort, unapplied>>
      BY <2>5 DEF issuanceVars, entitlements
    <3>2. IssuanceTypeOK'
      BY <3>1 DEF IssuanceIInv, ImportedOnce, IssuanceTypeOK
    <3> QED BY <3>1, <3>2, BatchesUntouched
  <2> QED BY <2>1, <2>2, <2>3, <2>4, <2>5 DEF IssuanceNext, Handle
<1> QED BY <1>1, <1>2, PTL DEF IssuanceSpec

\* POST /bulk-import/confirm of a pending batch: a batch whose confirmations take
\* turns and are not cut short is imported once, and one that is marked has been.
THEOREM BatchesAreImportedOnce == IssuanceSpec => []ImportedOnce
<1>1. IssuanceIInv => ImportedOnce
  BY DEF IssuanceIInv
<1> QED BY <1>1, IssuanceInvariance, PTL

\* createMany is one statement: however confirmations overlap and fail, what a
\* batch has given is a number of times all its rows, and nothing when one of them
\* names no event or no user.
THEOREM ImportsAreWhole == IssuanceSpec => []ImportIsWhole
<1>1. IssuanceIInv => ImportIsWhole
  BY DEF IssuanceIInv
<1> QED BY <1>1, IssuanceInvariance, PTL

\* The rules are gone through once, when the event is approved.
LEMMA RulesInHandKept ==
  ASSUME IssuanceTypeOK, RulesInHand, [IssuanceNext]_issuanceVars
  PROVE  RulesInHand'
<1>1. auto \in [IssuanceRules -> Nat] /\ left \subseteq IssuanceRules
  BY DEF IssuanceTypeOK
<1>2. \A r \in IssuanceRules : ~approved => auto[r] = 0
  BY <1>1 DEF RulesInHand, RulesGiveOne
<1>3. CASE UNCHANGED <<auto, approved>> /\ left' \subseteq left
  BY <1>3 DEF RulesInHand, RulesGiveOne
<1>4. ASSUME NEW h \in Issuers, Trigger(h) PROVE RulesInHand'
  BY <1>1, <1>2, <1>4 DEF RulesInHand, RulesGiveOne, Trigger, entitlements
<1>5. ASSUME NEW h \in Issuers, ApplyRule(h) PROVE RulesInHand'
  <2>1. PICK r \in left : /\ Formula[r] = "positive" /\ left' = left \ {r}
                          /\ auto' = [auto EXCEPT ![r] = @ + 1]
    BY <1>5 DEF ApplyRule
  <2>2. approved' = approved /\ approved /\ auto[r] = 0
    BY <1>5, <2>1 DEF ApplyRule, RulesInHand
  <2>3. auto'[r] = 1 /\ \A q \in IssuanceRules \ {r} : auto'[q] = auto[q]
    BY <1>1, <2>1, <2>2
  <2> QED BY <1>1, <2>1, <2>2, <2>3 DEF RulesInHand, RulesGiveOne
<1>6. ASSUME NEW h \in Issuers,
             \/ LoadBatch(h) \/ CreateMany(h) \/ ConfirmBatch(h) \/ SkipRule(h)
             \/ AuditRule(h) \/ EndRules(h) \/ FailIssuing(h)
      PROVE  UNCHANGED <<auto, approved>> /\ left' \subseteq left
  BY <1>6 DEF LoadBatch, CreateMany, ConfirmBatch, SkipRule, AuditRule, EndRules,
              FailIssuing, entitlements
<1>7. ASSUME Validate \/ IssueManual \/ UNCHANGED issuanceVars
      PROVE  UNCHANGED <<auto, approved>> /\ left' \subseteq left
  BY <1>7 DEF Validate, IssueManual, issuanceVars, entitlements
<1> QED BY <1>3, <1>4, <1>5, <1>6, <1>7 DEF IssuanceNext, Handle

\* triggerEntitlementAutoIssuance runs once, since an event is approved once: a
\* rule gives at most one entitlement, and none where its formula gives no
\* quantity. It is the safety part of RulesApply.
THEOREM RulesGiveAtMostOne == IssuanceSpec => []RulesGiveOne
<1>1. IssuanceInit => RulesInHand
  BY DEF IssuanceInit, RulesInHand, RulesGiveOne
<1>2. IssuanceIInv => IssuanceTypeOK
  BY DEF IssuanceIInv, ImportedOnce
<1>3. IssuanceIInv /\ RulesInHand /\ [IssuanceNext]_issuanceVars => RulesInHand'
  BY <1>2, RulesInHandKept
<1>4. RulesInHand => RulesGiveOne
  BY DEF RulesInHand
<1> QED BY <1>1, <1>3, <1>4, IssuanceInvariance, PTL DEF IssuanceSpec

-------------------------------------------------------------------------------
(***************************************************************************)
(* CheckIn: the capacity of a room, windows, and whose turn it is.         *)
(***************************************************************************)
\* A row more.
Joins(r, b, c) == c = b (+) SetToBag({r})
HowMany(b, those) == SumFunctionOnSet(b, those \cap DOMAIN b)

LEMMA RowJoins ==
  ASSUME NEW b, IsABag(b), IsFiniteSet(DOMAIN b), NEW r, NEW c, Joins(r, b, c)
  PROVE  /\ IsABag(c) /\ DOMAIN c = DOMAIN b \cup {r} /\ IsFiniteSet(DOMAIN c)
<1>1. b \in [DOMAIN b -> Nat \ {0}]
  BY DEF IsABag
<1>2. /\ DOMAIN c = DOMAIN b \cup {r}
      /\ \A e \in DOMAIN b \ {r} : c[e] = b[e]
      /\ r \in DOMAIN b => c[r] = b[r] + 1
      /\ r \notin DOMAIN b => c[r] = 1
      /\ c = [e \in DOMAIN c |-> c[e]]
  BY <1>1 DEF Joins, (+), SetToBag
<1>3. IsABag(c)
  BY <1>1, <1>2 DEF IsABag
<1>4. IsFiniteSet(DOMAIN c)
  BY <1>2, FS_AddElement
<1> QED BY <1>2, <1>3, <1>4

\* One more guest of a kind counts where that kind does.
LEMMA OneMoreRow ==
  ASSUME NEW b, IsABag(b), IsFiniteSet(DOMAIN b), NEW r, NEW those,
         NEW c, Joins(r, b, c)
  PROVE  /\ r \in those => HowMany(c, those) = HowMany(b, those) + 1
         /\ r \notin those => HowMany(c, those) = HowMany(b, those)
<1> DEFINE B == those \cap DOMAIN b
           C == those \cap DOMAIN c
<1>1. b \in [DOMAIN b -> Nat \ {0}]
  BY DEF IsABag
<1>2. /\ DOMAIN c = DOMAIN b \cup {r}
      /\ \A e \in DOMAIN b \ {r} : c[e] = b[e]
      /\ r \in DOMAIN b => c[r] = b[r] + 1
      /\ r \notin DOMAIN b => c[r] = 1
  BY <1>1 DEF Joins, (+), SetToBag
<1>3. IsABag(c)
  BY RowJoins
<1>4. IsFiniteSet(DOMAIN c)
  BY RowJoins
<1>5. IsFiniteSet(B) /\ IsFiniteSet(C)
  BY <1>4, FS_Subset
<1>6. (\A e \in B : b[e] \in Nat) /\ (\A e \in C : c[e] \in Nat)
  BY <1>1, <1>3 DEF IsABag
<1>7. SumFunctionOnSet(b, B) \in Nat
  BY <1>5, <1>6, SumWithout
<1>8. ASSUME r \notin those
      PROVE  SumFunctionOnSet(c, C) = SumFunctionOnSet(b, B)
  <2>1. C = B /\ \A e \in B : c[e] = b[e]
    BY <1>2, <1>8
  <2>2. SumFunctionOnSet(c, B) = SumFunctionOnSet(b, B)
    BY <1>5, <2>1, SumOfEqual
  <2> QED BY <2>1, <2>2
<1>9. ASSUME r \in those
      PROVE  SumFunctionOnSet(c, C) = SumFunctionOnSet(b, B) + 1
  <2>1. r \in C /\ C \ {r} = B \ {r} /\ \A e \in B \ {r} : c[e] = b[e]
    BY <1>2, <1>9
  <2>2. SumFunctionOnSet(c, C) = c[r] + SumFunctionOnSet(c, C \ {r})
    BY <1>5, <1>6, <2>1, SumWithout
  <2>3. IsFiniteSet(B \ {r})
    BY <1>5, FS_Subset
  <2>4. SumFunctionOnSet(c, C \ {r}) = SumFunctionOnSet(b, B \ {r})
    BY <2>1, <2>3, SumOfEqual
  <2>5. SumFunctionOnSet(b, B \ {r}) \in Nat
    BY <1>6, <2>3, SumWithout
  <2>6. CASE r \in DOMAIN b
    <3>1. SumFunctionOnSet(b, B) = b[r] + SumFunctionOnSet(b, B \ {r})
      BY <1>5, <1>6, <1>9, <2>6, SumWithout
    <3>2. SumFunctionOnSet(c, C) = SumFunctionOnSet(b, B) + 1
      BY <1>1, <1>2, <2>2, <2>4, <2>5, <2>6, <3>1
    <3> QED BY <3>2
  <2>7. CASE r \notin DOMAIN b
    <3>1. B \ {r} = B
      BY <2>7
    <3>2. SumFunctionOnSet(c, C) = SumFunctionOnSet(b, B) + 1
      <4>1. c[r] = 1
        BY <1>2, <2>7
      <4> QED BY <2>2, <2>4, <2>5, <3>1, <4>1
    <3> QED BY <3>2
  <2> QED BY <2>6, <2>7
<1>10. /\ r \in those => SumFunctionOnSet(c, C) = SumFunctionOnSet(b, B) + 1
       /\ r \notin those => SumFunctionOnSet(c, C) = SumFunctionOnSet(b, B)
  BY <1>8, <1>9
<1> QED BY <1>10 DEF HowMany

LEMMA IdleTaskType ==
  /\ IdleTask \in Task
  /\ IdleTask.at = "idle" /\ IdleTask.by = None /\ IdleTask.window = None
  /\ IdleTask.lists = FALSE /\ IdleTask.over = FALSE
BY DEF IdleTask, Task, TaskPlaces

LEMMA IdleUndisturbed == Undisturbed(IdleTask)
BY IdleTaskType DEF Undisturbed

\* Handlers that are about to write, before and after one of them takes a step.
LEMMA AboutCount ==
  ASSUME CheckInAssumption, NEW over \in BOOLEAN
  PROVE  /\ IsFiniteSet(About(over)) /\ About(over) \subseteq Handlers
         /\ Cardinality(About(over)) \in Nat /\ Cardinality(Handlers) \in Nat
         /\ Cardinality(Handlers) > 0
<1>1. IsFiniteSet(Handlers) /\ Handlers # {}
  BY DEF CheckInAssumption
<1>2. About(over) \in SUBSET Handlers
  BY DEF About
<1>3. IsFiniteSet(About(over))
  BY <1>1, <1>2, FS_Subset
<1>4. Cardinality(Handlers) # 0
  BY <1>1, FS_EmptySet
<1> QED BY <1>1, <1>2, <1>3, <1>4, FS_CardinalityType

LEMMA CheckInTypes ==
  ASSUME CheckInAssumption, CheckInIInv
  PROVE  /\ CheckInTypeOK /\ Guests \in Nat /\ Within \in Nat
<1>1. CheckInTypeOK /\ IsFiniteSet(DOMAIN checkIns)
  BY DEF CheckInIInv, CapacityHolds, RoomIsKept
<1>2. checkIns \in [DOMAIN checkIns -> Nat \ {0}]
  BY <1>1 DEF CheckInTypeOK, IsABag
<1>3. ASSUME NEW those PROVE Number(those) \in Nat
  <2>1. IsFiniteSet(those \cap DOMAIN checkIns)
    BY <1>1, FS_Subset
  <2>2. \A r \in those \cap DOMAIN checkIns : checkIns[r] \in Nat
    BY <1>2
  <2> QED BY <2>1, <2>2, SumWithout DEF Number
<1> QED BY <1>1, <1>3 DEF Guests, Within

\* A step of one handler that writes nothing.
LEMMA TaskStep ==
  ASSUME CheckInAssumption, CheckInIInv, NEW h \in Handlers, NEW t \in Task,
         task' = [task EXCEPT ![h] = t], UNCHANGED <<now, state, aroundVars, servedVars>>,
         overlapped' \in BOOLEAN,
         ~overlapped' => ~overlapped /\ \A g \in Handlers \ {h} : task[g] = IdleTask,
         t.at = "create" => ~t.over /\ Guests < Headcount,
         LocalsAreSet(t),
         t.at = "listCount" => t.listed <= Guests,
         t.at = "answer" => t.listed <= t.counted,
         t.window \in Added => windows[t.window].from <= now,
         ~overlapped' => Undisturbed(t)
  PROVE  CheckInIInv'
<1>1. CheckInTypeOK /\ Guests \in Nat /\ Within \in Nat /\ task \in [Handlers -> Task]
  BY CheckInTypes DEF CheckInTypeOK
<1>2. /\ now' = now /\ state' = state /\ windows' = windows /\ scopes' = scopes
      /\ active' = active /\ rescheduled' = rescheduled
      /\ checkIns' = checkIns /\ flags' = flags
  BY DEF aroundVars, bookedVars, servedVars
<1>3. task' \in [Handlers -> Task] /\ task'[h] = t /\ \A g \in Handlers \ {h} : task'[g] = task[g]
  BY <1>1
<1>4. CheckInTypeOK'
  BY <1>1, <1>2, <1>3 DEF CheckInTypeOK
<1>5. Guests' = Guests /\ Within' = Within /\ Added' = Added
  BY <1>2 DEF Guests, Within, Number, Added
<1>6. /\ About(TRUE)' \subseteq About(TRUE)
      /\ t.at # "create" => About(FALSE)' \subseteq About(FALSE)
  BY <1>3 DEF About
<1>7. /\ Cardinality(About(TRUE)') <= Cardinality(About(TRUE))
      /\ t.at # "create" => Cardinality(About(FALSE)') <= Cardinality(About(FALSE))
      /\ Cardinality(About(FALSE)') <= Cardinality(Handlers)
      /\ Cardinality(About(TRUE)') \in Nat /\ Cardinality(About(FALSE)') \in Nat
  <2>1. IsFiniteSet(Handlers)
    BY DEF CheckInAssumption
  <2>2. About(TRUE)' \in SUBSET Handlers /\ About(FALSE)' \in SUBSET Handlers
    BY DEF About
  <2> QED BY <1>6, <2>1, <2>2, AboutCount, FS_Subset, FS_CardinalityType
<1>8. Headcount \in Nat /\ flags \in Nat
  BY <1>1 DEF CheckInAssumption, CheckInTypeOK
<1>9. RoomIsKept'
  <2>1. PICK a \in Nat, b \in Nat, a2 \in Nat, b2 \in Nat, n \in Nat :
          /\ a = Cardinality(About(FALSE)) /\ a2 = Cardinality(About(FALSE)')
          /\ b = Cardinality(About(TRUE)) /\ b2 = Cardinality(About(TRUE)')
          /\ n = Cardinality(Handlers)
    BY <1>7, AboutCount
  <2>2. Within + a2 <= Headcount + n - 1
    <3>1. Within + a <= Headcount + n - 1 /\ Within <= Guests
      BY <2>1 DEF CheckInIInv, RoomIsKept
    <3>2. CASE t.at = "create"
      <4>1. a2 <= n /\ Guests < Headcount
        BY <1>7, <2>1, <3>2
      <4> QED BY <1>1, <1>8, <3>1, <4>1
    <3>3. CASE t.at # "create"
      <4>1. a2 <= a
        BY <1>7, <2>1, <3>3
      <4> QED BY <1>1, <1>8, <3>1, <4>1
    <3> QED BY <3>2, <3>3
  <2>3. Guests - Within + b2 <= flags
    <3>1. Guests - Within + b <= flags
      BY <2>1 DEF CheckInIInv, RoomIsKept
    <3>2. b2 <= b
      BY <1>7, <2>1
    <3> QED BY <1>1, <1>8, <3>1, <3>2
  <2>4. \A g \in Handlers : task'[g].at = "listCount" => task'[g].listed <= Guests
    BY <1>3 DEF CheckInIInv, RoomIsKept
  <2> QED BY <1>2, <1>5, <2>1, <2>2, <2>3, <2>4 DEF CheckInIInv, RoomIsKept
<1>10. CapacityHolds'
  BY <1>2, <1>3, <1>4, <1>5 DEF CheckInIInv, CapacityHolds
<1>11. WindowsApart' /\ WindowsBegan'
  BY <1>2, <1>3, <1>5 DEF CheckInIInv, WindowsApart, WindowsBegan
<1>12. TurnsAreTaken'
  <2>1. Undisturbed(t)' <=> Undisturbed(t)
    BY <1>2, <1>5 DEF Undisturbed
  <2>2. Undisturbed(IdleTask)'
    BY IdleTaskType DEF Undisturbed
  <2> QED BY <1>3, <2>1, <2>2 DEF TurnsAreTaken
<1>13. \A g \in Handlers : LocalsAreSet(task[g])'
  BY <1>3 DEF CheckInIInv, LocalsAreSet
<1> QED BY <1>9, <1>10, <1>11, <1>12, <1>13 DEF CheckInIInv

\* A request that arrives, and one that goes on or ends.
LEMMA StartStep ==
  ASSUME CheckInAssumption, CheckInIInv, NEW h \in Handlers, NEW t \in Task, Start(h, t),
         UNCHANGED <<now, state, aroundVars, servedVars>>,
         t.at \notin {"create", "listCount", "answer"}, t.window = None,
         LocalsAreSet(t), Undisturbed(t)
  PROVE  CheckInIInv'
<1>1. overlapped \in BOOLEAN /\ None \notin Added
  BY CheckInTypes DEF CheckInTypeOK, CheckInAssumption, Added
<1>2. /\ task' = [task EXCEPT ![h] = t] /\ overlapped' \in BOOLEAN
      /\ ~overlapped' => ~overlapped /\ \A g \in Handlers \ {h} : task[g] = IdleTask
  BY <1>1 DEF Start, TaskBecomes, Note, Busy
<1> QED BY <1>1, <1>2, TaskStep

LEMMA MoveStep ==
  ASSUME CheckInAssumption, CheckInIInv, NEW h \in Handlers, NEW t \in Task,
         task[h] # IdleTask, TaskBecomes(h, t),
         UNCHANGED <<now, state, aroundVars, servedVars, overlapped>>,
         t.at = "create" => ~t.over /\ Guests < Headcount,
         LocalsAreSet(t),
         t.at = "listCount" => t.listed <= Guests,
         t.at = "answer" => t.listed <= t.counted,
         t.window \in Added => windows[t.window].from <= now,
         ~overlapped /\ Undisturbed(task[h]) => Undisturbed(t)
  PROVE  CheckInIInv'
<1>1. overlapped' = overlapped /\ overlapped \in BOOLEAN
  BY CheckInTypes DEF CheckInTypeOK
<1>2. ~overlapped => Undisturbed(task[h]) /\ \A g \in Handlers \ {h} : task[g] = IdleTask
  BY DEF CheckInIInv, TurnsAreTaken
<1>3. UNCHANGED <<now, state, aroundVars, servedVars>>
  OBVIOUS
<1>4. task' = [task EXCEPT ![h] = t]
  BY DEF TaskBecomes
<1>5. ~overlapped' => Undisturbed(t)
  BY <1>1, <1>2
<1>6. ~overlapped' => ~overlapped /\ \A g \in Handlers \ {h} : task[g] = IdleTask
  BY <1>1, <1>2
<1> QED BY <1>1, <1>3, <1>4, <1>5, <1>6, TaskStep

\* A handler that ends frees what it kept.
LEMMA EndStep ==
  ASSUME CheckInAssumption, CheckInIInv, NEW h \in Handlers, task[h] # IdleTask, EndTask(h),
         UNCHANGED <<now, state, aroundVars, servedVars, overlapped>>
  PROVE  CheckInIInv'
<1>1. TaskBecomes(h, IdleTask)
  BY DEF EndTask
<1>2. IdleTask.at \notin {"create", "listCount", "answer"} /\ IdleTask.window \notin Added
  BY IdleTaskType DEF CheckInAssumption, Added
<1>3. LocalsAreSet(IdleTask)
  BY IdleTaskType DEF LocalsAreSet
<1> QED BY <1>1, <1>2, <1>3, IdleTaskType, IdleUndisturbed, MoveStep

\* The handler as it was, wherever it goes on to.
LEMMA HandlerFacts ==
  ASSUME CheckInAssumption, CheckInIInv, NEW h \in Handlers
  PROVE  /\ task[h] \in Task
         /\ task[h].window \in Added => windows[task[h].window].from <= now
         /\ task[h].at # "idle" => task[h] # IdleTask
         /\ LocalsAreSet(task[h])
<1>1. task[h] \in Task
  BY CheckInTypes DEF CheckInTypeOK
<1> QED BY <1>1, IdleTaskType DEF CheckInIInv, WindowsBegan

LEMMA LoadEventKeeps ==
  ASSUME CheckInAssumption, CheckInIInv, NEW h \in Handlers, LoadEvent(h)
  PROVE  CheckInIInv'
<1>1. state \in Served /\ UNCHANGED <<now, state, aroundVars, servedVars>>
  BY DEF LoadEvent
<1>2. CASE Start(h, [IdleTask EXCEPT !.at = "window"])
  <2>1. PICK t : t = [IdleTask EXCEPT !.at = "window"]
    OBVIOUS
  <2>2. t \in Task /\ t.at = "window" /\ t.by = None /\ t.window = None /\ ~t.over
    BY <2>1, IdleTaskType DEF Task, TaskPlaces
  <2>3. Undisturbed(t) /\ LocalsAreSet(t)
    BY <1>1, <2>2 DEF Undisturbed, LocalsAreSet
  <2> QED BY <1>1, <1>2, <2>1, <2>2, <2>3, StartStep
<1>3. ASSUME NEW u \in Managers, Start(h, [IdleTask EXCEPT !.at = "access", !.by = u])
      PROVE  CheckInIInv'
  <2>1. PICK t : t = [IdleTask EXCEPT !.at = "access", !.by = u]
    OBVIOUS
  <2>2. t \in Task /\ t.at = "access" /\ t.window = None /\ ~t.over
    BY <2>1, IdleTaskType DEF Task, TaskPlaces
  <2>3. Undisturbed(t) /\ LocalsAreSet(t)
    BY <1>1, <2>2 DEF Undisturbed, LocalsAreSet
  <2> QED BY <1>1, <1>3, <2>1, <2>2, <2>3, StartStep
<1> QED BY <1>2, <1>3 DEF LoadEvent

LEMMA LoadToListKeeps ==
  ASSUME CheckInAssumption, CheckInIInv, NEW h \in Handlers, LoadToList(h)
  PROVE  CheckInIInv'
<1>1. UNCHANGED <<now, state, aroundVars, servedVars>>
  BY DEF LoadToList
<1>2. CASE Start(h, [IdleTask EXCEPT !.at = "list"])
  <2>1. PICK t : t = [IdleTask EXCEPT !.at = "list"]
    OBVIOUS
  <2>2. t \in Task /\ t.at = "list" /\ t.window = None /\ ~t.over
    BY <2>1, IdleTaskType DEF Task, TaskPlaces
  <2>3. Undisturbed(t) /\ LocalsAreSet(t)
    BY <2>2 DEF Undisturbed, LocalsAreSet
  <2> QED BY <1>1, <1>2, <2>1, <2>2, <2>3, StartStep
<1>3. ASSUME NEW u \in Managers,
             Start(h, [IdleTask EXCEPT !.at = "access", !.by = u, !.lists = TRUE])
      PROVE  CheckInIInv'
  <2>1. PICK t : t = [IdleTask EXCEPT !.at = "access", !.by = u, !.lists = TRUE]
    OBVIOUS
  <2>2. t \in Task /\ t.at = "access" /\ t.lists /\ t.window = None /\ ~t.over
    BY <2>1, IdleTaskType DEF Task, TaskPlaces
  <2>3. Undisturbed(t) /\ LocalsAreSet(t)
    BY <2>2 DEF Undisturbed, LocalsAreSet
  <2> QED BY <1>1, <1>3, <2>1, <2>2, <2>3, StartStep
<1> QED BY <1>2, <1>3 DEF LoadToList

\* A manager with scope goes on to the window, or to the list.
LEMMA CheckAccessKeeps ==
  ASSUME CheckInAssumption, CheckInIInv, NEW h \in Handlers, CheckAccess(h)
  PROVE  CheckInIInv'
<1>1. /\ task[h].at = "access" /\ task[h] # IdleTask
      /\ UNCHANGED <<now, state, aroundVars, servedVars, overlapped>>
  BY HandlerFacts DEF CheckAccess
<1>2. CASE task[h].by \notin scopes
  BY <1>1, <1>2, EndStep DEF CheckAccess
<1>3. CASE task[h].by \in scopes /\ task[h].lists
  <2>1. PICK t : t = [IdleTask EXCEPT !.at = "list"]
    OBVIOUS
  <2>2. t \in Task /\ t.at = "list" /\ t.window = None /\ ~t.over
    BY <2>1, IdleTaskType DEF Task, TaskPlaces
  <2>3. Undisturbed(t) /\ LocalsAreSet(t) /\ t.window \notin Added
    BY <2>2 DEF Undisturbed, LocalsAreSet, CheckInAssumption, Added
  <2>4. TaskBecomes(h, t)
    BY <1>3, <2>1 DEF CheckAccess
  <2> QED BY <1>1, <2>2, <2>3, <2>4, MoveStep
<1>4. CASE task[h].by \in scopes /\ ~task[h].lists
  <2>1. PICK t : t = [task[h] EXCEPT !.at = "window"]
    OBVIOUS
  <2>2. /\ t \in Task /\ t.at = "window" /\ t.window = task[h].window
        /\ t.by = task[h].by /\ t.over = task[h].over
    BY <2>1, HandlerFacts DEF Task, TaskPlaces
  <2>3. Undisturbed(task[h]) => Undisturbed(t)
    BY <1>1, <1>4, <2>2 DEF Undisturbed
  <2>4. TaskBecomes(h, t)
    BY <1>4, <2>1 DEF CheckAccess, GotoPlace
  <2>5. t.window \in Added => windows[t.window].from <= now
    BY <2>2, HandlerFacts
  <2>6. LocalsAreSet(t)
    BY <1>1, <2>2, HandlerFacts DEF LocalsAreSet
  <2> QED BY <1>1, <2>2, <2>3, <2>4, <2>5, <2>6, MoveStep
<1> QED BY <1>2, <1>3, <1>4

\* The window that is found has begun, or there is none to find.
LEMMA FindWindowKeeps ==
  ASSUME CheckInAssumption, CheckInIInv, NEW h \in Handlers, FindWindow(h)
  PROVE  CheckInIInv'
<1>1. /\ task[h].at = "window" /\ task[h] # IdleTask /\ task[h] \in Task
      /\ UNCHANGED <<now, state, aroundVars, servedVars, overlapped>>
  BY HandlerFacts DEF FindWindow
<1>2. PICK s \in Slots \cup {None} :
        /\ s \in Added => windows[s].from <= now
        /\ TaskBecomes(h, [task[h] EXCEPT !.at = "count", !.window = s])
  BY DEF FindWindow, Added, CheckInAssumption
<1>3. PICK t : t = [task[h] EXCEPT !.at = "count", !.window = s]
  OBVIOUS
<1>4. t \in Task /\ t.at = "count" /\ t.window = s /\ t.by = task[h].by /\ t.over = task[h].over
  BY <1>1, <1>3 DEF Task, TaskPlaces
<1>5. Undisturbed(task[h]) => Undisturbed(t)
  BY <1>1, <1>4 DEF Undisturbed
<1>6. TaskBecomes(h, t) /\ (t.window \in Added => windows[t.window].from <= now)
  BY <1>2, <1>3, <1>4
<1>7. LocalsAreSet(t)
  BY <1>1, <1>4, HandlerFacts DEF LocalsAreSet
<1> QED BY <1>1, <1>4, <1>5, <1>6, <1>7, MoveStep

\* A handler that finds a free seat keeps one for its guest.
LEMMA CountKeeps ==
  ASSUME CheckInAssumption, CheckInIInv, NEW h \in Handlers, Count(h)
  PROVE  CheckInIInv'
<1>1. /\ task[h].at = "count" /\ task[h] # IdleTask /\ task[h] \in Task
      /\ UNCHANGED <<now, state, aroundVars, servedVars, overlapped>>
  BY HandlerFacts DEF Count
<1>2. CASE EndTask(h)
  BY <1>1, <1>2, EndStep
<1>3. CASE Guests < Headcount /\ GotoPlace(h, "create")
  <2>1. PICK t : t = [task[h] EXCEPT !.at = "create"]
    OBVIOUS
  <2>2. /\ t \in Task /\ t.at = "create" /\ t.window = task[h].window
        /\ t.by = task[h].by /\ t.over = task[h].over
    BY <1>1, <2>1 DEF Task, TaskPlaces
  <2>3. Undisturbed(task[h]) => Undisturbed(t)
    BY <1>1, <1>3, <2>2 DEF Undisturbed
  <2>4. TaskBecomes(h, t) /\ ~t.over /\ Guests < Headcount
    BY <1>1, <1>3, <2>1, <2>2, HandlerFacts DEF GotoPlace, LocalsAreSet
  <2>5. t.window \in Added => windows[t.window].from <= now
    BY <2>2, HandlerFacts
  <2>6. LocalsAreSet(t)
    BY <2>2 DEF LocalsAreSet
  <2> QED BY <1>1, <2>2, <2>3, <2>4, <2>5, <2>6, MoveStep
<1>4. CASE TaskBecomes(h, [task[h] EXCEPT !.at = "flag", !.over = TRUE])
  <2>1. PICK t : t = [task[h] EXCEPT !.at = "flag", !.over = TRUE]
    OBVIOUS
  <2>2. /\ t \in Task /\ t.at = "flag" /\ t.window = task[h].window
        /\ t.by = task[h].by /\ t.over = TRUE
    BY <1>1, <2>1 DEF Task, TaskPlaces
  <2>3. Undisturbed(task[h]) => Undisturbed(t)
    BY <1>1, <2>2 DEF Undisturbed
  <2>4. TaskBecomes(h, t)
    BY <1>4, <2>1
  <2>5. t.window \in Added => windows[t.window].from <= now
    BY <2>2, HandlerFacts
  <2>6. LocalsAreSet(t)
    BY <2>2 DEF LocalsAreSet
  <2> QED BY <1>1, <2>2, <2>3, <2>4, <2>5, <2>6, MoveStep
<1> QED BY <1>2, <1>3, <1>4 DEF Count

LEMMA ListKeeps ==
  ASSUME CheckInAssumption, CheckInIInv, NEW h \in Handlers, List(h)
  PROVE  CheckInIInv'
<1>1. /\ task[h].at = "list" /\ task[h] # IdleTask /\ task[h] \in Task
      /\ UNCHANGED <<now, state, aroundVars, servedVars, overlapped>>
  BY HandlerFacts DEF List
<1>2. PICK g \in Nat : g = Guests
  BY CheckInTypes
<1>3. PICK t : t = [task[h] EXCEPT !.at = "listCount", !.listed = g]
  OBVIOUS
<1>4. /\ t \in Task /\ t.at = "listCount" /\ t.window = task[h].window
      /\ t.over = task[h].over /\ t.listed = g
  BY <1>1, <1>3 DEF Task, TaskPlaces
<1>5. Undisturbed(t)
  BY <1>4 DEF Undisturbed
<1>6. TaskBecomes(h, t) /\ t.listed <= Guests
  BY <1>2, <1>3, <1>4 DEF List
<1>7. /\ t.window \in Added => windows[t.window].from <= now
      /\ LocalsAreSet(t)
  BY <1>1, <1>4, HandlerFacts DEF LocalsAreSet
<1> QED BY <1>1, <1>4, <1>5, <1>6, <1>7, MoveStep

LEMMA ListCountKeeps ==
  ASSUME CheckInAssumption, CheckInIInv, NEW h \in Handlers, ListCount(h)
  PROVE  CheckInIInv'
<1>1. /\ task[h].at = "listCount" /\ task[h] # IdleTask /\ task[h] \in Task
      /\ UNCHANGED <<now, state, aroundVars, servedVars, overlapped>>
  BY HandlerFacts DEF ListCount
<1>2. PICK g \in Nat : g = Guests
  BY CheckInTypes
<1>3. PICK t : t = [task[h] EXCEPT !.at = "answer", !.counted = g]
  OBVIOUS
<1>4. /\ t \in Task /\ t.at = "answer" /\ t.window = task[h].window
      /\ t.over = task[h].over /\ t.listed = task[h].listed /\ t.counted = g
  BY <1>1, <1>3 DEF Task, TaskPlaces
<1>5. Undisturbed(t)
  BY <1>4 DEF Undisturbed
<1>6. TaskBecomes(h, t) /\ t.listed <= t.counted
  BY <1>1, <1>2, <1>3, <1>4 DEF ListCount, CheckInIInv, RoomIsKept
<1>7. /\ t.window \in Added => windows[t.window].from <= now
      /\ LocalsAreSet(t)
  BY <1>1, <1>4, HandlerFacts DEF LocalsAreSet
<1> QED BY <1>1, <1>4, <1>5, <1>6, <1>7, MoveStep

LEMMA AnswerKeeps ==
  ASSUME CheckInAssumption, CheckInIInv, NEW h \in Handlers, Answer(h)
  PROVE  CheckInIInv'
<1>1. task[h] # IdleTask
  BY HandlerFacts DEF Answer
<1> QED BY <1>1, EndStep DEF Answer

LEMMA FailTaskKeeps ==
  ASSUME CheckInAssumption, CheckInIInv, NEW h \in Handlers, FailTask(h)
  PROVE  CheckInIInv'
BY EndStep DEF FailTask

\* A window that is to be added overlaps none that is there.
LEMMA CheckOverlapKeeps ==
  ASSUME CheckInAssumption, CheckInIInv, NEW h \in Handlers, CheckOverlap(h)
  PROVE  CheckInIInv'
<1>1. UNCHANGED <<now, state, aroundVars, servedVars>>
  BY DEF CheckOverlap
<1>2. PICK w \in Window :
        /\ ~\E s \in Added : Overlap(windows[s], w)
        /\ Start(h, [IdleTask EXCEPT !.at = "insertWindow", !.add = w])
  BY DEF CheckOverlap
<1>3. PICK t : t = [IdleTask EXCEPT !.at = "insertWindow", !.add = w]
  OBVIOUS
<1>4. t \in Task /\ t.at = "insertWindow" /\ t.window = None /\ ~t.over /\ t.add = w
  BY <1>3, IdleTaskType DEF Task, TaskPlaces
<1>5. Undisturbed(t) /\ LocalsAreSet(t)
  BY <1>2, <1>4 DEF Undisturbed, LocalsAreSet
<1>6. Start(h, t)
  BY <1>2, <1>3
<1> QED BY <1>1, <1>4, <1>5, <1>6, StartStep

LEMMA LoadTransitionKeeps ==
  ASSUME CheckInAssumption, CheckInIInv, NEW h \in Handlers, LoadTransition(h)
  PROVE  CheckInIInv'
<1>1. UNCHANGED <<now, state, aroundVars, servedVars>>
  BY DEF LoadTransition
<1>2. PICK to \in StateSet :
        /\ <<state, to>> \in Transitions
        /\ Start(h, [IdleTask EXCEPT !.to = to,
             !.at = IF to = "closed" THEN "checkReservations" ELSE "setState"])
  BY DEF LoadTransition
<1>3. PICK place \in {"checkReservations", "setState"} :
        /\ place = IF to = "closed" THEN "checkReservations" ELSE "setState"
  OBVIOUS
<1>4. PICK t : t = [IdleTask EXCEPT !.to = to, !.at = place]
  OBVIOUS
<1>5. t \in Task /\ t.at = place /\ t.window = None /\ ~t.over /\ t.to = to
  BY <1>4, IdleTaskType DEF Task, TaskPlaces
<1>6. Undisturbed(t) /\ LocalsAreSet(t)
  BY <1>2, <1>3, <1>5 DEF Undisturbed, LocalsAreSet
<1>7. Start(h, t)
  BY <1>2, <1>3, <1>4
<1>8. t.at \notin {"create", "listCount", "answer"}
  BY <1>5
<1> QED BY <1>1, <1>5, <1>6, <1>7, <1>8, StartStep

\* A closing that goes on has found every reservation settled.
LEMMA CheckReservationsKeeps ==
  ASSUME CheckInAssumption, CheckInIInv, NEW h \in Handlers, CheckReservations(h)
  PROVE  CheckInIInv'
<1>1. /\ task[h].at = "checkReservations" /\ task[h] # IdleTask /\ task[h] \in Task
      /\ UNCHANGED <<now, state, aroundVars, servedVars, overlapped>>
  BY HandlerFacts DEF CheckReservations
<1>2. CASE EndTask(h)
  BY <1>1, <1>2, EndStep
<1>3. CASE active = 0 /\ ~rescheduled /\ GotoPlace(h, "setState")
  <2>1. PICK t : t = [task[h] EXCEPT !.at = "setState"]
    OBVIOUS
  <2>2. /\ t \in Task /\ t.at = "setState" /\ t.window = task[h].window
        /\ t.over = task[h].over /\ t.to = task[h].to
    BY <1>1, <2>1 DEF Task, TaskPlaces
  <2>3. Undisturbed(task[h]) => Undisturbed(t)
    BY <1>1, <1>3, <2>2 DEF Undisturbed
  <2>4. TaskBecomes(h, t)
    BY <1>3, <2>1 DEF GotoPlace
  <2>5. /\ t.window \in Added => windows[t.window].from <= now
        /\ LocalsAreSet(t)
    BY <1>1, <2>2, HandlerFacts DEF LocalsAreSet
  <2> QED BY <1>1, <2>2, <2>3, <2>4, <2>5, MoveStep
<1> QED BY <1>2, <1>3 DEF CheckReservations

\* Nobody at work, nobody disturbed.
LEMMA NobodyAtWork ==
  ASSUME \A g \in Handlers : task[g] = IdleTask
  PROVE  TurnsAreTaken
BY IdleUndisturbed DEF TurnsAreTaken

\* What others do, before a handler writes or between two of its steps.
LEMMA AroundStep ==
  ASSUME CheckInAssumption, CheckInIInv, Note, UNCHANGED <<now, servedVars, task>>,
         CheckInTypeOK',
         \A s \in Slots : \/ windows'[s] = windows[s]
                          \/ /\ windows'[s] = NoWindow
                             /\ \A r \in BagToSet(checkIns) : r.window # s
  PROVE  CheckInIInv'
<1>1. now' = now /\ checkIns' = checkIns /\ flags' = flags /\ task' = task
  BY DEF servedVars
<1>2. ~overlapped' => ~overlapped /\ \A h \in Handlers : task[h] = IdleTask
  BY DEF Note, Busy
<1>3. /\ Guests' = Guests /\ Within' = Within
      /\ About(TRUE)' = About(TRUE) /\ About(FALSE)' = About(FALSE)
  BY <1>1 DEF Guests, Within, Number, About
<1>4. \A s \in Added' : s \in Added /\ windows'[s] = windows[s]
  BY DEF Added
<1>5. RoomIsKept' /\ \A h \in Handlers : LocalsAreSet(task[h])'
  BY <1>1, <1>3 DEF CheckInIInv, RoomIsKept, LocalsAreSet
<1>6. CapacityHolds'
  BY <1>1, <1>2, <1>3 DEF CheckInIInv, CapacityHolds
<1>7. WindowsApart'
  BY <1>2, <1>4 DEF CheckInIInv, WindowsApart
<1>8. WindowsBegan'
  <2>1. ASSUME NEW r \in BagToSet(checkIns), r.window # None
        PROVE  r.window \in Added' /\ windows'[r.window].from <= now
    <3>1. r.window \in Added /\ windows[r.window].from <= now
      BY <2>1 DEF CheckInIInv, WindowsBegan
    <3> QED BY <3>1 DEF Added
  <2>2. ASSUME NEW h \in Handlers, task[h].window \in Added'
        PROVE  windows'[task[h].window].from <= now
    BY <1>4, <2>2, HandlerFacts
  <2> QED BY <1>1, <2>1, <2>2 DEF WindowsBegan
<1>9. TurnsAreTaken'
  <2>1. CASE overlapped'
    BY <2>1 DEF TurnsAreTaken
  <2>2. CASE ~overlapped'
    <3>1. \A g \in Handlers : (task[g] = IdleTask)'
      BY <1>1, <1>2, <2>2 DEF IdleTask
    <3>2. \A g \in Handlers : Undisturbed(task[g])'
      BY <3>1, IdleTaskType DEF Undisturbed, IdleTask
    <3> QED BY <3>1, <3>2 DEF TurnsAreTaken
  <2> QED BY <2>1, <2>2
<1> QED BY <1>5, <1>6, <1>7, <1>8, <1>9 DEF CheckInIInv

\* A window goes only when no guest is in it.
LEMMA RemoveWindowKeeps ==
  ASSUME CheckInAssumption, CheckInIInv, RemoveWindow
  PROVE  CheckInIInv'
<1>1. CheckInTypeOK
  BY CheckInTypes
<1>2. PICK s \in Added :
        /\ \A r \in BagToSet(checkIns) : r.window # s
        /\ windows' = [windows EXCEPT ![s] = NoWindow]
  BY DEF RemoveWindow
<1>3. CheckInTypeOK'
  BY <1>1, <1>2
     DEF CheckInTypeOK, RemoveWindow, bookedVars, servedVars, Note, Busy, Added
<1>4. \A r \in Slots : \/ windows'[r] = windows[r]
                       \/ /\ windows'[r] = NoWindow
                          /\ \A c \in BagToSet(checkIns) : c.window # r
  BY <1>1, <1>2 DEF CheckInTypeOK
<1> QED BY <1>3, <1>4, AroundStep DEF RemoveWindow

LEMMA ScopesAndReservationsKeep ==
  ASSUME CheckInAssumption, CheckInIInv,
         AssignScope \/ RemoveScope \/ Reserve \/ Settle \/ Reschedule
  PROVE  CheckInIInv'
<1>1. CheckInTypeOK
  BY CheckInTypes
<1>2. Note /\ UNCHANGED <<now, servedVars, task>> /\ windows' = windows /\ state' = state
  BY DEF AssignScope, RemoveScope, Reserve, Settle, Reschedule
<1>3. scopes' \in SUBSET Managers /\ active' \in Nat /\ rescheduled' \in BOOLEAN
  <2>1. scopes \in SUBSET Managers /\ active \in Nat /\ rescheduled \in BOOLEAN
    BY <1>1 DEF CheckInTypeOK
  <2>2. CASE AssignScope \/ RemoveScope
    <3>1. active' = active /\ rescheduled' = rescheduled
      BY <2>2 DEF AssignScope, RemoveScope, bookedVars
    <3>2. scopes' \in SUBSET Managers
      BY <2>1, <2>2 DEF AssignScope, RemoveScope
    <3> QED BY <2>1, <3>1, <3>2
  <2>3. CASE Reserve \/ Settle \/ Reschedule
    <3>1. scopes' = scopes
      BY <2>3 DEF Reserve, Settle, Reschedule
    <3>2. active' \in Nat
      BY <2>1, <2>3 DEF Reserve, Settle, Reschedule
    <3>3. rescheduled' \in {rescheduled, TRUE}
      BY <2>3 DEF Reserve, Settle, Reschedule
    <3> QED BY <2>1, <3>1, <3>2, <3>3
  <2> QED BY <2>2, <2>3
<1>4. CheckInTypeOK'
  BY <1>1, <1>2, <1>3 DEF CheckInTypeOK, servedVars, Note, Busy
<1>5. \A r \in Slots : \/ windows'[r] = windows[r]
                       \/ /\ windows'[r] = NoWindow
                          /\ \A c \in BagToSet(checkIns) : c.window # r
  BY <1>2
<1> QED BY <1>2, <1>4, <1>5, AroundStep

LEMMA TickKeeps ==
  ASSUME CheckInAssumption, CheckInIInv, Tick
  PROVE  CheckInIInv'
<1>1. /\ now' = now + 1 /\ state' = state /\ windows' = windows /\ scopes' = scopes
      /\ active' = active /\ rescheduled' = rescheduled
      /\ checkIns' = checkIns /\ flags' = flags /\ task' = task
      /\ overlapped' = overlapped /\ now < MaxTime
  BY DEF Tick, aroundVars, bookedVars, servedVars
<1>2. /\ Guests' = Guests /\ Within' = Within /\ Added' = Added
      /\ About(TRUE)' = About(TRUE) /\ About(FALSE)' = About(FALSE)
  BY <1>1 DEF Guests, Within, Number, About, Added
<1>3. CheckInTypeOK
  BY CheckInTypes
<1>4. CheckInTypeOK'
  BY <1>1, <1>3 DEF CheckInTypeOK, Time, CheckInAssumption
<1>5. RoomIsKept' /\ \A h \in Handlers : LocalsAreSet(task[h])'
  BY <1>1, <1>2 DEF CheckInIInv, RoomIsKept, LocalsAreSet
<1>6. CapacityHolds' /\ WindowsApart' /\ TurnsAreTaken'
  <2>1. \A t : Undisturbed(t)' <=> Undisturbed(t)
    BY <1>1, <1>2 DEF Undisturbed
  <2> QED BY <1>1, <1>2, <1>4, <2>1
          DEF CheckInIInv, CapacityHolds, WindowsApart, TurnsAreTaken
<1>7. WindowsBegan'
  <2>1. \A s \in Added : windows[s].from <= now => windows[s].from <= now + 1
    BY <1>3 DEF CheckInTypeOK, Added, Window, NoWindow, Time
  <2> QED BY <1>1, <1>2, <2>1 DEF CheckInIInv, WindowsBegan
<1> QED BY <1>5, <1>6, <1>7 DEF CheckInIInv

\* A handler that has written is done; what holds of the others still does.
LEMMA FlagKeeps ==
  ASSUME CheckInAssumption, CheckInIInv, NEW h \in Handlers, Flag(h)
  PROVE  CheckInIInv'
<1>1. /\ task[h].at = "flag" /\ task[h] # IdleTask /\ task[h] \in Task
      /\ task[h].over /\ flags' = flags + 1
      /\ now' = now /\ state' = state /\ windows' = windows /\ scopes' = scopes
      /\ active' = active /\ rescheduled' = rescheduled
      /\ checkIns' = checkIns /\ overlapped' = overlapped
  BY HandlerFacts DEF Flag, aroundVars, bookedVars, LocalsAreSet
<1>2. PICK t : t = [task[h] EXCEPT !.at = "create"]
  OBVIOUS
<1>3. /\ t \in Task /\ t.at = "create" /\ t.window = task[h].window
      /\ t.by = task[h].by /\ t.over
  BY <1>1, <1>2 DEF Task, TaskPlaces
<1>4. CheckInTypeOK /\ Guests \in Nat /\ Within \in Nat
  BY CheckInTypes
<1>5. /\ task' \in [Handlers -> Task] /\ task'[h] = t
      /\ \A g \in Handlers \ {h} : task'[g] = task[g]
  BY <1>2, <1>3, <1>4 DEF CheckInTypeOK, Flag, GotoPlace, TaskBecomes
<1>6. /\ Guests' = Guests /\ Within' = Within /\ Added' = Added
  BY <1>1 DEF Guests, Within, Number, Added
<1>7. CheckInTypeOK'
  BY <1>1, <1>4, <1>5 DEF CheckInTypeOK
<1>8. RoomIsKept'
  <2>1. About(TRUE)' = About(TRUE) \cup {h} /\ h \notin About(TRUE)
    BY <1>1, <1>3, <1>5 DEF About
  <2>2. About(FALSE)' = About(FALSE)
    BY <1>1, <1>3, <1>5 DEF About
  <2>3. IsFiniteSet(About(TRUE)) /\ Cardinality(About(TRUE)) \in Nat
    BY AboutCount
  <2>4. Cardinality(About(TRUE)') = Cardinality(About(TRUE)) + 1
    BY <2>1, <2>3, FS_AddElement
  <2>5. Guests - Within + Cardinality(About(TRUE)) <= flags /\ flags \in Nat
    BY <1>4 DEF CheckInIInv, RoomIsKept, CheckInTypeOK
  <2>6. Guests' - Within' + Cardinality(About(TRUE)') <= flags'
    <3>1. PICK b \in Nat : b = Cardinality(About(TRUE))
      BY <2>3
    <3>2. PICK g \in Nat, w \in Nat, f \in Nat : g = Guests /\ w = Within /\ f = flags
      BY <1>4, <2>5
    <3>3. g - w + b <= f
      BY <2>5, <3>1, <3>2
    <3>4. g - w + (b + 1) <= f + 1
      BY <3>3
    <3> QED BY <1>1, <1>6, <2>4, <3>1, <3>2, <3>4
  <2>7. \A g \in Handlers : task'[g].at = "listCount" => task'[g].listed <= Guests'
    BY <1>3, <1>5, <1>6 DEF CheckInIInv, RoomIsKept
  <2> QED BY <1>1, <1>6, <2>2, <2>6, <2>7 DEF CheckInIInv, RoomIsKept
<1>9. CapacityHolds'
  <2>1. Guests - Within <= flags /\ flags \in Nat
    BY <1>4 DEF CheckInIInv, CapacityHolds, CheckInTypeOK
  <2>2. Guests' - Within' <= flags'
    BY <1>1, <1>4, <1>6, <2>1
  <2>3. \A g \in Handlers : task'[g].at = "answer" => task'[g].listed <= task'[g].counted
    BY <1>3, <1>5 DEF CheckInIInv, CapacityHolds
  <2> QED BY <1>1, <1>6, <1>7, <2>2, <2>3 DEF CheckInIInv, CapacityHolds
<1>10. WindowsApart' /\ WindowsBegan'
  BY <1>1, <1>3, <1>5, <1>6 DEF CheckInIInv, WindowsApart, WindowsBegan
<1>11. TurnsAreTaken'
  <2>1. ASSUME ~overlapped
        PROVE  /\ Undisturbed(t)' /\ \A g \in Handlers \ {h} : task[g] = IdleTask
    <3>1. Undisturbed(task[h]) /\ \A g \in Handlers \ {h} : task[g] = IdleTask
      BY <1>1, <2>1 DEF CheckInIInv, TurnsAreTaken
    <3> QED BY <1>1, <1>3, <3>1 DEF Undisturbed
  <2>2. Undisturbed(IdleTask)'
    BY IdleTaskType DEF Undisturbed
  <2> QED BY <1>1, <1>5, <2>1, <2>2 DEF TurnsAreTaken
<1>12. \A g \in Handlers : LocalsAreSet(task[g])'
  BY <1>3, <1>5 DEF CheckInIInv, LocalsAreSet
<1> QED BY <1>8, <1>9, <1>10, <1>11, <1>12 DEF CheckInIInv

\* A handler that writes ends; whether it overlapped or not, nobody else began.
LEMMA WrittenTurns ==
  ASSUME CheckInAssumption, CheckInIInv, NEW h \in Handlers, task[h] # IdleTask, EndTask(h),
         overlapped' = overlapped
  PROVE  /\ task' \in [Handlers -> Task] /\ task'[h] = IdleTask
         /\ \A g \in Handlers \ {h} : task'[g] = task[g]
         /\ TurnsAreTaken' /\ \A g \in Handlers : LocalsAreSet(task[g])'
<1>1. task \in [Handlers -> Task]
  BY CheckInTypes DEF CheckInTypeOK
<1>2. /\ task' \in [Handlers -> Task] /\ task'[h] = IdleTask
      /\ \A g \in Handlers \ {h} : task'[g] = task[g]
  BY <1>1, IdleTaskType DEF EndTask, TaskBecomes
<1>3. ~overlapped => \A g \in Handlers : task'[g] = IdleTask
  BY <1>2 DEF CheckInIInv, TurnsAreTaken
<1>4. Undisturbed(IdleTask)'
  BY IdleTaskType DEF Undisturbed
<1>5. TurnsAreTaken'
  BY <1>3, <1>4 DEF TurnsAreTaken
<1>6. \A g \in Handlers : LocalsAreSet(task[g])'
  BY <1>2, IdleTaskType DEF CheckInIInv, LocalsAreSet
<1> QED BY <1>2, <1>5, <1>6

\* The state that is set follows the one that was read, if nobody was in between.
LEMMA SetStateKeeps ==
  ASSUME CheckInAssumption, CheckInIInv, NEW h \in Handlers, SetState(h)
  PROVE  CheckInIInv'
<1>1. /\ task[h].at = "setState" /\ task[h] # IdleTask /\ task[h].to \in StateSet
      /\ EndTask(h) /\ state' = task[h].to
      /\ now' = now /\ windows' = windows /\ scopes' = scopes
      /\ active' = active /\ rescheduled' = rescheduled
      /\ checkIns' = checkIns /\ flags' = flags /\ overlapped' = overlapped
  BY HandlerFacts DEF SetState, aroundVars, bookedVars, servedVars, LocalsAreSet
<1>2. /\ task' \in [Handlers -> Task] /\ task'[h] = IdleTask
      /\ \A g \in Handlers \ {h} : task'[g] = task[g]
      /\ TurnsAreTaken' /\ \A g \in Handlers : LocalsAreSet(task[g])'
  BY <1>1, WrittenTurns
<1>3. Guests' = Guests /\ Within' = Within /\ Added' = Added
  BY <1>1 DEF Guests, Within, Number, Added
<1>4. About(TRUE)' = About(TRUE) /\ About(FALSE)' = About(FALSE)
  BY <1>1, <1>2, IdleTaskType DEF About
<1>5. RoomIsKept'
  BY <1>1, <1>2, <1>3, <1>4, IdleTaskType DEF CheckInIInv, RoomIsKept
<1>6. CheckInTypeOK'
  BY <1>1, <1>2, CheckInTypes DEF CheckInTypeOK
<1>7. CapacityHolds'
  BY <1>1, <1>2, <1>3, <1>6, IdleTaskType DEF CheckInIInv, CapacityHolds
<1>8. WindowsApart' /\ WindowsBegan'
  <2>1. IdleTask.window \notin Added
    BY IdleTaskType DEF CheckInAssumption, Added
  <2> QED BY <1>1, <1>2, <1>3, <2>1 DEF CheckInIInv, WindowsApart, WindowsBegan
<1> QED BY <1>2, <1>5, <1>7, <1>8 DEF CheckInIInv

\* The window is added; it is apart from the others if nobody was in between.
LEMMA AddWindowKeeps ==
  ASSUME CheckInAssumption, CheckInIInv, NEW h \in Handlers, AddWindow(h)
  PROVE  CheckInIInv'
<1>1. /\ task[h].at = "insertWindow" /\ task[h] # IdleTask /\ task[h] \in Task
      /\ EndTask(h) /\ state' = state
      /\ now' = now /\ scopes' = scopes
      /\ active' = active /\ rescheduled' = rescheduled
      /\ checkIns' = checkIns /\ flags' = flags /\ overlapped' = overlapped
  BY HandlerFacts DEF AddWindow, bookedVars, servedVars
<1>2. PICK s \in Slots \ (Added \cup {task[g].window : g \in Handlers}) :
        windows' = [windows EXCEPT ![s] = task[h].add]
  BY DEF AddWindow
<1>3. CheckInTypeOK
  BY CheckInTypes
<1>4. /\ windows' \in [Slots -> Window \cup {NoWindow}]
      /\ windows'[s] = task[h].add /\ \A r \in Slots \ {s} : windows'[r] = windows[r]
  BY <1>1, <1>2, <1>3 DEF CheckInTypeOK, Task
<1>5. /\ Added \subseteq Added' /\ Added' \subseteq Added \cup {s} /\ s \notin Added
      /\ \A r \in Added : windows'[r] = windows[r]
  BY <1>2, <1>4 DEF Added
<1>6. /\ task' \in [Handlers -> Task] /\ task'[h] = IdleTask
      /\ \A g \in Handlers \ {h} : task'[g] = task[g]
      /\ TurnsAreTaken' /\ \A g \in Handlers : LocalsAreSet(task[g])'
  BY <1>1, WrittenTurns
<1>7. Guests' = Guests /\ Within' = Within
  BY <1>1 DEF Guests, Within, Number
<1>8. About(TRUE)' = About(TRUE) /\ About(FALSE)' = About(FALSE)
  BY <1>1, <1>6, IdleTaskType DEF About
<1>9. RoomIsKept'
  BY <1>1, <1>6, <1>7, <1>8, IdleTaskType DEF CheckInIInv, RoomIsKept
<1>10. CheckInTypeOK'
  BY <1>1, <1>3, <1>4, <1>6 DEF CheckInTypeOK
<1>11. CapacityHolds'
  BY <1>1, <1>6, <1>7, <1>10, IdleTaskType DEF CheckInIInv, CapacityHolds
<1>12. WindowsApart'
  <2>1. SUFFICES ASSUME ~overlapped
                 PROVE  \A q, r \in Added' : q # r => ~Overlap(windows'[q], windows'[r])
    BY <1>1 DEF WindowsApart, Overlap
  <2>2. \A r \in Added : ~Overlap(windows[r], task[h].add)
    BY <1>1, <2>1 DEF CheckInIInv, TurnsAreTaken, Undisturbed
  <2>3. \A q, r \in Added : q # r => ~Overlap(windows[q], windows[r])
    BY <2>1 DEF CheckInIInv, WindowsApart
  <2>4. \A v, w : Overlap(v, w) <=> Overlap(w, v)
    BY DEF Overlap
  <2>5. ASSUME NEW q \in Added', NEW r \in Added', q # r
        PROVE  ~Overlap(windows'[q], windows'[r])
    <3>1. CASE q \in Added /\ r \in Added
      BY <1>5, <2>3, <2>5, <3>1
    <3>2. CASE q = s
      BY <1>4, <1>5, <2>2, <2>4, <2>5, <3>2
    <3>3. CASE r = s
      BY <1>4, <1>5, <2>2, <2>5, <3>3
    <3> QED BY <1>5, <3>1, <3>2, <3>3
  <2> QED BY <2>5
<1>13. WindowsBegan'
  <2>1. ASSUME NEW r \in BagToSet(checkIns), r.window # None
        PROVE  r.window \in Added' /\ windows'[r.window].from <= now
    BY <1>5, <2>1 DEF CheckInIInv, WindowsBegan
  <2>2. ASSUME NEW g \in Handlers, task'[g].window \in Added'
        PROVE  windows'[task'[g].window].from <= now
    <3>1. g # h
      BY <1>2, <1>6, <2>2, IdleTaskType DEF Added, CheckInAssumption
    <3>2. task'[g] = task[g] /\ task[g].window \in Added
      BY <1>2, <1>5, <1>6, <2>2, <3>1
    <3> QED BY <1>5, <3>2, HandlerFacts
  <2> QED BY <1>1, <2>1, <2>2 DEF WindowsBegan
<1> QED BY <1>6, <1>9, <1>11, <1>12, <1>13 DEF CheckInIInv

\* A guest is written: within the headcount, as the handler had counted, or
\* beyond it, as it had flagged.
LEMMA OneMoreOfThem ==
  ASSUME NEW w \in Nat, NEW g \in Nat, NEW a \in Nat, NEW b \in Nat, NEW m \in Int,
         NEW f \in Nat, w <= g, w + a <= m, g - w + b <= f
  PROVE  /\ w <= g + 1 /\ g + 1 - w + (b - 1) <= f
         /\ w + 1 <= g + 1 /\ w + 1 + (a - 1) <= m /\ g + 1 - (w + 1) + b <= f
OBVIOUS

\* The sum of the rows grows by the one that is written, and so does its part.
LEMMA GuestIsWritten ==
  ASSUME CheckInAssumption, CheckInIInv, NEW h \in Handlers, CreateCheckIn(h),
         task[h].window \in Added \cup {None}
  PROVE  CheckInIInv'
<1>1. task[h].at = "create" /\ task[h] # IdleTask /\ task[h] \in Task /\ EndTask(h)
  BY HandlerFacts DEF CreateCheckIn
<1>2. /\ now' = now /\ state' = state /\ windows' = windows /\ scopes' = scopes
      /\ active' = active /\ rescheduled' = rescheduled
      /\ flags' = flags /\ overlapped' = overlapped
  BY DEF CreateCheckIn, aroundVars, bookedVars
<1>3. CheckInTypeOK /\ Guests \in Nat /\ Within \in Nat
  BY CheckInTypes
<1>4. IsABag(checkIns) /\ IsFiniteSet(DOMAIN checkIns)
  BY <1>3 DEF CheckInIInv, RoomIsKept, CheckInTypeOK
<1>5. PICK r : r = [window |-> task[h].window, over |-> task[h].over]
  OBVIOUS
<1>6. /\ r \in CheckInRow /\ r.window = task[h].window /\ r.over = task[h].over
      /\ Joins(r, checkIns, checkIns')
  <2>1. task[h].window \in Slots \cup {None} /\ task[h].over \in BOOLEAN
    BY <1>1 DEF Task
  <2>2. Joins(r, checkIns, checkIns')
    BY <1>5 DEF CreateCheckIn, Joins
  <2> QED BY <1>5, <2>1, <2>2 DEF CheckInRow
<1>7. /\ IsABag(checkIns') /\ DOMAIN checkIns' = DOMAIN checkIns \cup {r}
      /\ IsFiniteSet(DOMAIN checkIns')
      /\ Guests' = Guests + 1
      /\ r.over => Within' = Within
      /\ ~r.over => Within' = Within + 1
  <2>1. /\ IsABag(checkIns') /\ DOMAIN checkIns' = DOMAIN checkIns \cup {r}
        /\ IsFiniteSet(DOMAIN checkIns')
    BY <1>4, <1>6, RowJoins
  <2>2. ASSUME NEW those
        PROVE  /\ r \in those => Number(those)' = Number(those) + 1
               /\ r \notin those => Number(those)' = Number(those)
    <3>1. /\ r \in those => HowMany(checkIns', those) = HowMany(checkIns, those) + 1
          /\ r \notin those => HowMany(checkIns', those) = HowMany(checkIns, those)
      <4>1. PICK b, c : b = checkIns /\ c = checkIns'
        OBVIOUS
      <4>2. IsABag(b) /\ IsFiniteSet(DOMAIN b) /\ Joins(r, b, c)
        BY <1>4, <1>6, <4>1
      <4>3. /\ r \in those => HowMany(c, those) = HowMany(b, those) + 1
            /\ r \notin those => HowMany(c, those) = HowMany(b, those)
        BY <4>2, OneMoreRow
      <4> QED BY <4>1, <4>3
    <3> QED BY <3>1 DEF Number, HowMany
  <2>3. Guests' = Guests + 1
    BY <1>6, <2>2 DEF Guests
  <2>4. /\ r.over => Within' = Within
        /\ ~r.over => Within' = Within + 1
    BY <1>6, <2>2 DEF Within
  <2> QED BY <2>1, <2>3, <2>4
<1>8. /\ task' \in [Handlers -> Task] /\ task'[h] = IdleTask
      /\ \A g \in Handlers \ {h} : task'[g] = task[g]
      /\ TurnsAreTaken' /\ \A g \in Handlers : LocalsAreSet(task[g])'
  BY <1>1, <1>2, WrittenTurns
<1>9. Added' = Added
  BY <1>2 DEF Added
<1>10. CheckInTypeOK'
  BY <1>2, <1>3, <1>6, <1>7, <1>8 DEF CheckInTypeOK, BagToSet
<1>11. RoomIsKept'
  <2>1. /\ About(r.over)' = About(r.over) \ {h} /\ h \in About(r.over)
        /\ About(~r.over)' = About(~r.over)
        /\ r.over \in BOOLEAN
    BY <1>1, <1>6, <1>8, IdleTaskType DEF About, CheckInRow
  <2>2. PICK a \in Nat, b \in Nat, n \in Nat :
          /\ a = Cardinality(About(FALSE)) /\ b = Cardinality(About(TRUE))
          /\ n = Cardinality(Handlers)
    BY AboutCount
  <2>3. PICK g \in Nat, w \in Nat : g = Guests /\ w = Within
    BY <1>3
  <2>4. PICK l \in Nat, f \in Nat : l = Headcount /\ f = flags
    BY <1>3 DEF CheckInTypeOK, CheckInAssumption
  <2>5. w <= g /\ w + a <= l + n - 1 /\ g - w + b <= f
    BY <2>4, <1>3, <2>2, <2>3 DEF CheckInIInv, RoomIsKept
  <2>6. \A i \in Handlers : task'[i].at = "listCount" => task'[i].listed <= Guests'
    <3> SUFFICES ASSUME NEW i \in Handlers, task'[i].at = "listCount"
                 PROVE  task'[i].listed <= Guests'
      OBVIOUS
    <3>1. task'[i] = task[i] /\ task[i] \in Task
      BY <1>3, <1>8, IdleTaskType DEF CheckInTypeOK
    <3>2. PICK c \in Nat : c = task[i].listed
      BY <3>1 DEF Task
    <3>3. c <= g
      BY <2>3, <3>1, <3>2 DEF CheckInIInv, RoomIsKept
    <3>4. c <= g + 1
      BY <3>3
    <3> QED BY <1>7, <2>3, <3>1, <3>2, <3>4
  <2>7. /\ w <= g + 1 /\ g + 1 - w + (b - 1) <= f /\ l + n - 1 \in Int
        /\ w + 1 <= g + 1 /\ w + 1 + (a - 1) <= l + n - 1 /\ g + 1 - (w + 1) + b <= f
    <3>1. l + n - 1 \in Int
      OBVIOUS
    <3> QED BY <2>5, <3>1, OneMoreOfThem
  <2>8. CASE r.over
    <3>1. About(TRUE)' = About(TRUE) \ {h} /\ h \in About(TRUE) /\ About(FALSE)' = About(FALSE)
      BY <2>1, <2>8
    <3>2. Cardinality(About(TRUE)') = b - 1
      BY <2>2, <3>1, AboutCount, FS_RemoveElement
    <3>3. Guests' = g + 1 /\ Within' = w
      BY <1>7, <2>3, <2>8
    <3>4. Within' <= Guests'
      BY <2>7, <3>3
    <3>5. Within' + Cardinality(About(FALSE)') <= Headcount + Cardinality(Handlers) - 1
      BY <2>2, <2>5, <2>4, <3>1, <3>3
    <3>6. Guests' - Within' + Cardinality(About(TRUE)') <= flags'
      <4>1. PICK c \in Int : c = b - 1
        OBVIOUS
      <4>2. flags' = f /\ Cardinality(About(TRUE)') = c
        BY <1>2, <2>4, <3>2, <4>1
      <4>3. Guests' - Within' + c <= f
        BY <2>7, <3>3, <4>1
      <4> QED BY <4>2, <4>3
    <3> QED BY <1>7, <2>6, <3>4, <3>5, <3>6 DEF RoomIsKept
  <2>9. CASE ~r.over
    <3>1. About(FALSE)' = About(FALSE) \ {h} /\ h \in About(FALSE) /\ About(TRUE)' = About(TRUE)
      BY <2>1, <2>9
    <3>2. Cardinality(About(FALSE)') = a - 1
      BY <2>2, <3>1, AboutCount, FS_RemoveElement
    <3>3. Guests' = g + 1 /\ Within' = w + 1
      BY <1>7, <2>3, <2>9
    <3>4. Within' <= Guests'
      BY <2>7, <3>3
    <3>5. Within' + Cardinality(About(FALSE)') <= Headcount + Cardinality(Handlers) - 1
      BY <2>2, <2>4, <2>7, <3>2, <3>3
    <3>6. Guests' - Within' + Cardinality(About(TRUE)') <= flags'
      <4>1. flags' = f /\ Cardinality(About(TRUE)') = b
        BY <1>2, <2>2, <2>4, <3>1
      <4>2. Guests' - Within' + b <= f
        BY <2>7, <3>3
      <4> QED BY <4>1, <4>2
    <3> QED BY <1>7, <2>6, <3>4, <3>5, <3>6 DEF RoomIsKept
  <2> QED BY <2>8, <2>9
<1>12. CapacityHolds'
  <2>1. PICK a \in Nat, b \in Nat, n \in Nat :
          /\ a = Cardinality(About(FALSE)') /\ b = Cardinality(About(TRUE)')
          /\ n = Cardinality(Handlers)
    <3>1. About(FALSE)' \in SUBSET Handlers /\ About(TRUE)' \in SUBSET Handlers
      BY DEF About
    <3> QED BY <3>1, FS_Subset, FS_CardinalityType DEF CheckInAssumption
  <2>2. PICK g \in Nat, w \in Nat, l \in Nat, f \in Nat :
          g = Guests' /\ w = Within' /\ l = Headcount /\ f = flags'
    BY <1>3, <1>7, <1>10 DEF CheckInTypeOK, CheckInAssumption
  <2>3. w + a <= l + n - 1 /\ g - w + b <= f
    BY <1>11, <2>1, <2>2 DEF RoomIsKept
  <2>4. w <= l + n - 1 /\ g - w <= f
    BY <2>3
  <2>5. ~overlapped => w <= l
    <3> SUFFICES ASSUME ~overlapped PROVE w <= l
      OBVIOUS
    <3>1. Undisturbed(task[h]) /\ Within <= Guests /\ Within <= Headcount
      BY <1>1 DEF CheckInIInv, TurnsAreTaken, RoomIsKept, CapacityHolds
    <3>2. CASE r.over
      BY <1>7, <2>2, <3>1, <3>2
    <3>3. CASE ~r.over
      <4>1. Guests < Headcount
        BY <1>1, <1>6, <3>1, <3>3 DEF Undisturbed
      <4>2. Within + 1 <= l
        BY <1>3, <2>2, <3>1, <4>1
      <4> QED BY <1>7, <2>2, <3>3, <4>2
    <3> QED BY <3>2, <3>3
  <2>6. \A i \in Handlers : task'[i].at = "answer" => task'[i].listed <= task'[i].counted
    BY <1>8, IdleTaskType DEF CheckInIInv, CapacityHolds
  <2>7. /\ Within' <= Headcount + Cardinality(Handlers) - 1
        /\ Guests' - Within' <= flags'
        /\ ~overlapped' => Within' <= Headcount
    BY <1>2, <2>1, <2>2, <2>4, <2>5
  <2> QED BY <1>10, <2>6, <2>7 DEF CapacityHolds
<1>13. WindowsApart'
  BY <1>2, <1>9 DEF CheckInIInv, WindowsApart
<1>14. WindowsBegan'
  <2>1. ASSUME NEW c \in BagToSet(checkIns'), c.window # None
        PROVE  c.window \in Added /\ windows[c.window].from <= now
    <3>1. CASE c = r
      BY <1>6, <2>1, <3>1, HandlerFacts
    <3>2. CASE c # r
      BY <1>7, <2>1, <3>2 DEF BagToSet, CheckInIInv, WindowsBegan
    <3> QED BY <3>1, <3>2
  <2>2. ASSUME NEW g \in Handlers, task'[g].window \in Added
        PROVE  windows[task'[g].window].from <= now
    <3>1. g # h
      BY <1>8, <2>2, IdleTaskType DEF Added, CheckInAssumption
    <3> QED BY <1>8, <2>2, <3>1, HandlerFacts
  <2> QED BY <1>2, <1>9, <2>1, <2>2 DEF WindowsBegan
<1> QED BY <1>8, <1>11, <1>12, <1>13, <1>14 DEF CheckInIInv

LEMMA CreateCheckInKeeps ==
  ASSUME CheckInAssumption, CheckInIInv, NEW h \in Handlers, CreateCheckIn(h)
  PROVE  CheckInIInv'
<1>1. /\ task[h].at = "create" /\ task[h] # IdleTask /\ task[h] \in Task
      /\ EndTask(h) /\ UNCHANGED <<now, state, aroundVars, flags, overlapped>>
  BY HandlerFacts DEF CreateCheckIn
<1>2. CASE task[h].window \in Added \cup {None}
  BY <1>2, GuestIsWritten
<1>3. CASE task[h].window \notin Added \cup {None}
  <2>1. UNCHANGED <<now, state, aroundVars, servedVars, overlapped>>
    BY <1>1, <1>3 DEF CreateCheckIn, servedVars
  <2> QED BY <1>1, <2>1, EndStep
<1> QED BY <1>2, <1>3

LEMMA StartsInvariant ==
  ASSUME CheckInAssumption, CheckInInit
  PROVE  CheckInIInv
<1>1. /\ now = 0 /\ state = "approved" /\ scopes = {} /\ active = 0 /\ rescheduled = FALSE
      /\ checkIns = EmptyBag /\ flags = 0 /\ overlapped = FALSE
      /\ task = [h \in Handlers |-> IdleTask]
  BY DEF CheckInInit
<1>2. /\ windows \in [Slots -> Window \cup {NoWindow}]
      /\ \A q, r \in Added : q = r
  BY DEF CheckInInit, Added
<1>3. IsABag(checkIns) /\ DOMAIN checkIns = {} /\ BagToSet(checkIns) = {}
  BY <1>1 DEF EmptyBag, SetToBag, IsABag, BagToSet
<1>4. Guests = 0 /\ Within = 0
  <2>1. \A those : those \cap DOMAIN checkIns = {}
    BY <1>3
  <2> QED BY <2>1, SumOfNone DEF Guests, Within, Number
<1>5. CheckInTypeOK
  <2>1. now \in Time
    BY <1>1 DEF Time, CheckInAssumption
  <2>2. task \in [Handlers -> Task]
    BY <1>1, IdleTaskType
  <2>3. BagToSet(checkIns) \subseteq CheckInRow
    BY <1>3
  <2>4. active \in Nat /\ flags \in Nat /\ scopes \in SUBSET Managers
    BY <1>1
  <2> QED BY <1>1, <1>2, <1>3, <2>1, <2>2, <2>3, <2>4 DEF CheckInTypeOK, StateSet
<1>6. About(TRUE) = {} /\ About(FALSE) = {}
  BY <1>1, IdleTaskType DEF About
<1>7. Cardinality(About(TRUE)) = 0 /\ Cardinality(About(FALSE)) = 0
  BY <1>6, FS_EmptySet
<1>8. PICK n \in Nat, l \in Nat : n = Cardinality(Handlers) /\ n > 0 /\ l = Headcount
  BY AboutCount DEF CheckInAssumption
<1>9. /\ 0 <= l + n - 1 /\ 0 + 0 <= l + n - 1 /\ 0 <= l
      /\ 0 - 0 <= 0 /\ 0 - 0 + 0 <= 0 /\ 0 <= 0
  BY <1>8
<1>10. CapacityHolds
  BY <1>1, <1>4, <1>5, <1>8, <1>9, IdleTaskType DEF CapacityHolds
<1>11. RoomIsKept
  <2>1. IsFiniteSet(DOMAIN checkIns)
    BY <1>3, FS_EmptySet
  <2> QED BY <1>1, <1>4, <1>7, <1>8, <1>9, <2>1, IdleTaskType DEF RoomIsKept
<1>12. WindowsApart /\ WindowsBegan
  BY <1>1, <1>2, <1>3, IdleTaskType DEF WindowsApart, WindowsBegan, Added,
      CheckInAssumption
<1>13. TurnsAreTaken /\ \A h \in Handlers : LocalsAreSet(task[h])
  BY <1>1, NobodyAtWork, IdleTaskType DEF LocalsAreSet
<1> QED BY <1>10, <1>11, <1>12, <1>13 DEF CheckInIInv

\* Each step of a handler, by its place.
LEMMA CheckInStepKeeps ==
  ASSUME CheckInAssumption, CheckInIInv, [CheckInNext]_checkInVars
  PROVE  CheckInIInv'
<1>1. ASSUME NEW h \in Handlers, Request(h)
      PROVE  CheckInIInv'
  BY <1>1, LoadEventKeeps, LoadToListKeeps, CheckOverlapKeeps, LoadTransitionKeeps
     DEF Request
<1>2. ASSUME NEW h \in Handlers, Step(h)
      PROVE  CheckInIInv'
  BY <1>2, CheckAccessKeeps, FindWindowKeeps, CountKeeps, FlagKeeps, CreateCheckInKeeps,
     ListKeeps, ListCountKeeps, AnswerKeeps, AddWindowKeeps, CheckReservationsKeeps,
     SetStateKeeps
     DEF Step
<1>3. ASSUME NEW h \in Handlers, FailTask(h)
      PROVE  CheckInIInv'
  BY <1>3, FailTaskKeeps
<1>4. CASE RemoveWindow
  BY <1>4, RemoveWindowKeeps
<1>5. CASE AssignScope \/ RemoveScope \/ Reserve \/ Settle \/ Reschedule
  BY <1>5, ScopesAndReservationsKeep
<1>6. CASE Tick
  BY <1>6, TickKeeps
<1>7. CASE UNCHANGED checkInVars
  <2>1. /\ now' = now /\ state' = state /\ windows' = windows /\ scopes' = scopes
        /\ active' = active /\ rescheduled' = rescheduled
        /\ checkIns' = checkIns /\ flags' = flags /\ task' = task
        /\ overlapped' = overlapped
    BY <1>7 DEF checkInVars, aroundVars, bookedVars, servedVars
  <2>2. /\ Guests' = Guests /\ Within' = Within /\ Added' = Added
        /\ About(TRUE)' = About(TRUE) /\ About(FALSE)' = About(FALSE)
    BY <2>1 DEF Guests, Within, Number, About, Added
  <2>3. CheckInTypeOK'
    BY <2>1, CheckInTypes DEF CheckInTypeOK
  <2>4. \A t : /\ Undisturbed(t)' <=> Undisturbed(t)
               /\ LocalsAreSet(t)' <=> LocalsAreSet(t)
    BY <2>1, <2>2 DEF Undisturbed, LocalsAreSet
  <2> QED BY <2>1, <2>2, <2>3, <2>4
          DEF CheckInIInv, CapacityHolds, WindowsApart, RoomIsKept, WindowsBegan,
              TurnsAreTaken
<1> QED BY <1>1, <1>2, <1>3, <1>4, <1>5, <1>6, <1>7 DEF CheckInNext

\* Room is kept for every handler that has counted, and turns are taken while
\* no request overlaps (checkIn, addServiceWindow, transitionState).
THEOREM CheckInInvariance == CheckInSpec => []CheckInIInv
<1>1. CheckInInit => CheckInIInv
  BY CheckInAssumption, StartsInvariant
<1>2. CheckInIInv /\ [CheckInNext]_checkInVars => CheckInIInv'
  BY CheckInAssumption, CheckInStepKeeps
<1> QED BY <1>1, <1>2, PTL DEF CheckInSpec

\* The capacity is passed by fewer guests than there are other handlers, and
\* guests beyond it are flagged (getOccupancyCount, logOverCapacity).
THEOREM CapacityIsKept == CheckInSpec => []CapacityHolds
<1>1. CheckInIInv => CapacityHolds
  BY DEF CheckInIInv
<1> QED BY <1>1, CheckInInvariance, PTL

\* Windows overlap only when requests do (addServiceWindow).
THEOREM WindowsStayApart == CheckInSpec => []WindowsApart
<1>1. CheckInIInv => WindowsApart
  BY DEF CheckInIInv
<1> QED BY <1>1, CheckInInvariance, PTL

\* The action property, step by step: only one inserts a row, only one closes.
LEMMA StepServesInTurn ==
  ASSUME CheckInAssumption, CheckInIInv, CheckInIInv', CheckInNext
  PROVE  /\ \A r \in BagToSet(checkIns') : r.window # None =>
              windows'[r.window].from <= now' /\ r.window \in Added
         /\ ~overlapped' =>
              /\ checkIns' # checkIns =>
                   /\ state \in Served
                   /\ \A h \in Handlers : task[h].by \in scopes \cup {None}
              /\ state # "closed" /\ state' = "closed" =>
                   active = 0 /\ ~rescheduled
<1>1. CASE /\ \E h \in Handlers : CreateCheckIn(h)
  <2>1. PICK h \in Handlers : CreateCheckIn(h)
    BY <1>1
  <2>2. /\ windows' = windows /\ now' = now /\ state' = state
        /\ overlapped' = overlapped /\ task[h].at = "create"
    BY <2>1 DEF CreateCheckIn, aroundVars
  <2>3. Added' = Added
    BY <2>2 DEF Added
  <2>4. \A r \in BagToSet(checkIns') : r.window # None =>
          windows'[r.window].from <= now' /\ r.window \in Added
    BY <2>3 DEF CheckInIInv, WindowsBegan
  <2>5. ASSUME ~overlapped', checkIns' # checkIns
        PROVE  /\ state \in Served
               /\ \A g \in Handlers : task[g].by \in scopes \cup {None}
    <3>1. /\ Undisturbed(task[h]) /\ task[h] # IdleTask
          /\ \A g \in Handlers \ {h} : task[g] = IdleTask
      BY <2>2, <2>5, HandlerFacts DEF CheckInIInv, TurnsAreTaken
    <3> QED BY <2>2, <3>1, IdleTaskType DEF Undisturbed
  <2> QED BY <2>2, <2>4, <2>5
<1>2. CASE ~\E h \in Handlers : CreateCheckIn(h)
  <2>1. checkIns' = checkIns
    BY <1>2 DEF CheckInNext, Request, Step, FailTask, LoadEvent, LoadToList,
        CheckOverlap,
            LoadTransition, CheckAccess, FindWindow, Count, Flag, List, ListCount, Answer,
            AddWindow, CheckReservations, SetState, RemoveWindow, AssignScope,
            RemoveScope, Reserve, Settle, Reschedule, Tick, servedVars
  <2>2. \A r \in BagToSet(checkIns') : r.window # None =>
          windows'[r.window].from <= now' /\ r.window \in Added
    BY <2>1 DEF CheckInIInv, WindowsBegan
  <2>3. ASSUME ~overlapped', state # "closed", state' = "closed"
        PROVE  active = 0 /\ ~rescheduled
    <3>1. PICK h \in Handlers : SetState(h)
      BY <1>2, <2>3
         DEF CheckInNext, Request, Step, FailTask, LoadEvent, LoadToList, CheckOverlap,
             LoadTransition, CheckAccess, FindWindow, Count, Flag, List, ListCount, Answer,
             AddWindow, CheckReservations, RemoveWindow, AssignScope,
             RemoveScope, Reserve, Settle, Reschedule, Tick
    <3>2. task[h].at = "setState" /\ task[h].to = "closed" /\ ~overlapped
      BY <2>3, <3>1 DEF SetState
    <3> QED BY <3>2 DEF CheckInIInv, TurnsAreTaken, Undisturbed
  <2> QED BY <2>1, <2>2, <2>3
<1> QED BY <1>1, <1>2

\* No guest in a window that has not begun or is gone; and without overlapping
\* requests only while the event is served, for a manager with scope, and no
\* event is closed over a reservation that is not settled (checkIn,
\* validateClosure).
THEOREM GuestsAreServedInTurn == CheckInSpec => ServedInTurn
<1>1. CheckInIInv /\ CheckInIInv' /\ [CheckInNext]_checkInVars =>
        [/\ \A r \in BagToSet(checkIns') :
              r.window # None => windows'[r.window].from <= now' /\ r.window \in Added
         /\ ~overlapped' =>
              /\ checkIns' # checkIns =>
                   /\ state \in Served
                   /\ \A h \in Handlers : task[h].by \in scopes \cup {None}
              /\ state # "closed" /\ state' = "closed" =>
                   active = 0 /\ ~rescheduled]_checkInVars
  BY CheckInAssumption, StepServesInTurn
<1> QED BY <1>1, CheckInInvariance, PTL DEF CheckInSpec, ServedInTurn
-------------------------------------------------------------------------------
(***************************************************************************)
(* Catalog: metadata are checked, and the tree shows what is published.    *)
(***************************************************************************)
Phases == {"idle", "insert", "tag", "check", "write"}

\* A body that names nothing.
LEMMA NoWorkType ==
  ASSUME CatalogAssumption
  PROVE  /\ NoBody \in Body /\ NoWork \in Work /\ NoWork.body = NoBody
         /\ NoBody.template = Null /\ NoBody.given = FALSE
BY DEF CatalogAssumption, NoWork, NoBody, Work, Body, Metadata, Empty, Unknown, Null

\* What the invariant says, part by part.
LEMMA CatalogTypes ==
  ASSUME CatalogAssumption, CatalogIInv
  PROVE  /\ CatalogTypeOK
         /\ Len(resources) \in Nat /\ DOMAIN resources = 1..Len(resources)
         /\ Len(templates) \in Nat /\ DOMAIN templates = 1..Len(templates)
         /\ DOMAIN hadRules = DOMAIN templates /\ DOMAIN published = DOMAIN resources
         /\ DOMAIN resources \subseteq 1..MaxResources
         /\ DOMAIN templates \subseteq 1..MaxTemplates
         /\ IsFiniteSet(Inserting) /\ Cardinality(Inserting) \in Nat
         /\ Keep \notin DOMAIN templates /\ Null \notin DOMAIN templates
<1>1. CatalogTypeOK
  BY DEF CatalogIInv, MetadataWereChecked
<1>2. /\ Len(resources) \in Nat /\ DOMAIN resources = 1..Len(resources)
      /\ Len(templates) \in Nat /\ DOMAIN templates = 1..Len(templates)
      /\ DOMAIN hadRules = 1..Len(hadRules) /\ DOMAIN published = 1..Len(published)
  BY <1>1, LenProperties DEF CatalogTypeOK
<1>3. DOMAIN hadRules = DOMAIN templates /\ DOMAIN published = DOMAIN resources
  BY <1>1, <1>2 DEF CatalogTypeOK
<1>4. IsFiniteSet(Inserting) /\ Cardinality(Inserting) \in Nat
  <2>1. Inserting \in SUBSET Editors
    BY DEF Inserting
  <2> QED BY <2>1, FS_Subset, FS_CardinalityType DEF CatalogAssumption
<1>5. PICK n \in Nat : n = Cardinality(Inserting)
  BY <1>4
<1>6. Len(resources) + n <= MaxResources /\ Len(templates) <= MaxTemplates
  BY <1>5 DEF CatalogIInv, RoomForInserts
<1>7. /\ DOMAIN resources \subseteq 1..MaxResources
      /\ DOMAIN templates \subseteq 1..MaxTemplates
  BY <1>2, <1>6 DEF CatalogAssumption
<1>8. Keep \notin DOMAIN templates /\ Null \notin DOMAIN templates
  BY <1>2 DEF Keep, Null
<1> QED BY <1>1, <1>2, <1>3, <1>4, <1>7, <1>8

\* An editor that goes on to another place.
LEMMA EditorMoves ==
  ASSUME CatalogAssumption, CatalogIInv, NEW h \in Editors, NEW place \in Phases,
         NEW w \in Work, GotoPhase(h, place, w)
  PROVE  /\ phase' \in [Editors -> Phases] /\ work' \in [Editors -> Work]
         /\ phase'[h] = place /\ work'[h] = w
         /\ \A g \in Editors \ {h} : phase'[g] = phase[g] /\ work'[g] = work[g]
         /\ place # "insert" => Inserting' \subseteq Inserting
         /\ place = "insert" => Inserting' \subseteq Inserting \cup {h}
<1>1. phase \in [Editors -> Phases] /\ work \in [Editors -> Work]
  BY CatalogTypes DEF CatalogTypeOK, Phases
<1>2. /\ phase' \in [Editors -> Phases] /\ work' \in [Editors -> Work]
      /\ phase'[h] = place /\ work'[h] = w
      /\ \A g \in Editors \ {h} : phase'[g] = phase[g] /\ work'[g] = work[g]
  BY <1>1 DEF GotoPhase
<1> QED BY <1>2 DEF Inserting

\* Metadata in hand keep fitting while rows are added and rules are kept.
LEMMA StaysInHand ==
  ASSUME CatalogAssumption, NEW place, NEW w, InHand(place, w),
         DOMAIN resources \subseteq DOMAIN resources',
         DOMAIN templates \subseteq DOMAIN templates',
         \A t \in DOMAIN templates : hadRules[t] \subseteq hadRules'[t],
         Unknown \notin DOMAIN templates', Null \notin DOMAIN templates'
  PROVE  InHand(place, w)'
<1>1. Effective(w)' = Effective(w)
  BY DEF Effective
<1>2. place # "idle" => (Effective(w) \in DOMAIN templates' => Effective(w) \in DOMAIN templates)
  BY DEF InHand
<1>3. \A m, rules : Validates(m, rules)' <=> Validates(m, rules)
  BY DEF Validates
<1> QED BY <1>1, <1>2, <1>3 DEF InHand

\* A step of one editor that writes nothing.
LEMMA EditorsOnly ==
  ASSUME CatalogAssumption, CatalogIInv, NEW h \in Editors, NEW place \in Phases,
         NEW w \in Work, GotoPhase(h, place, w), InHand(place, w),
         place = "insert" => Len(resources) + Cardinality(Inserting) < MaxResources,
         UNCHANGED <<resources, templates, hadRules, unchecked, published>>,
         writes' \in Nat
  PROVE  CatalogIInv'
<1>1. CatalogTypeOK
  BY CatalogTypes
<1>2. /\ phase' \in [Editors -> Phases] /\ work' \in [Editors -> Work]
      /\ phase'[h] = place /\ work'[h] = w
      /\ \A g \in Editors \ {h} : phase'[g] = phase[g] /\ work'[g] = work[g]
      /\ place # "insert" => Inserting' \subseteq Inserting
      /\ place = "insert" => Inserting' \subseteq Inserting \cup {h}
  BY EditorMoves
<1>3. CatalogTypeOK'
  BY <1>1, <1>2 DEF CatalogTypeOK, Phases
<1>4. MetadataWereChecked'
  BY <1>3 DEF CatalogIInv, MetadataWereChecked, Validates
<1>5. RoomForInserts'
  <2>1. PICK n \in Nat, l \in Nat : n = Cardinality(Inserting) /\ l = Len(resources)
    BY CatalogTypes
  <2>2. l + n <= MaxResources /\ Len(templates) <= MaxTemplates
    BY <2>1 DEF CatalogIInv, RoomForInserts
  <2>3. IsFiniteSet(Inserting')
    <3>1. Inserting' \in SUBSET Editors
      BY DEF Inserting
    <3> QED BY <3>1, FS_Subset DEF CatalogAssumption
  <2>4. PICK m \in Nat : m = Cardinality(Inserting')
    BY <2>3, FS_CardinalityType
  <2>5. l + m <= MaxResources
    <3>1. CASE place # "insert"
      <4>1. m <= n
        BY <1>2, <2>1, <2>4, <3>1, CatalogTypes, FS_Subset
      <4> QED BY <2>2, <4>1 DEF CatalogAssumption
    <3>2. CASE place = "insert"
      <4>1. /\ IsFiniteSet(Inserting \cup {h})
            /\ Cardinality(Inserting \cup {h}) \in {n, n + 1}
        <5>1. h \notin Inserting => Cardinality(Inserting \cup {h}) = n + 1
          BY <2>1, CatalogTypes, FS_AddElement
        <5>2. h \in Inserting => Inserting \cup {h} = Inserting
          OBVIOUS
        <5>3. IsFiniteSet(Inserting \cup {h})
          BY CatalogTypes, FS_AddElement
        <5> QED BY <2>1, <5>1, <5>2, <5>3
      <4>2. PICK k \in Nat : k = Cardinality(Inserting \cup {h}) /\ k \in {n, n + 1}
        BY <4>1, FS_CardinalityType
      <4>3. m <= k
        BY <1>2, <2>4, <3>2, <4>1, <4>2, FS_Subset
      <4>4. l + n < MaxResources
        BY <2>1, <3>2
      <4> QED BY <4>2, <4>3, <4>4 DEF CatalogAssumption
    <3> QED BY <3>1, <3>2
  <2>6. Len(resources') = l /\ Len(templates') <= MaxTemplates
    BY <2>1, <2>2
  <2> QED BY <2>4, <2>5, <2>6 DEF RoomForInserts
<1>6. ReferencesExist'
  BY DEF CatalogIInv, ReferencesExist
<1>7. \A g \in Editors : InHand(phase[g], work[g])'
  <2>1. \A p, v : InHand(p, v)' <=> InHand(p, v)
    BY DEF InHand, Effective, Validates
  <2> QED BY <1>2, <2>1 DEF CatalogIInv
<1> QED BY <1>4, <1>5, <1>6, <1>7 DEF CatalogIInv

\* A step that writes a template: one more, or other rules for it.
LEMMA TemplatesOnly ==
  ASSUME CatalogAssumption, CatalogIInv,
         UNCHANGED <<resources, phase, work, unchecked, published>>, writes' \in Nat,
         templates' \in Seq(Template), Len(templates') <= MaxTemplates,
         DOMAIN templates \subseteq DOMAIN templates',
         hadRules' \in Seq(SUBSET Rules), Len(hadRules') = Len(templates'),
         \A t \in DOMAIN templates' : templates'[t].rules \in hadRules'[t],
         \A t \in DOMAIN templates : hadRules[t] \subseteq hadRules'[t]
  PROVE  CatalogIInv'
<1>1. CatalogTypeOK
  BY CatalogTypes
<1>2. CatalogTypeOK'
  BY <1>1 DEF CatalogTypeOK
<1>3. Unknown \notin DOMAIN templates' /\ Null \notin DOMAIN templates'
  <2>1. DOMAIN templates' = 1..Len(templates') /\ Len(templates') \in Nat
    BY LenProperties
  <2> QED BY <2>1 DEF Unknown, Null
<1>4. MetadataWereChecked'
  <2>1. \A m, rules : Validates(m, rules)' <=> Validates(m, rules)
    BY DEF Validates
  <2>2. \A r \in DOMAIN resources : resources[r].template # Null =>
          resources[r].template \in DOMAIN templates
    BY DEF CatalogIInv, ReferencesExist
  <2> QED BY <1>2, <2>1, <2>2 DEF CatalogIInv, MetadataWereChecked
<1>5. RoomForInserts'
  <2>1. Inserting' = Inserting
    BY DEF Inserting
  <2> QED BY <2>1 DEF CatalogIInv, RoomForInserts
<1>6. ReferencesExist'
  BY DEF CatalogIInv, ReferencesExist
<1>7. \A g \in Editors : InHand(phase[g], work[g])'
  <2> TAKE g \in Editors
  <2>1. PICK place, w : place = phase[g] /\ w = work[g]
    OBVIOUS
  <2>2. InHand(place, w)
    BY <2>1 DEF CatalogIInv
  <2>3. InHand(place, w)'
    BY <1>3, <2>2, StaysInHand
  <2> QED BY <2>1, <2>3 DEF InHand
<1> QED BY <1>4, <1>5, <1>6, <1>7 DEF CatalogIInv

\* A step that writes a row that is there; an editor whose step it is ends.
LEMMA RowIsWritten ==
  ASSUME CatalogAssumption, CatalogIInv, NEW r \in DOMAIN resources, NEW x \in Resource,
         resources' = [resources EXCEPT ![r] = x],
         x.template \in {Null} \cup DOMAIN templates,
         UNCHANGED <<templates, hadRules>>, writes' \in Nat,
         published' \in Seq(Nat), Len(published') = Len(published),
         \A s \in DOMAIN resources \ {r} : published'[s] = published[s],
         x.version = published'[r] + 1,
         unchecked' \subseteq DOMAIN resources, unchecked \subseteq unchecked' \cup {r},
         x.template # Null /\ r \notin unchecked' =>
           \E rules \in hadRules[x.template] : Validates(x.metadata, rules),
         phase' \in [Editors -> Phases], work' \in [Editors -> Work],
         \A g \in Editors : \/ phase'[g] = phase[g] /\ work'[g] = work[g]
                            \/ phase'[g] = "idle"
  PROVE  CatalogIInv'
<1>1. CatalogTypeOK /\ DOMAIN published = DOMAIN resources
  BY CatalogTypes
<1>2. resources \in Seq(Resource) /\ unchecked \subseteq DOMAIN resources
  BY <1>1 DEF CatalogTypeOK
<1>3. /\ resources' \in Seq(Resource) /\ Len(resources') = Len(resources)
      /\ DOMAIN resources' = DOMAIN resources /\ resources'[r] = x
      /\ \A s \in DOMAIN resources \ {r} : resources'[s] = resources[s]
  BY <1>2, Replaced
<1>4. CatalogTypeOK'
  BY <1>1, <1>3 DEF CatalogTypeOK, Phases
<1>5. MetadataWereChecked'
  <2>1. \A m, rules : Validates(m, rules)' <=> Validates(m, rules)
    BY DEF Validates
  <2>2. ASSUME NEW s \in DOMAIN resources
        PROVE  /\ resources'[s].template # Null /\ s \notin unchecked' =>
                    \E rules \in hadRules[resources'[s].template] :
                      Validates(resources'[s].metadata, rules)
               /\ resources'[s].version = published'[s] + 1
    <3>1. CASE s = r
      BY <1>3, <3>1
    <3>2. CASE s # r
      BY <1>3, <3>2 DEF CatalogIInv, MetadataWereChecked
    <3> QED BY <3>1, <3>2
  <2> QED BY <1>3, <1>4, <2>1, <2>2 DEF MetadataWereChecked
<1>6. RoomForInserts'
  <2>1. Inserting' \subseteq Inserting
    BY DEF Inserting
  <2>2. PICK n \in Nat, l \in Nat : n = Cardinality(Inserting) /\ l = Len(resources)
    BY CatalogTypes
  <2>3. PICK m \in Nat : m = Cardinality(Inserting') /\ m <= n
    BY <2>1, <2>2, CatalogTypes, FS_Subset, FS_CardinalityType
  <2>4. l + n <= MaxResources /\ Len(templates) <= MaxTemplates
    BY <2>2 DEF CatalogIInv, RoomForInserts
  <2>5. l + m <= MaxResources
    BY <2>3, <2>4 DEF CatalogAssumption
  <2> QED BY <1>3, <2>2, <2>3, <2>4, <2>5 DEF RoomForInserts
<1>7. ReferencesExist'
  BY <1>3 DEF CatalogIInv, ReferencesExist
<1>8. \A g \in Editors : InHand(phase[g], work[g])'
  <2>1. ASSUME NEW p, NEW v, InHand(p, v)
        PROVE  InHand(p, v)'
    BY <1>3, <2>1 DEF InHand, Effective, Validates
  <2>2. \A v : InHand("idle", v)'
    BY DEF InHand
  <2> QED BY <2>1, <2>2 DEF CatalogIInv
<1> QED BY <1>5, <1>6, <1>7, <1>8 DEF CatalogIInv

LEMMA CreateTemplateKeeps ==
  ASSUME CatalogAssumption, CatalogIInv, CreateTemplate
  PROVE  CatalogIInv'
<1>1. CatalogTypeOK /\ Len(templates) \in Nat /\ Len(templates) < MaxTemplates
  BY CatalogTypes DEF CreateTemplate
<1>2. PICK rules \in Rules : /\ templates' = Append(templates, NewTemplate(rules))
                             /\ hadRules' = Append(hadRules, {rules})
  BY DEF CreateTemplate
<1>3. PICK t : t = NewTemplate(rules)
  OBVIOUS
<1>4. t \in Template /\ t.rules = rules
  BY <1>3 DEF NewTemplate, Template
<1>5. /\ templates \in Seq(Template) /\ hadRules \in Seq(SUBSET Rules)
      /\ Len(hadRules) = Len(templates) /\ {rules} \in SUBSET Rules
      /\ templates' = Append(templates, t)
  BY <1>1, <1>2, <1>3 DEF CatalogTypeOK
<1>6. /\ templates' \in Seq(Template) /\ Len(templates') = Len(templates) + 1
      /\ DOMAIN templates' = DOMAIN templates \cup {Len(templates) + 1}
      /\ templates'[Len(templates) + 1] = t
      /\ \A i \in DOMAIN templates : templates'[i] = templates[i]
  BY <1>4, <1>5, Appended
<1>7. /\ hadRules' \in Seq(SUBSET Rules) /\ Len(hadRules') = Len(hadRules) + 1
      /\ hadRules'[Len(hadRules) + 1] = {rules}
      /\ \A i \in DOMAIN hadRules : hadRules'[i] = hadRules[i]
  BY <1>2, <1>5, Appended
<1>8. DOMAIN hadRules = DOMAIN templates
  BY CatalogTypes
<1>9. Len(templates') <= MaxTemplates
  BY <1>1, <1>6 DEF CatalogAssumption
<1>10. \A i \in DOMAIN templates' : templates'[i].rules \in hadRules'[i]
  BY <1>4, <1>5, <1>6, <1>7, <1>8 DEF CatalogIInv, ReferencesExist
<1>11. \A i \in DOMAIN templates : hadRules[i] \subseteq hadRules'[i]
  BY <1>7, <1>8
<1>12. UNCHANGED <<resources, phase, work, unchecked, published>> /\ writes' \in Nat
  BY <1>1 DEF CreateTemplate, CatalogTypeOK
<1> QED BY <1>5, <1>6, <1>7, <1>9, <1>10, <1>11, <1>12, TemplatesOnly

\* New rules come with the old ones kept in the history.
LEMMA UpdateTemplateKeeps ==
  ASSUME CatalogAssumption, CatalogIInv, UpdateTemplate
  PROVE  CatalogIInv'
<1>1. CatalogTypeOK /\ DOMAIN hadRules = DOMAIN templates
  BY CatalogTypes
<1>2. PICK t \in DOMAIN templates, rules \in Rules :
        /\ templates' = [templates EXCEPT ![t].rules = rules]
        /\ hadRules' = [hadRules EXCEPT ![t] = @ \cup {rules}]
  BY DEF UpdateTemplate
<1>3. /\ templates \in Seq(Template) /\ hadRules \in Seq(SUBSET Rules)
      /\ Len(hadRules) = Len(templates) /\ templates[t] \in Template
      /\ hadRules[t] \in SUBSET Rules
  BY <1>1, ElementOfSeq, LenProperties DEF CatalogTypeOK
<1>4. PICK x : x = [templates[t] EXCEPT !.rules = rules]
  OBVIOUS
<1>5. x \in Template /\ x.rules = rules
  BY <1>3, <1>4 DEF Template
<1>6. templates' = [templates EXCEPT ![t] = x]
  BY <1>2, <1>4
<1>7. /\ templates' \in Seq(Template) /\ Len(templates') = Len(templates)
      /\ DOMAIN templates' = DOMAIN templates /\ templates'[t] = x
      /\ \A i \in DOMAIN templates \ {t} : templates'[i] = templates[i]
  BY <1>3, <1>5, <1>6, Replaced
<1>8. PICK y \in SUBSET Rules : y = hadRules[t] \cup {rules}
  <2>1. hadRules[t] \cup {rules} \in SUBSET Rules
    BY <1>3
  <2> QED BY <2>1
<1>9. hadRules' = [hadRules EXCEPT ![t] = y]
  BY <1>2, <1>8
<1>10. /\ hadRules' \in Seq(SUBSET Rules) /\ Len(hadRules') = Len(hadRules)
       /\ hadRules'[t] = y
       /\ \A i \in DOMAIN hadRules \ {t} : hadRules'[i] = hadRules[i]
  BY <1>1, <1>3, <1>8, <1>9, Replaced
<1>11. Len(templates') <= MaxTemplates
  BY <1>7 DEF CatalogIInv, RoomForInserts
<1>12. \A i \in DOMAIN templates' : templates'[i].rules \in hadRules'[i]
  BY <1>1, <1>5, <1>7, <1>8, <1>10 DEF CatalogIInv, ReferencesExist
<1>13. \A i \in DOMAIN templates : hadRules[i] \subseteq hadRules'[i]
  BY <1>1, <1>8, <1>10
<1>14. UNCHANGED <<resources, phase, work, unchecked, published>> /\ writes' \in Nat
  BY <1>1 DEF UpdateTemplate, CatalogTypeOK
<1> QED BY <1>3, <1>7, <1>10, <1>11, <1>12, <1>13, <1>14, TemplatesOnly

LEMMA PublishTemplateKeeps ==
  ASSUME CatalogAssumption, CatalogIInv, PublishTemplate
  PROVE  CatalogIInv'
<1>1. CatalogTypeOK /\ DOMAIN hadRules = DOMAIN templates
  BY CatalogTypes
<1>2. PICK t \in DOMAIN templates : templates' = [templates EXCEPT ![t] = PublishedRow(@)]
  BY DEF PublishTemplate
<1>3. templates \in Seq(Template) /\ templates[t] \in Template
  BY <1>1, ElementOfSeq, LenProperties DEF CatalogTypeOK
<1>4. PICK x : x = PublishedRow(templates[t])
  OBVIOUS
<1>5. x \in Template /\ x.rules = templates[t].rules
  <2>1. PICK v \in Nat : v = templates[t].version + 1
    BY <1>3 DEF Template
  <2>2. x = [templates[t] EXCEPT !.status = "published", !.version = v]
    BY <1>4, <2>1 DEF PublishedRow
  <2> QED BY <1>3, <2>2 DEF Template
<1>6. templates' = [templates EXCEPT ![t] = x]
  BY <1>2, <1>4
<1>7. /\ templates' \in Seq(Template) /\ Len(templates') = Len(templates)
      /\ DOMAIN templates' = DOMAIN templates /\ templates'[t] = x
      /\ \A i \in DOMAIN templates \ {t} : templates'[i] = templates[i]
  BY <1>3, <1>5, <1>6, Replaced
<1>8. hadRules' = hadRules /\ hadRules' \in Seq(SUBSET Rules) /\ Len(hadRules') = Len(templates')
  BY <1>1, <1>7 DEF PublishTemplate, CatalogTypeOK
<1>9. Len(templates') <= MaxTemplates
  BY <1>7 DEF CatalogIInv, RoomForInserts
<1>10. \A i \in DOMAIN templates' : templates'[i].rules \in hadRules'[i]
  BY <1>5, <1>7, <1>8 DEF CatalogIInv, ReferencesExist
<1>11. \A i \in DOMAIN templates : hadRules[i] \subseteq hadRules'[i]
  BY <1>8
<1>12. UNCHANGED <<resources, phase, work, unchecked, published>> /\ writes' \in Nat
  BY <1>1 DEF PublishTemplate, CatalogTypeOK
<1> QED BY <1>7, <1>8, <1>9, <1>10, <1>11, <1>12, TemplatesOnly

\* What a request brings is a body.
LEMMA BodyTypes ==
  ASSUME CatalogAssumption, CatalogIInv, NEW none \in {Null, Keep}, NEW b \in Bodies(none)
  PROVE  b \in Body /\ b.template \in {none, Null, Unknown} \cup DOMAIN templates
<1>1. CASE b \in Body
  <2>1. CASE b.template \in {none, Null, Unknown} \cup DOMAIN templates
    BY <1>1, <2>1
  <2>2. CASE \E p \in {Null, Unknown} \cup DOMAIN resources :
               b = [NoBody EXCEPT !.template = none, !.parent = p, !.tagged = (p = Null)]
    BY <1>1, <2>2, NoWorkType DEF Body
  <2> QED BY <2>1, <2>2 DEF Bodies
<1>2. CASE \E p \in {Null, Unknown} \cup DOMAIN resources :
             b = [NoBody EXCEPT !.template = none, !.parent = p, !.tagged = (p = Null)]
  <2>1. PICK p \in {Null, Unknown} \cup DOMAIN resources :
          b = [NoBody EXCEPT !.template = none, !.parent = p, !.tagged = (p = Null)]
    BY <1>2
  <2>2. p \in Unknown..MaxResources /\ none \in Unknown..MaxTemplates
    BY CatalogTypes DEF Unknown, Null, Keep, CatalogAssumption
  <2>3. b \in Body /\ b.template = none
    BY <2>1, <2>2, NoWorkType DEF Body
  <2> QED BY <2>3
<1> QED BY <1>1, <1>2 DEF Bodies

\* What is to be inserted has been checked, and has room.
LEMMA CheckNewKeeps ==
  ASSUME CatalogAssumption, CatalogIInv, NEW h \in Editors, CheckNew(h)
  PROVE  CatalogIInv'
<1>1. PICK b \in Bodies(Null) :
        /\ b.template # Unknown
        /\ (b.template # Null /\ b.given) =>
             Validates(b.metadata, templates[b.template].rules)
        /\ GotoPhase(h, "insert", [NoWork EXCEPT !.body = b])
  BY DEF CheckNew
<1>2. b \in Body /\ b.template \in {Null} \cup DOMAIN templates
  BY <1>1, BodyTypes
<1>3. PICK w : w = [NoWork EXCEPT !.body = b]
  OBVIOUS
<1>4. w \in Work /\ w.body = b
  BY <1>2, <1>3, NoWorkType DEF Work
<1>5. Effective(w) = b.template
  BY <1>2, <1>4, CatalogTypes DEF Effective, Keep, Null
<1>6. InHand("insert", w)
  <2>1. ASSUME b.given, b.template \in DOMAIN templates
        PROVE  \E rules \in hadRules[b.template] : Validates(b.metadata, rules)
    <3>1. templates[b.template].rules \in hadRules[b.template]
      BY <2>1 DEF CatalogIInv, ReferencesExist
    <3>2. b.template # Null
      BY <2>1, CatalogTypes
    <3> QED BY <1>1, <2>1, <3>1, <3>2
  <2> QED BY <1>2, <1>4, <1>5, <2>1 DEF InHand
<1>7. GotoPhase(h, "insert", w)
  BY <1>1, <1>3
<1>8. /\ Len(resources) + Cardinality(Inserting) < MaxResources
      /\ UNCHANGED <<resources, templates, hadRules, unchecked, published>>
      /\ writes' \in Nat
  BY CatalogTypes DEF CheckNew, CatalogTypeOK
<1>9. "insert" \in Phases
  BY DEF Phases
<1> QED BY <1>4, <1>6, <1>7, <1>8, <1>9, EditorsOnly

LEMMA EndEditKeeps ==
  ASSUME CatalogAssumption, CatalogIInv, NEW h \in Editors, EndEdit(h),
         UNCHANGED <<resources, templates, hadRules, unchecked, published>>,
         writes' \in Nat
  PROVE  CatalogIInv'
<1>1. GotoPhase(h, "idle", NoWork) /\ "idle" \in Phases
  BY DEF EndEdit, Phases
<1>2. InHand("idle", NoWork)
  BY DEF InHand
<1> QED BY <1>1, <1>2, NoWorkType, EditorsOnly

LEMMA FailEditKeeps ==
  ASSUME CatalogAssumption, CatalogIInv, NEW h \in Editors, FailEdit(h)
  PROVE  CatalogIInv'
<1>1. /\ EndEdit(h) /\ UNCHANGED <<resources, templates, hadRules, unchecked, published>>
      /\ writes' \in Nat
  BY CatalogTypes DEF FailEdit, CatalogTypeOK
<1> QED BY <1>1, EndEditKeeps

LEMMA FindBeforeKeeps ==
  ASSUME CatalogAssumption, CatalogIInv, NEW h \in Editors, FindBefore(h)
  PROVE  CatalogIInv'
<1>1. PICK r \in DOMAIN resources, b \in Bodies(Keep) :
        IF Effective(Found(r, b)) # Null /\ b.given
        THEN GotoPhase(h, "check", Found(r, b)) ELSE GotoPhase(h, "write", Found(r, b))
  BY DEF FindBefore
<1>2. PICK w : w = Found(r, b)
  OBVIOUS
<1>3. b \in Body /\ b.template \in {Keep, Null, Unknown} \cup DOMAIN templates
  BY BodyTypes
<1>4. resources[r] \in Resource
  BY CatalogTypes, ElementOfSeq DEF CatalogTypeOK
<1>5. /\ w \in Work /\ w.body = b /\ w.on = r
      /\ Effective(w) \in {Unknown, Null} \cup DOMAIN templates
  <2>1. resources[r].template \in {Null} \cup DOMAIN templates
    BY DEF CatalogIInv, ReferencesExist
  <2>2. r \in 0..MaxResources /\ resources[r].template \in 0..MaxTemplates
    BY <1>4, CatalogTypes DEF Resource, CatalogAssumption
  <2>3. w \in Work /\ w.body = b /\ w.on = r /\ w.seen = resources[r].template
    BY <1>2, <1>3, <2>2 DEF Found, Work
  <2> QED BY <1>3, <2>1, <2>3 DEF Effective
<1>6. UNCHANGED <<resources, templates, hadRules, unchecked, published>> /\ writes' \in Nat
  BY CatalogTypes DEF FindBefore, CatalogTypeOK
<1>7. CASE GotoPhase(h, "check", w)
  <2>1. InHand("check", w) /\ "check" \in Phases
    BY <1>5 DEF InHand, Phases
  <2> QED BY <1>5, <1>6, <1>7, <2>1, EditorsOnly
<1>8. CASE (Effective(w) = Null \/ ~b.given) /\ GotoPhase(h, "write", w)
  <2>1. InHand("write", w) /\ "write" \in Phases
    BY <1>5, <1>8, CatalogTypes DEF InHand, Phases
  <2> QED BY <1>5, <1>6, <1>8, <2>1, EditorsOnly
<1> QED BY <1>1, <1>2, <1>7, <1>8

\* What is to be written has been checked against the rules of this moment.
LEMMA CheckUpdateKeeps ==
  ASSUME CatalogAssumption, CatalogIInv, NEW h \in Editors, CheckUpdate(h)
  PROVE  CatalogIInv'
<1>1. PICK w : w = work[h]
  OBVIOUS
<1>2. w \in Work /\ InHand("check", w)
  BY <1>1, CatalogTypes DEF CheckUpdate, CatalogIInv, CatalogTypeOK
<1>3. UNCHANGED <<resources, templates, hadRules, unchecked, published>> /\ writes' \in Nat
  BY CatalogTypes DEF CheckUpdate, CatalogTypeOK
<1>4. CASE EndEdit(h)
  BY <1>3, <1>4, EndEditKeeps
<1>5. CASE /\ GotoPhase(h, "write", w)
           /\ Effective(w) \in DOMAIN templates =>
                Validates(w.body.metadata, templates[Effective(w)].rules)
  <2>1. InHand("write", w) /\ "write" \in Phases
    BY <1>2, <1>5 DEF InHand, Phases, CatalogIInv, ReferencesExist
  <2> QED BY <1>2, <1>3, <1>5, <2>1, EditorsOnly
<1> QED BY <1>1, <1>4, <1>5 DEF CheckUpdate

\* An editor that ends, for RowIsWritten.
LEMMA EndedEdit ==
  ASSUME CatalogAssumption, CatalogIInv, NEW h \in Editors, EndEdit(h)
  PROVE  /\ phase' \in [Editors -> Phases] /\ work' \in [Editors -> Work]
         /\ \A g \in Editors : \/ phase'[g] = phase[g] /\ work'[g] = work[g]
                               \/ phase'[g] = "idle"
<1>1. GotoPhase(h, "idle", NoWork) /\ "idle" \in Phases
  BY DEF EndEdit, Phases
<1> QED BY <1>1, NoWorkType, EditorMoves

LEMMA AddTagKeeps ==
  ASSUME CatalogAssumption, CatalogIInv, NEW h \in Editors, AddTag(h)
  PROVE  CatalogIInv'
<1>1. PICK r \in DOMAIN resources : r = work[h].on
  BY DEF AddTag, CatalogIInv, InHand
<1>2. resources[r] \in Resource /\ CatalogTypeOK
  BY CatalogTypes, ElementOfSeq DEF CatalogTypeOK
<1>3. PICK x : x = [resources[r] EXCEPT !.tagged = TRUE]
  OBVIOUS
<1>4. /\ x \in Resource /\ x.template = resources[r].template
      /\ x.metadata = resources[r].metadata /\ x.version = resources[r].version
  BY <1>2, <1>3 DEF Resource
<1>5. resources' = [resources EXCEPT ![r] = x]
  BY <1>1, <1>3 DEF AddTag
<1>6. /\ UNCHANGED <<templates, hadRules>> /\ published' = published
      /\ unchecked' = unchecked /\ writes' \in Nat /\ EndEdit(h)
  BY <1>2 DEF AddTag, CatalogTypeOK
<1>7. published' \in Seq(Nat) /\ unchecked' \subseteq DOMAIN resources
  BY <1>2, <1>6 DEF CatalogTypeOK
<1>8. /\ x.template \in {Null} \cup DOMAIN templates
      /\ x.version = published'[r] + 1
      /\ x.template # Null /\ r \notin unchecked' =>
           \E rules \in hadRules[x.template] : Validates(x.metadata, rules)
  BY <1>4, <1>6 DEF CatalogIInv, ReferencesExist, MetadataWereChecked
<1>9. /\ phase' \in [Editors -> Phases] /\ work' \in [Editors -> Work]
      /\ \A g \in Editors : \/ phase'[g] = phase[g] /\ work'[g] = work[g]
                            \/ phase'[g] = "idle"
  BY <1>6, EndedEdit
<1>10. /\ Len(published') = Len(published) /\ unchecked \subseteq unchecked' \cup {r}
       /\ \A s \in DOMAIN resources \ {r} : published'[s] = published[s]
  BY <1>6
<1> QED BY <1>4, <1>5, <1>6, <1>7, <1>8, <1>9, <1>10, RowIsWritten

LEMMA PublishKeeps ==
  ASSUME CatalogAssumption, CatalogIInv, Publish
  PROVE  CatalogIInv'
<1>1. PICK r \in DOMAIN resources :
        /\ resources' = [resources EXCEPT ![r] = PublishedRow(@)]
        /\ published' = [published EXCEPT ![r] = @ + 1]
  BY DEF Publish
<1>2. CatalogTypeOK /\ resources[r] \in Resource /\ r \in DOMAIN published
  BY CatalogTypes, ElementOfSeq DEF CatalogTypeOK
<1>3. PICK v \in Nat : v = published[r] + 1
  BY <1>2, ElementOfSeq, LenProperties DEF CatalogTypeOK
<1>4. PICK n \in Nat : n = resources[r].version + 1
  BY <1>2 DEF Resource
<1>5. PICK x : x = [resources[r] EXCEPT !.status = "published", !.version = n]
  OBVIOUS
<1>6. /\ x \in Resource /\ x.template = resources[r].template
      /\ x.metadata = resources[r].metadata /\ x.version = n
  BY <1>2, <1>5 DEF Resource
<1>7. resources' = [resources EXCEPT ![r] = x]
  BY <1>1, <1>4, <1>5 DEF PublishedRow
<1>8. /\ published' \in Seq(Nat) /\ Len(published') = Len(published) /\ published'[r] = v
      /\ \A s \in DOMAIN published \ {r} : published'[s] = published[s]
  <2>1. published \in Seq(Nat) /\ published' = [published EXCEPT ![r] = v]
    BY <1>1, <1>2, <1>3 DEF CatalogTypeOK
  <2> QED BY <1>2, <2>1, Replaced
<1>9. \A s \in DOMAIN resources \ {r} : published'[s] = published[s]
  BY <1>8, CatalogTypes
<1>10. n = v + 1
  <2>1. resources[r].version = published[r] + 1
    BY DEF CatalogIInv, MetadataWereChecked
  <2> QED BY <1>3, <1>4, <2>1
<1>11. /\ UNCHANGED <<templates, hadRules>> /\ unchecked' = unchecked
       /\ phase' = phase /\ work' = work /\ writes' \in Nat
  BY <1>2 DEF Publish, CatalogTypeOK
<1>12. /\ phase' \in [Editors -> Phases] /\ work' \in [Editors -> Work]
       /\ unchecked' \subseteq DOMAIN resources
  BY <1>2, <1>11 DEF CatalogTypeOK, Phases
<1>13. /\ x.template \in {Null} \cup DOMAIN templates
       /\ x.template # Null /\ r \notin unchecked' =>
            \E rules \in hadRules[x.template] : Validates(x.metadata, rules)
  BY <1>6, <1>11 DEF CatalogIInv, ReferencesExist, MetadataWereChecked
<1>14. x.version = published'[r] + 1
  BY <1>6, <1>8, <1>10
<1>15. /\ unchecked \subseteq unchecked' \cup {r}
       /\ \A g \in Editors : \/ phase'[g] = phase[g] /\ work'[g] = work[g]
                             \/ phase'[g] = "idle"
  BY <1>11
<1> QED BY <1>6, <1>7, <1>8, <1>9, <1>11, <1>12, <1>13, <1>14, <1>15, RowIsWritten

\* The row that is updated has the metadata and the template that were checked.
LEMMA UpdateKeeps ==
  ASSUME CatalogAssumption, CatalogIInv, NEW h \in Editors, Update(h)
  PROVE  CatalogIInv'
<1>1. PICK w : w = work[h]
  OBVIOUS
<1>2. PICK b : b = w.body
  OBVIOUS
<1>3. w \in Work /\ InHand("write", w) /\ b \in Body
  <2>1. w \in Work
    BY <1>1, CatalogTypes DEF CatalogTypeOK
  <2> QED BY <1>1, <1>2, <2>1 DEF Update, CatalogIInv, Work
<1>4. PICK r \in DOMAIN resources : r = w.on
  BY <1>3 DEF InHand
<1>5. CatalogTypeOK /\ resources[r] \in Resource
  BY CatalogTypes, ElementOfSeq DEF CatalogTypeOK
<1>6. /\ EndEdit(h) /\ UNCHANGED <<templates, hadRules>> /\ published' = published
      /\ writes' \in Nat
  BY <1>5 DEF Update, CatalogTypeOK
<1>7. CASE /\ b.template \in {Keep, Null} \cup DOMAIN templates
           /\ b.parent \in {Keep, Null} \cup DOMAIN resources
  <2>1. /\ resources' = [resources EXCEPT ![r] = Updated(@, b)]
        /\ unchecked' =
             IF b.given /\ (b.template # Keep \/ resources[r].template = w.seen)
             THEN unchecked \ {r}
             ELSE unchecked \cup {s \in {r} : b.given \/ b.template # Keep}
    BY <1>1, <1>2, <1>4, <1>7 DEF Update
  <2>2. PICK t : t = IF b.template = Keep THEN resources[r].template ELSE b.template
    OBVIOUS
  <2>3. PICK p : p = IF b.parent = Keep THEN resources[r].parent ELSE b.parent
    OBVIOUS
  <2>4. PICK m : m = IF b.given THEN b.metadata ELSE resources[r].metadata
    OBVIOUS
  <2>5. /\ t \in {Null} \cup DOMAIN templates
        /\ t \in 0..MaxTemplates /\ p \in 0..MaxResources /\ m \in Metadata
    <3>1. t \in {Null} \cup DOMAIN templates
      BY <1>7, <2>2 DEF CatalogIInv, ReferencesExist
    <3>2. t \in 0..MaxTemplates
      BY <3>1, CatalogTypes DEF Null, CatalogAssumption
    <3>3. p \in {resources[r].parent, Null} \cup DOMAIN resources
      BY <1>7, <2>3
    <3>4. Null \in 0..MaxResources /\ DOMAIN resources \subseteq 0..MaxResources
      BY CatalogTypes DEF Null, CatalogAssumption
    <3>5. p \in 0..MaxResources
      BY <1>5, <3>3, <3>4 DEF Resource
    <3>6. m \in Metadata
      BY <1>3, <1>5, <2>4 DEF Body, Resource
    <3> QED BY <3>1, <3>2, <3>5, <3>6
  <2>6. PICK x : x = [resources[r] EXCEPT !.template = t, !.parent = p, !.metadata = m]
    OBVIOUS
  <2>7. /\ x \in Resource /\ x.template = t /\ x.metadata = m
        /\ x.version = resources[r].version
    BY <1>5, <2>5, <2>6 DEF Resource
  <2>8. resources' = [resources EXCEPT ![r] = x]
    BY <2>1, <2>2, <2>3, <2>4, <2>6 DEF Updated
  <2>9. /\ unchecked' \subseteq DOMAIN resources /\ unchecked \subseteq unchecked' \cup {r}
    BY <1>5, <2>1 DEF CatalogTypeOK
  <2>10. ASSUME t # Null, r \notin unchecked'
         PROVE  \E rules \in hadRules[t] : Validates(m, rules)
    <3>1. CASE b.given
      <4>1. b.template # Keep \/ resources[r].template = w.seen
        BY <2>1, <2>10, <3>1
      <4>2. Effective(w) = t
        BY <1>2, <2>2, <4>1 DEF Effective
      <4> QED BY <1>2, <1>3, <2>4, <2>5, <2>10, <3>1, <4>2 DEF InHand
    <3>2. CASE ~b.given
      <4>1. b.template = Keep /\ r \notin unchecked
        BY <2>1, <2>10, <3>2
      <4>2. t = resources[r].template /\ m = resources[r].metadata
        BY <2>2, <2>4, <3>2, <4>1
      <4> QED BY <2>10, <4>1, <4>2 DEF CatalogIInv, MetadataWereChecked
    <3> QED BY <3>1, <3>2
  <2>11. x.version = published'[r] + 1
    BY <1>6, <2>7 DEF CatalogIInv, MetadataWereChecked
  <2>12. /\ phase' \in [Editors -> Phases] /\ work' \in [Editors -> Work]
         /\ \A g \in Editors : \/ phase'[g] = phase[g] /\ work'[g] = work[g]
                               \/ phase'[g] = "idle"
    BY <1>6, EndedEdit
  <2>13. /\ published' \in Seq(Nat) /\ Len(published') = Len(published)
         /\ \A s \in DOMAIN resources \ {r} : published'[s] = published[s]
    BY <1>5, <1>6 DEF CatalogTypeOK
  <2>14. x.template \in {Null} \cup DOMAIN templates
    BY <2>5, <2>7
  <2>15. x.template # Null /\ r \notin unchecked' =>
           \E rules \in hadRules[x.template] : Validates(x.metadata, rules)
    BY <2>7, <2>10
  <2> QED BY <1>6, <2>7, <2>8, <2>9, <2>11, <2>12, <2>13, <2>14, <2>15, RowIsWritten
<1>8. CASE ~ (/\ b.template \in {Keep, Null} \cup DOMAIN templates
              /\ b.parent \in {Keep, Null} \cup DOMAIN resources)
  <2>1. UNCHANGED <<resources, templates, hadRules, unchecked, published>>
    BY <1>1, <1>2, <1>6, <1>8 DEF Update
  <2> QED BY <1>6, <2>1, EndEditKeeps
<1> QED BY <1>7, <1>8

\* A resource is added: a template that came without metadata is not answered for.
LEMMA ResourceIsAdded ==
  ASSUME CatalogAssumption, CatalogIInv, NEW h \in Editors, CreateResource(h),
         work[h].body.parent \in {Null} \cup DOMAIN resources
  PROVE  CatalogIInv'
<1>1. PICK w : w = work[h]
  OBVIOUS
<1>2. PICK b : b = w.body
  OBVIOUS
<1>3. w \in Work /\ InHand("insert", w) /\ b \in Body /\ phase[h] = "insert"
  <2>1. w \in Work
    BY <1>1, CatalogTypes DEF CatalogTypeOK
  <2> QED BY <1>1, <1>2, <2>1 DEF CreateResource, CatalogIInv, Work
<1>4. PICK new \in Nat : new = Len(resources) + 1
  BY CatalogTypes
<1>5. /\ resources' = Append(resources, NewResource(b))
      /\ published' = Append(published, 0)
      /\ unchecked' = unchecked \cup {s \in {new} : ~b.given}
      /\ IF b.tagged THEN GotoPhase(h, "tag", [w EXCEPT !.on = new]) ELSE EndEdit(h)
      /\ UNCHANGED <<templates, hadRules>> /\ writes' = writes
  BY <1>1, <1>2, <1>4 DEF CreateResource
<1>6. CatalogTypeOK
  BY CatalogTypes
<1>7. b.template \in {Null} \cup DOMAIN templates
  BY <1>2, <1>3 DEF InHand
<1>8. Effective(w) = b.template
  BY <1>2, <1>7, CatalogTypes DEF Effective, Keep, Null
<1>9. PICK x : x = NewResource(b)
  OBVIOUS
<1>10. /\ x \in Resource /\ x.template = b.template /\ x.metadata = b.metadata
       /\ x.version = 1
  <2>1. b.template \in 0..MaxTemplates
    BY <1>7, CatalogTypes DEF Null, CatalogAssumption
  <2>2. Null \in 0..MaxResources /\ DOMAIN resources \subseteq 0..MaxResources
    BY CatalogTypes DEF Null, CatalogAssumption
  <2>3. b.parent \in 0..MaxResources /\ b.metadata \in Metadata
    BY <1>1, <1>2, <1>3, <2>2 DEF Body
  <2> QED BY <1>9, <2>1, <2>3 DEF NewResource, Resource
<1>11. /\ resources' \in Seq(Resource) /\ Len(resources') = new
       /\ DOMAIN resources' = DOMAIN resources \cup {new} /\ new \notin DOMAIN resources
       /\ resources'[new] = x /\ \A s \in DOMAIN resources : resources'[s] = resources[s]
  <2>1. resources \in Seq(Resource) /\ resources' = Append(resources, x)
    BY <1>5, <1>6, <1>9 DEF CatalogTypeOK
  <2> QED BY <1>4, <1>10, <2>1, Appended
<1>12. /\ published' \in Seq(Nat) /\ Len(published') = new
       /\ published'[new] = 0 /\ \A s \in DOMAIN resources : published'[s] = published[s]
  <2>1. /\ published \in Seq(Nat) /\ Len(published) = Len(resources) /\ 0 \in Nat
        /\ published' = Append(published, 0) /\ DOMAIN published = DOMAIN resources
    BY <1>5, <1>6, CatalogTypes DEF CatalogTypeOK
  <2>2. /\ published' \in Seq(Nat) /\ Len(published') = Len(published) + 1
        /\ published'[Len(published) + 1] = 0
        /\ \A s \in DOMAIN published : published'[s] = published[s]
    BY <2>1, Appended
  <2> QED BY <1>4, <2>1, <2>2
<1>13. PICK n \in Nat, l \in Nat :
         /\ n = Cardinality(Inserting) /\ l = Len(resources)
         /\ l + n <= MaxResources /\ Len(templates) <= MaxTemplates
  BY CatalogTypes DEF CatalogIInv, RoomForInserts
<1>14. h \in Inserting /\ n >= 1 /\ Cardinality(Inserting \ {h}) = n - 1
  <2>1. h \in Inserting
    BY <1>3 DEF Inserting
  <2>2. Cardinality(Inserting \ {h}) = n - 1 /\ IsFiniteSet(Inserting \ {h})
    BY <1>13, <2>1, CatalogTypes, FS_RemoveElement
  <2>3. Cardinality(Inserting \ {h}) \in Nat
    BY <2>2, FS_CardinalityType
  <2> QED BY <2>1, <2>2, <2>3
<1>15. new \in 1..MaxResources
  BY <1>4, <1>13, <1>14 DEF CatalogAssumption
<1>16. PICK place \in {"tag", "idle"}, v \in Work :
         /\ GotoPhase(h, place, v)
         /\ place = "tag" => v.on = new /\ Effective(v) = b.template
  <2>1. CASE b.tagged
    <3>1. PICK v : v = [w EXCEPT !.on = new]
      OBVIOUS
    <3>2. v \in Work /\ v.on = new /\ v.body = b
      BY <1>2, <1>3, <1>15, <3>1 DEF Work, CatalogAssumption
    <3>3. Effective(v) = b.template
      BY <1>7, <3>2, CatalogTypes DEF Effective, Keep, Null
    <3> QED BY <1>5, <2>1, <3>1, <3>2, <3>3
  <2>2. CASE ~b.tagged
    BY <1>5, <2>2, NoWorkType DEF EndEdit
  <2> QED BY <2>1, <2>2
<1>17. /\ phase' \in [Editors -> Phases] /\ work' \in [Editors -> Work]
       /\ phase'[h] = place /\ work'[h] = v
       /\ \A g \in Editors \ {h} : phase'[g] = phase[g] /\ work'[g] = work[g]
  <2>1. place \in Phases
    BY DEF Phases
  <2> QED BY <1>16, <2>1, EditorMoves
<1>18. CatalogTypeOK'
  <2>1. unchecked' \subseteq DOMAIN resources'
    BY <1>5, <1>6, <1>11 DEF CatalogTypeOK
  <2> QED BY <1>5, <1>6, <1>11, <1>12, <1>17, <2>1 DEF CatalogTypeOK, Phases
<1>19. MetadataWereChecked'
  <2>1. \A m, rules : Validates(m, rules)' <=> Validates(m, rules)
    BY DEF Validates
  <2>2. ASSUME b.template # Null, new \notin unchecked'
        PROVE  \E rules \in hadRules[b.template] : Validates(b.metadata, rules)
    <3>1. b.given
      BY <1>5, <2>2
    <3> QED BY <1>2, <1>3, <1>7, <1>8, <2>2, <3>1 DEF InHand
  <2>3. ASSUME NEW s \in DOMAIN resources
        PROVE  /\ resources'[s].template # Null /\ s \notin unchecked' =>
                    \E rules \in hadRules[resources'[s].template] :
                      Validates(resources'[s].metadata, rules)
               /\ resources'[s].version = published'[s] + 1
    BY <1>5, <1>11, <1>12 DEF CatalogIInv, MetadataWereChecked
  <2>4. x.version = published'[new] + 1
    BY <1>10, <1>12
  <2> QED BY <1>5, <1>10, <1>11, <1>18, <2>1, <2>2, <2>3, <2>4 DEF MetadataWereChecked
<1>20. RoomForInserts'
  <2>1. Inserting' = Inserting \ {h}
    BY <1>17 DEF Inserting
  <2>2. new + (n - 1) <= MaxResources
    BY <1>4, <1>13 DEF CatalogAssumption
  <2> QED BY <1>5, <1>11, <1>13, <1>14, <2>1, <2>2 DEF RoomForInserts
<1>21. ReferencesExist'
  BY <1>5, <1>7, <1>10, <1>11 DEF CatalogIInv, ReferencesExist
<1>22. \A g \in Editors : InHand(phase[g], work[g])'
  <2>1. \A p, u : InHand(p, u) => InHand(p, u)'
    BY <1>5, <1>11 DEF InHand, Effective, Validates
  <2>2. InHand(place, v)'
    BY <1>5, <1>7, <1>11, <1>16 DEF InHand, Effective
  <2> QED BY <1>17, <2>1, <2>2 DEF CatalogIInv
<1> QED BY <1>19, <1>20, <1>21, <1>22 DEF CatalogIInv

\* A resource is inserted in the room that was kept for it.
LEMMA CreateResourceKeeps ==
  ASSUME CatalogAssumption, CatalogIInv, NEW h \in Editors, CreateResource(h)
  PROVE  CatalogIInv'
<1>1. CASE work[h].body.parent \in {Null} \cup DOMAIN resources
  BY <1>1, ResourceIsAdded
<1>2. CASE work[h].body.parent \notin {Null} \cup DOMAIN resources
  <2>1. EndEdit(h) /\ UNCHANGED <<resources, templates, hadRules, unchecked, published>>
    BY <1>2 DEF CreateResource
  <2>2. writes' \in Nat
    BY CatalogTypes DEF CreateResource, CatalogTypeOK
  <2> QED BY <2>1, <2>2, EndEditKeeps
<1> QED BY <1>1, <1>2

LEMMA CatalogStarts ==
  ASSUME CatalogAssumption, CatalogInit
  PROVE  CatalogIInv
<1>1. /\ resources = <<>> /\ templates = <<>> /\ writes = 0 /\ hadRules = <<>>
      /\ unchecked = {} /\ published = <<>>
      /\ phase = [h \in Editors |-> "idle"] /\ work = [h \in Editors |-> NoWork]
  BY DEF CatalogInit
<1>2. DOMAIN resources = {} /\ DOMAIN templates = {} /\ Len(resources) = 0 /\ Len(templates) = 0
  BY <1>1, EmptySeq
<1>3. CatalogTypeOK
  BY <1>1, <1>2, NoWorkType, EmptySeq DEF CatalogTypeOK
<1>4. Inserting = {}
  BY <1>1 DEF Inserting
<1>5. RoomForInserts
  BY <1>2, <1>4, FS_EmptySet DEF RoomForInserts, CatalogAssumption
<1> QED BY <1>1, <1>2, <1>3, <1>5
        DEF CatalogIInv, MetadataWereChecked, ReferencesExist, InHand

LEMMA CatalogStepKeeps ==
  ASSUME CatalogAssumption, CatalogIInv, [CatalogNext]_catalogVars
  PROVE  CatalogIInv'
<1>1. CASE CreateTemplate \/ UpdateTemplate \/ PublishTemplate \/ Publish
  BY <1>1, CreateTemplateKeeps, UpdateTemplateKeeps, PublishTemplateKeeps, PublishKeeps
<1>2. ASSUME NEW h \in Editors,
             CheckNew(h) \/ CreateResource(h) \/ AddTag(h) \/ FindBefore(h)
               \/ CheckUpdate(h) \/ Update(h) \/ FailEdit(h)
      PROVE  CatalogIInv'
  BY <1>2, CheckNewKeeps, CreateResourceKeeps, AddTagKeeps, FindBeforeKeeps,
     CheckUpdateKeeps, UpdateKeeps, FailEditKeeps
<1>3. CASE UNCHANGED catalogVars
  <2>1. /\ resources' = resources /\ templates' = templates /\ hadRules' = hadRules
        /\ unchecked' = unchecked /\ published' = published /\ writes' = writes
        /\ phase' = phase /\ work' = work
    BY <1>3 DEF catalogVars
  <2>2. CatalogTypeOK'
    BY <2>1, CatalogTypes DEF CatalogTypeOK
  <2>3. \A m, rules : Validates(m, rules)' <=> Validates(m, rules)
    BY DEF Validates
  <2>4. MetadataWereChecked'
    BY <2>1, <2>2, <2>3 DEF CatalogIInv, MetadataWereChecked
  <2>5. RoomForInserts' /\ ReferencesExist'
    BY <2>1 DEF CatalogIInv, RoomForInserts, ReferencesExist, Inserting
  <2>6. \A g \in Editors : InHand(phase[g], work[g])'
    BY <2>1, <2>3 DEF CatalogIInv, InHand, Effective
  <2> QED BY <2>4, <2>5, <2>6 DEF CatalogIInv
<1> QED BY <1>1, <1>2, <1>3 DEF CatalogNext

\* Metadata in hand fit what they were checked against, and what is referred to
\* exists (POST and PATCH /catalog/resources, validateMetadata).
THEOREM CatalogInvariance == CatalogSpec => []CatalogIInv
<1>1. CatalogInit => CatalogIInv
  BY CatalogAssumption, CatalogStarts
<1>2. CatalogIInv /\ [CatalogNext]_catalogVars => CatalogIInv'
  BY CatalogAssumption, CatalogStepKeeps
<1> QED BY <1>1, <1>2, PTL DEF CatalogSpec

\* The metadata of a resource fit its template as it was at some time, unless
\* the template came without metadata or while others were checked.
THEOREM MetadataAreChecked == CatalogSpec => []MetadataWereChecked
<1>1. CatalogIInv => MetadataWereChecked
  BY DEF CatalogIInv
<1> QED BY <1>1, CatalogInvariance, PTL

-------------------------------------------------------------------------------
\* The levels of the tree, by the equation that defines them...
Layers(layer) ==
  layer = [n \in Nat |-> IF n = 0 THEN Roots
                         ELSE {r \in Published : resources[r].parent \in layer[n - 1]}]
\* ... and by the way that leads from the top to a resource.
Leads(way, n, r) ==
  /\ way \in [0..n -> Published] /\ way[0] \in Roots /\ way[n] = r
  /\ \A i \in 1..n : resources[way[i]].parent = way[i - 1]

\* The recursive definition of the levels has a solution: each is made from the
\* one above it.
LEMMA LevelsExist == \E layer : Layers(layer)
<1> DEFINE Level(n) == {r \in Published : \E way : Leads(way, n, r)}
           layer == [n \in Nat |-> Level(n)]
<1>1. Level(0) = Roots
  <2>1. ASSUME NEW r \in Roots PROVE \E way : Leads(way, 0, r)
    <3> DEFINE way == [i \in 0..0 |-> r]
    <3>1. way \in [0..0 -> Published] /\ way[0] = r
      BY DEF Roots
    <3>2. \A i \in 1..0 : FALSE
      OBVIOUS
    <3> HIDE DEF way
    <3> QED BY <2>1, <3>1, <3>2 DEF Leads
  <2>2. ASSUME NEW r, NEW way, Leads(way, 0, r) PROVE r \in Roots
    BY <2>2 DEF Leads
  <2> QED BY <2>1, <2>2 DEF Roots
<1>2. ASSUME NEW n \in Nat, n # 0
      PROVE  Level(n) = {r \in Published : resources[r].parent \in Level(n - 1)}
  <2>1. ASSUME NEW r \in Published, NEW way, Leads(way, n, r)
        PROVE  resources[r].parent \in Level(n - 1)
    <3> DEFINE high == [i \in 0..(n - 1) |-> way[i]]
    <3>1. n \in 1..n /\ n - 1 \in 0..n /\ 0 \in 0..(n - 1) /\ n - 1 \in 0..(n - 1)
      BY <1>2
    <3>2. resources[r].parent = way[n - 1] /\ way[n - 1] \in Published
      BY <2>1, <3>1 DEF Leads
    <3>3. \A i \in 0..(n - 1) : i \in 0..n /\ high[i] = way[i]
      BY <1>2
    <3>4. \A i \in 1..(n - 1) : i \in 1..n /\ i \in 0..(n - 1) /\ i - 1 \in 0..(n - 1)
      BY <1>2
    <3>5. high \in [0..(n - 1) -> Published]
      BY <2>1, <3>3 DEF Leads
    <3> HIDE DEF high
    <3>6. Leads(high, n - 1, way[n - 1])
      BY <2>1, <3>1, <3>3, <3>4, <3>5 DEF Leads
    <3> QED BY <3>2, <3>6
  <2>2. ASSUME NEW r \in Published, resources[r].parent \in Level(n - 1)
        PROVE  \E way : Leads(way, n, r)
    <3>1. PICK high : Leads(high, n - 1, resources[r].parent)
      BY <2>2
    <3> DEFINE way == [i \in 0..n |-> IF i = n THEN r ELSE high[i]]
    <3>2. \A i \in 0..(n - 1) : i \in 0..n /\ i # n /\ way[i] = high[i]
      BY <1>2
    <3>3. way[n] = r /\ 0 \in 0..(n - 1) /\ n - 1 \in 0..(n - 1)
      BY <1>2
    <3>4. \A i \in 0..n : i = n \/ i \in 0..(n - 1)
      BY <1>2
    <3>5. way \in [0..n -> Published]
      BY <3>1, <3>4 DEF Leads
    <3> HIDE DEF way
    <3>6. ASSUME NEW i \in 1..n PROVE resources[way[i]].parent = way[i - 1]
      <4>1. CASE i = n
        BY <3>1, <3>2, <3>3, <4>1 DEF Leads
      <4>2. CASE i # n
        <5>1. i \in 1..(n - 1) /\ i \in 0..(n - 1) /\ i - 1 \in 0..(n - 1)
          BY <1>2, <4>2
        <5> QED BY <3>1, <3>2, <5>1 DEF Leads
      <4> QED BY <4>1, <4>2
    <3>7. way[0] \in Roots
      BY <3>1, <3>2, <3>3 DEF Leads
    <3> QED BY <3>3, <3>5, <3>6, <3>7 DEF Leads
  <2> QED BY <2>1, <2>2
<1>3. layer = [n \in Nat |-> IF n = 0 THEN Roots
                             ELSE {r \in Published : resources[r].parent \in layer[n - 1]}]
  <2>1. ASSUME NEW n \in Nat
        PROVE  layer[n] = IF n = 0 THEN Roots
                          ELSE {r \in Published : resources[r].parent \in layer[n - 1]}
    <3>1. n # 0 => n - 1 \in Nat
      OBVIOUS
    <3> HIDE DEF Level
    <3> QED BY <1>1, <1>2, <3>1
  <2> HIDE DEF Level
  <2> QED BY <2>1
<1> HIDE DEF layer
<1> QED BY <1>3 DEF Layers

\* What each level is, without the subtraction.
LEMMA LevelFacts ==
  ASSUME NEW layer, Layers(layer)
  PROVE  /\ layer[0] = Roots
         /\ \A n \in Nat : layer[n] \subseteq Published
         /\ \A n \in Nat : layer[n + 1] = {r \in Published : resources[r].parent \in layer[n]}
<1>1. layer[0] = Roots
  BY DEF Layers
<1>2. ASSUME NEW n \in Nat
      PROVE  layer[n + 1] = {r \in Published : resources[r].parent \in layer[n]}
  <2>1. n + 1 \in Nat /\ n + 1 # 0 /\ (n + 1) - 1 = n
    OBVIOUS
  <2> QED BY <2>1 DEF Layers
<1>3. \A n \in Nat : layer[n] \subseteq Published
  BY DEF Layers, Roots
<1> QED BY <1>1, <1>2, <1>3

\* No resource is on two levels.
LEMMA OneLevel ==
  ASSUME NEW layer, Layers(layer), NEW m \in Nat, NEW n \in Nat,
         NEW r, r \in layer[m], r \in layer[n]
  PROVE  m = n
<1> DEFINE T == {i \in Nat : \A j \in Nat : \A q \in layer[i] : q \in layer[j] => i = j}
<1>1. ASSUME NEW q \in Roots, NEW j \in Nat, q \in layer[j] PROVE j = 0
  <2>1. SUFFICES ASSUME j # 0 PROVE FALSE
    OBVIOUS
  <2>2. PICK k \in Nat : j = k + 1
    <3>1. j - 1 \in Nat /\ j = (j - 1) + 1
      BY <2>1
    <3> QED BY <3>1
  <2>3. resources[q].parent \in Published
    BY <1>1, <2>2, LevelFacts
  <2> QED BY <2>3 DEF Roots
<1>2. 0 \in T
  BY <1>1, LevelFacts
<1>3. ASSUME NEW i \in T PROVE i + 1 \in T
  <2>1. i \in Nat /\ i + 1 \in Nat /\ i + 1 # 0
    OBVIOUS
  <2>2. ASSUME NEW j \in Nat, NEW q \in layer[i + 1], q \in layer[j] PROVE i + 1 = j
    <3>1. resources[q].parent \in layer[i]
      BY <2>1, LevelFacts
    <3>2. CASE j = 0
      <4>1. resources[q].parent \in Published
        BY <2>1, <3>1, LevelFacts
      <4> QED BY <2>2, <3>2, <4>1, LevelFacts DEF Roots
    <3>3. CASE j # 0
      <4>1. PICK k \in Nat : j = k + 1
        <5>1. j - 1 \in Nat /\ j = (j - 1) + 1
          BY <3>3
        <5> QED BY <5>1
      <4>2. resources[q].parent \in layer[k]
        BY <2>2, <4>1, LevelFacts
      <4>3. i = k
        BY <3>1, <4>2
      <4> QED BY <4>1, <4>3
    <3> QED BY <3>2, <3>3
  <2> QED BY <2>1, <2>2
<1>4. T = Nat
  <2> HIDE DEF T
  <2>1. T \subseteq Nat
    BY DEF T
  <2> QED BY <1>2, <1>3, <2>1, Induction
<1> QED BY <1>4

\* Resources whose parents stay among them are on no level.
LEMMA CirclesAreLost ==
  ASSUME NEW layer, Layers(layer), NEW s \in SUBSET Published,
         \A q \in s : resources[q].parent \in s, NEW n \in Nat
  PROVE  layer[n] \cap s = {}
<1> DEFINE T == {i \in Nat : layer[i] \cap s = {}}
<1>1. 0 \in T
  BY LevelFacts DEF Roots
<1>2. ASSUME NEW i \in T PROVE i + 1 \in T
  <2>1. i \in Nat /\ i + 1 \in Nat
    OBVIOUS
  <2> QED BY <2>1, LevelFacts
<1>3. T = Nat
  <2> HIDE DEF T
  <2>1. T \subseteq Nat
    BY DEF T
  <2> QED BY <1>1, <1>2, <2>1, Induction
<1> QED BY <1>3

\* Who is on no level is among such resources.
LEMMA LostAreInCircles ==
  ASSUME NEW layer, Layers(layer), NEW r \in Published, \A n \in Nat : r \notin layer[n]
  PROVE  \E s \in SUBSET Published : r \in s /\ \A q \in s : resources[q].parent \in s
<1> DEFINE s == {q \in Published : \A n \in Nat : q \notin layer[n]}
<1>1. ASSUME NEW q \in s PROVE resources[q].parent \in s
  <2>1. resources[q].parent \in Published
    BY LevelFacts DEF Roots
  <2>2. ASSUME NEW n \in Nat, resources[q].parent \in layer[n] PROVE FALSE
    <3>1. n + 1 \in Nat
      OBVIOUS
    <3>2. q \in layer[n + 1]
      BY <2>2, LevelFacts
    <3> QED BY <3>1, <3>2
  <2> QED BY <2>1, <2>2
<1> QED BY <1>1

\* One is one more than none.
LEMMA OneElement ==
  ASSUME NEW x
  PROVE  IsFiniteSet({x}) /\ Cardinality({x}) = 0 + 1
<1>1. IsFiniteSet({x}) /\ Cardinality({x}) = 1
  BY FS_Singleton
<1>2. 1 = 0 + 1
  OBVIOUS
<1> QED BY <1>1, <1>2

\* There are as many resources above one as its level says, so that no level is
\* below the last of the tree.
LEMMA NoLevelBelow ==
  ASSUME CatalogTypeOK, NEW layer, Layers(layer), NEW n \in Nat, NEW r, r \in layer[n]
  PROVE  n \in 0..Len(resources)
<1> DEFINE Above(i, S) == /\ IsFiniteSet(S) /\ Cardinality(S) = i + 1
                          /\ \A q \in S : \E m \in 0..i : q \in layer[m]
           T == {i \in Nat : \A x \in layer[i] : \E S : Above(i, S)}
<1>1. 0 \in T
  <2>1. ASSUME NEW x \in layer[0] PROVE Above(0, {x})
    <3>1. IsFiniteSet({x}) /\ Cardinality({x}) = 0 + 1
      BY OneElement
    <3>2. 0 \in 0..0
      OBVIOUS
    <3> QED BY <2>1, <3>1, <3>2
  <2> HIDE DEF Above
  <2> QED BY <2>1
<1>2. ASSUME NEW i \in T PROVE i + 1 \in T
  <2>1. i \in Nat /\ i + 1 \in Nat
    OBVIOUS
  <2>2. ASSUME NEW x \in layer[i + 1] PROVE \E S : Above(i + 1, S)
    <3>1. layer[i + 1] = {q \in Published : resources[q].parent \in layer[i]}
      BY <2>1, LevelFacts
    <3>2. resources[x].parent \in layer[i]
      BY <3>1
    <3>3. PICK S : Above(i, S)
      BY <3>1
    <3>4. x \notin S
      <4>1. SUFFICES ASSUME x \in S PROVE FALSE
        OBVIOUS
      <4>2. PICK m \in 0..i : x \in layer[m]
        BY <3>3, <4>1
      <4>3. m = i + 1
        BY <2>1, <4>2, OneLevel
      <4> QED BY <2>1, <4>3
    <3>5. IsFiniteSet(S \cup {x}) /\ Cardinality(S \cup {x}) = (i + 1) + 1
      BY <3>3, <3>4, FS_AddElement
    <3>6. ASSUME NEW q \in S \cup {x} PROVE \E m \in 0..(i + 1) : q \in layer[m]
      <4>1. CASE q = x
        <5>1. i + 1 \in 0..(i + 1)
          BY <2>1
        <5> QED BY <4>1, <5>1
      <4>2. CASE q \in S
        <5>1. PICK m \in 0..i : q \in layer[m]
          BY <3>3, <4>2
        <5>2. m \in 0..(i + 1)
          BY <2>1
        <5> QED BY <5>1, <5>2
      <4> QED BY <4>1, <4>2
    <3> QED BY <3>5, <3>6
  <2> HIDE DEF Above
  <2> QED BY <2>1, <2>2
<1>3. T = Nat
  <2> HIDE DEF T
  <2>1. T \subseteq Nat
    BY DEF T
  <2> QED BY <1>1, <1>2, <2>1, Induction
<1>4. PICK S : Above(n, S)
  BY <1>3
<1>5. PICK l \in Nat : l = Len(resources) /\ DOMAIN resources = 1..l
  BY LenProperties DEF CatalogTypeOK
<1>6. S \subseteq 1..l
  <2>1. ASSUME NEW q \in S PROVE q \in Published
    <3>1. PICK m \in 0..n : q \in layer[m]
      BY <1>4
    <3> QED BY <3>1, LevelFacts
  <2> QED BY <1>5, <2>1 DEF Published
<1>7. IsFiniteSet(1..l) /\ Cardinality(1..l) = l
  BY FS_Interval
<1>8. Cardinality(S) <= Cardinality(1..l)
  BY <1>6, <1>7, FS_Subset
<1>9. n + 1 <= l
  BY <1>4, <1>7, <1>8
<1> QED BY <1>5, <1>9

\* getTree goes as deep as there are resources.
LEMMA TreeIsItsLevels ==
  \E layer : Layers(layer) /\ Tree = [n \in 0..Len(resources) |-> layer[n]]
<1> DEFINE layer == CHOOSE l :
      l = [n \in Nat |-> IF n = 0 THEN Roots
                         ELSE {r \in Published : resources[r].parent \in l[n - 1]}]
<1>1. Layers(layer)
  BY LevelsExist DEF Layers
<1>2. Tree = [n \in 0..Len(resources) |-> layer[n]]
  BY DEF Tree
<1> HIDE DEF layer
<1> QED BY <1>1, <1>2

\* Where a published resource stands.
LEMMA PublishedAreInTheTree ==
  ASSUME CatalogTypeOK
  PROVE  TreeShowsPublished
<1>1. PICK layer : Layers(layer) /\ Tree = [n \in 0..Len(resources) |-> layer[n]]
  BY TreeIsItsLevels
<1>2. SUFFICES ASSUME NEW r \in Published
      PROVE  Cardinality({n \in DOMAIN Tree : r \in Tree[n]}) =
               IF \E s \in SUBSET Published :
                    r \in s /\ \A q \in s : resources[q].parent \in s
               THEN 0 ELSE 1
  BY DEF TreeShowsPublished
<1>3. PICK places : places = {n \in DOMAIN Tree : r \in Tree[n]}
  OBVIOUS
<1>4. places = {n \in 0..Len(resources) : r \in layer[n]}
  BY <1>1, <1>3
<1>5. Len(resources) \in Nat /\ \A n \in 0..Len(resources) : n \in Nat
  BY LenProperties DEF CatalogTypeOK
<1>6. CASE \E s \in SUBSET Published : r \in s /\ \A q \in s : resources[q].parent \in s
  <2>1. places = {}
    BY <1>1, <1>4, <1>5, <1>6, CirclesAreLost
  <2> QED BY <1>3, <1>6, <2>1, FS_EmptySet
<1>7. CASE ~\E s \in SUBSET Published : r \in s /\ \A q \in s : resources[q].parent \in s
  <2>1. PICK n \in Nat : r \in layer[n]
    BY <1>1, <1>7, LostAreInCircles
  <2>2. n \in 0..Len(resources)
    BY <1>1, <2>1, NoLevelBelow
  <2>3. \A m \in 0..Len(resources) : r \in layer[m] => m = n
    BY <1>1, <1>5, <2>1, OneLevel
  <2>4. places = {n}
    BY <1>4, <2>1, <2>2, <2>3
  <2> QED BY <1>3, <1>7, <2>4, FS_Singleton
<1> QED BY <1>6, <1>7

\* The tree shows each published resource once, unless its parents lead in a
\* circle (getTree), in every state the catalog reaches.
THEOREM TreeIsComplete == CatalogSpec => []TreeShowsPublished
<1>1. CatalogIInv => TreeShowsPublished
  BY PublishedAreInTheTree DEF CatalogIInv, MetadataWereChecked
<1> QED BY <1>1, CatalogInvariance, PTL
-------------------------------------------------------------------------------
(***************************************************************************)
(* Inventory: reports are complete, snapshots are of their day.            *)
(***************************************************************************)
USE InventoryAssumption

\* A report that is at a place, and what it relies on there.
LEMMA StageCount ==
  ASSUME InventoryTypeOK, NEW h \in Reporters,
         NEW place \in {"idle", "rows", "file", "record"},
         stage' = [stage EXCEPT ![h] = place]
  PROVE  /\ stage[h] # "record" /\ place # "record" =>
              Cardinality({g \in Reporters : stage'[g] = "record"})
                = Cardinality({g \in Reporters : stage[g] = "record"})
         /\ stage[h] # "record" /\ place = "record" =>
              Cardinality({g \in Reporters : stage'[g] = "record"})
                = Cardinality({g \in Reporters : stage[g] = "record"}) + 1
         /\ stage[h] = "record" /\ place # "record" =>
              Cardinality({g \in Reporters : stage'[g] = "record"})
                = Cardinality({g \in Reporters : stage[g] = "record"}) - 1
<1> DEFINE before == {g \in Reporters : stage[g] = "record"}
           after == {g \in Reporters : stage'[g] = "record"}
<1>1. IsFiniteSet(before)
  BY FS_Subset
<1>2. /\ stage[h] # "record" /\ place # "record" => after = before
      /\ stage[h] # "record" /\ place = "record" => after = before \cup {h} /\ h \notin before
      /\ stage[h] = "record" /\ place # "record" => after = before \ {h} /\ h \in before
  BY DEF InventoryTypeOK
<1> HIDE DEF before, after
<1>3. /\ h \notin before => Cardinality(before \cup {h}) = Cardinality(before) + 1
      /\ h \in before => Cardinality(before \ {h}) = Cardinality(before) - 1
  BY <1>1, FS_AddElement, FS_RemoveElement
<1> QED BY <1>2, <1>3 DEF before, after

\* A handler without a report.
LEMMA NoReportType == NoReport \in Report
BY DEF NoReport, Report, Days

LEMMA InventoryInitIInv == InventoryInit => InventoryIInv
<1> SUFFICES ASSUME InventoryInit PROVE InventoryIInv OBVIOUS
<1>1. InventoryTypeOK
  <2>1. /\ day \in Days /\ fired \in 0..MaxDay /\ changes \in Nat
        /\ files \in Nat /\ records \in Nat /\ reports \in Nat /\ orphans \in Nat
        /\ missed \subseteq Days /\ late \subseteq Days
    BY DEF InventoryInit, Days
  <2>2. level \in [Items -> 0..MaxLevel] /\ hadLevels \in [Items -> [Days -> SUBSET Levels]]
    <3>1. \A i \in Items : level[i] \in 0..1
      BY DEF InventoryInit
    <3>2. \A i \in Items : {level[i]} \ {0} \in SUBSET Levels
      BY <3>1 DEF Levels
    <3> QED BY <3>1, <3>2 DEF InventoryInit
  <2>3. /\ snapshots \in [Items -> [Days -> 0..MaxLevel]]
        /\ resolutions \in [Items \X Days -> Nat]
    BY DEF InventoryInit
  <2>4. job \in [pc : {"idle", "read", "save"}, today : Days, rows : [Items -> 0..MaxLevel]]
    BY DEF InventoryInit, NoRun, NoRows, Days
  <2>5. /\ stage \in [Reporters -> {"idle", "rows", "file", "record"}]
        /\ asked \in [Reporters -> Report]
    BY NoReportType DEF InventoryInit
  <2> QED BY <2>1, <2>2, <2>3, <2>4, <2>5 DEF InventoryTypeOK
<1>2. ReportsAreComplete /\ GapsStayClosed
  <2>1. {h \in Reporters : stage[h] = "record"} = {}
    BY DEF InventoryInit
  <2>2. Cardinality({h \in Reporters : stage[h] = "record"}) = 0
    BY <2>1, FS_EmptySet
  <2>3. \A h \in Reporters : stage[h] = "idle"
    BY DEF InventoryInit
  <2>4. files = 0 /\ records = 0 /\ orphans = 0
    BY DEF InventoryInit
  <2>5. files = records + orphans + Cardinality({h \in Reporters : stage[h] = "record"})
    BY <2>2, <2>4
  <2> QED BY <1>1, <2>3, <2>5 DEF ReportsAreComplete, GapsStayClosed
<1>3. SnapshotsAreOfTheirDay
  BY DEF InventoryInit, SnapshotsAreOfTheirDay
<1>4. JobKeepsItsDay
  BY DEF InventoryInit, JobKeepsItsDay, NoRun, Days
<1> QED BY <1>2, <1>3, <1>4 DEF InventoryIInv

\* What is done to the stock and by the job takes back neither a snapshot nor a
\* resolution, so that reports may go on.
LEMMA ReportsUndisturbed ==
  ASSUME InventoryIInv, InventoryTypeOK', UNCHANGED reportVars,
         \A i \in Items : \A d \in Days : snapshots[i][d] # 0 => snapshots'[i][d] # 0,
         \A i \in Items : \A d \in Days : resolutions[<<i, d>>] > 0 => resolutions'[<<i, d>>] > 0
  PROVE  ReportsAreComplete' /\ GapsStayClosed'
<1>1. \A h \in Reporters : asked[h].items \subseteq Items
                             /\ asked[h].from..asked[h].to \subseteq Days
  <2> TAKE h \in Reporters
  <2>1. asked[h] \in Report
    BY DEF InventoryIInv, ReportsAreComplete, InventoryTypeOK
  <2>2. asked[h].items \in SUBSET Items /\ asked[h].from \in Days /\ asked[h].to \in Days
    BY <2>1 DEF Report
  <2>3. PICK a \in Days, b \in Days : a = asked[h].from /\ b = asked[h].to
    BY <2>2
  <2>4. \A d \in a..b : d \in Days
    BY <2>3 DEF Days
  <2> QED BY <2>2, <2>3, <2>4
<1>2. ReportsAreComplete'
  BY <1>1 DEF InventoryIInv, ReportsAreComplete, reportVars
<1>3. GapsStayClosed'
  BY <1>1 DEF InventoryIInv, GapsStayClosed, reportVars
<1> QED BY <1>2, <1>3

\* A step of a report.
LEMMA ReportStep ==
  ASSUME InventoryIInv, NEW h \in Reporters,
         NEW place \in {"idle", "rows", "file", "record"}, NEW x \in Report,
         GotoStage(h, place, x), UNCHANGED <<stockVars, jobVars, hadLevels>>,
         files' \in Nat, records' \in Nat, reports' \in Nat, orphans' \in Nat,
         files' = records' + orphans'
                    + Cardinality({g \in Reporters : stage'[g] = "record"}),
         place \in {"file", "record"} =>
           \A i \in x.items : \A d \in x.from..x.to :
             x.rows[i][d] # 0 \/ resolutions[<<i, d>>] > 0,
         place = "rows" =>
           \A i \in x.items : \A d \in x.from..x.to :
             snapshots[i][d] # 0 \/ resolutions[<<i, d>>] > 0
  PROVE  InventoryIInv'
<1>1. InventoryTypeOK /\ ReportsAreComplete /\ GapsStayClosed
  BY DEF InventoryIInv, ReportsAreComplete
<1>2. InventoryTypeOK'
  BY <1>1 DEF InventoryTypeOK, GotoStage, stockVars, jobVars
<1>3. /\ stage' = [stage EXCEPT ![h] = place] /\ asked' = [asked EXCEPT ![h] = x]
      /\ stage \in [Reporters -> {"idle", "rows", "file", "record"}]
      /\ asked \in [Reporters -> Report]
      /\ snapshots' = snapshots /\ resolutions' = resolutions
  BY <1>1 DEF InventoryTypeOK, GotoStage, stockVars
<1>4. ReportsAreComplete'
  BY <1>1, <1>2, <1>3 DEF ReportsAreComplete
<1>5. GapsStayClosed'
  BY <1>1, <1>3 DEF GapsStayClosed
<1>6. SnapshotsAreOfTheirDay' /\ JobKeepsItsDay'
  BY DEF InventoryIInv, SnapshotsAreOfTheirDay, JobKeepsItsDay, stockVars, jobVars
<1> QED BY <1>4, <1>5, <1>6 DEF InventoryIInv

\* An item is created or changed: the level is one that it has had today.
LEMMA ItemStep ==
  ASSUME InventoryIInv, NEW i \in Items, NEW q \in Levels,
         level' = [level EXCEPT ![i] = q],
         hadLevels' = [hadLevels EXCEPT ![i][day] = @ \cup {q}],
         changes' = changes + 1,
         UNCHANGED <<day, snapshots, resolutions, jobVars, reportVars>>
  PROVE  InventoryIInv'
<1>1. InventoryTypeOK /\ SnapshotsAreOfTheirDay /\ JobKeepsItsDay
  BY DEF InventoryIInv, ReportsAreComplete
<1>2. day \in Days /\ level \in [Items -> 0..MaxLevel]
      /\ hadLevels \in [Items -> [Days -> SUBSET Levels]]
  BY <1>1 DEF InventoryTypeOK
<1>3. /\ level' \in [Items -> 0..MaxLevel] /\ level'[i] = q
      /\ \A j \in Items \ {i} : level'[j] = level[j]
  BY <1>2 DEF Levels
<1>4. /\ hadLevels' \in [Items -> [Days -> SUBSET Levels]]
      /\ \A j \in Items : \A d \in Days : hadLevels[j][d] \subseteq hadLevels'[j][d]
      /\ \A j \in Items \ {i} : hadLevels'[j] = hadLevels[j]
      /\ q \in hadLevels'[i][day]
  BY <1>2
<1>5. InventoryTypeOK'
  BY <1>1, <1>3, <1>4 DEF InventoryTypeOK, jobVars, reportVars
<1>6. SnapshotsAreOfTheirDay'
  BY <1>1, <1>4 DEF SnapshotsAreOfTheirDay, jobVars
<1>7. JobKeepsItsDay'
  <2>1. (fired <= day)' /\ (job.pc # "idle" => job.today <= day)'
        /\ (\A j \in Items : \A d \in Days : d > day => snapshots[j][d] = 0)'
    BY <1>1 DEF JobKeepsItsDay, jobVars
  <2>2. \A j \in Items : level'[j] # 0 => level'[j] \in hadLevels'[j][day']
    BY <1>1, <1>2, <1>3, <1>4 DEF JobKeepsItsDay
  <2>3. job.today \in Days
    BY <1>1 DEF InventoryTypeOK
  <2>4. job' = job /\ late' = late
    BY DEF jobVars
  <2>5. (job.pc = "save" /\ job.today \notin late =>
          \A j \in Items : job.rows[j] # 0 => job.rows[j] \in hadLevels[j][job.today])'
    BY <1>1, <1>4, <2>3, <2>4 DEF JobKeepsItsDay
  <2> QED BY <2>1, <2>2, <2>5 DEF JobKeepsItsDay
<1>8. ReportsAreComplete' /\ GapsStayClosed'
  BY <1>5, ReportsUndisturbed
<1> QED BY <1>6, <1>7, <1>8 DEF InventoryIInv

LEMMA NextDayKeeps == ASSUME InventoryIInv, NextDay PROVE InventoryIInv'
<1>1. InventoryTypeOK /\ SnapshotsAreOfTheirDay /\ JobKeepsItsDay
  BY DEF InventoryIInv, ReportsAreComplete
<1>2. /\ day \in Days /\ day < MaxDay /\ day' = day + 1 /\ fired = day
      /\ hadLevels' = [i \in Items |-> [hadLevels[i] EXCEPT ![day + 1] = {level[i]} \ {0}]]
      /\ level' = level /\ snapshots' = snapshots /\ job' = job /\ late' = late
      /\ fired' = fired
  BY <1>1 DEF InventoryTypeOK, NextDay, jobVars
<1>3. day' \in Days /\ level \in [Items -> 0..MaxLevel]
      /\ hadLevels \in [Items -> [Days -> SUBSET Levels]]
  BY <1>1, <1>2 DEF InventoryTypeOK, Days
<1>4. /\ hadLevels' \in [Items -> [Days -> SUBSET Levels]]
      /\ \A i \in Items : hadLevels'[i][day + 1] = {level[i]} \ {0}
      /\ \A i \in Items : \A d \in Days : d # day + 1 => hadLevels'[i][d] = hadLevels[i][d]
  <2>1. \A i \in Items : {level[i]} \ {0} \in SUBSET Levels
    BY <1>3 DEF Levels
  <2> QED BY <1>2, <1>3, <2>1
<1>5. InventoryTypeOK'
  BY <1>1, <1>3, <1>4 DEF InventoryTypeOK, NextDay, jobVars, reportVars
<1>6. SnapshotsAreOfTheirDay'
  <2>1. \A i \in Items : \A d \in Days : d > day => snapshots[i][d] = 0
    BY <1>1 DEF JobKeepsItsDay
  <2>2. \A i \in Items : snapshots[i][day + 1] = 0
    BY <1>2, <1>3, <2>1 DEF Days
  <2> QED BY <1>1, <1>2, <1>4, <2>2 DEF SnapshotsAreOfTheirDay
<1>7. JobKeepsItsDay'
  <2>1. fired' <= day' /\ (job'.pc # "idle" => job'.today <= day')
    BY <1>1, <1>2 DEF JobKeepsItsDay, InventoryTypeOK, Days
  <2>2. \A i \in Items : level'[i] # 0 => level'[i] \in hadLevels'[i][day']
    BY <1>2, <1>4
  <2>3. \A i \in Items : \A d \in Days : d > day' => snapshots'[i][d] = 0
    BY <1>1, <1>2 DEF JobKeepsItsDay, Days
  <2>4. job.today \in Days
    BY <1>1 DEF InventoryTypeOK
  <2>5. job.pc # "idle" => job.today # day + 1
    BY <1>1, <1>2, <2>4 DEF JobKeepsItsDay, Days
  <2>6. job'.pc = "save" /\ job'.today \notin late' =>
          \A i \in Items : job'.rows[i] # 0 => job'.rows[i] \in hadLevels'[i][job'.today]
    BY <1>1, <1>2, <1>4, <2>4, <2>5 DEF JobKeepsItsDay
  <2> QED BY <2>1, <2>2, <2>3, <2>6 DEF JobKeepsItsDay
<1>8. ReportsAreComplete' /\ GapsStayClosed'
  BY <1>5, <1>2, ReportsUndisturbed DEF NextDay
<1> QED BY <1>6, <1>7, <1>8 DEF InventoryIInv

\* A step of the job that writes no snapshot.
LEMMA JobStep ==
  ASSUME InventoryIInv, UNCHANGED <<stockVars, reportVars, hadLevels>>,
         job' \in [pc : {"idle", "read", "save"}, today : Days, rows : [Items -> 0..MaxLevel]],
         fired' \in 0..MaxDay, fired' <= day, missed' \subseteq Days,
         late \subseteq late', late' \subseteq Days,
         job'.pc # "idle" => job'.today <= day,
         job'.pc = "save" /\ job'.today \notin late' =>
           \A i \in Items : job'.rows[i] # 0 => job'.rows[i] \in hadLevels[i][job'.today]
  PROVE  InventoryIInv'
<1>1. InventoryTypeOK /\ SnapshotsAreOfTheirDay /\ JobKeepsItsDay
  BY DEF InventoryIInv, ReportsAreComplete
<1>2. InventoryTypeOK'
  BY <1>1 DEF InventoryTypeOK, stockVars, reportVars
<1>3. SnapshotsAreOfTheirDay'
  BY <1>1 DEF SnapshotsAreOfTheirDay, stockVars
<1>4. JobKeepsItsDay'
  BY <1>1 DEF JobKeepsItsDay, stockVars
<1>5. ReportsAreComplete' /\ GapsStayClosed'
  BY <1>2, ReportsUndisturbed DEF stockVars
<1> QED BY <1>3, <1>4, <1>5 DEF InventoryIInv

\* The job begins on the day it fires.
LEMMA FireJobKeeps == ASSUME InventoryIInv, FireJob PROVE InventoryIInv'
<1>1. day \in Days /\ InventoryTypeOK
  BY DEF InventoryIInv, ReportsAreComplete, InventoryTypeOK
<1>2. /\ job' = [pc |-> "read", today |-> day, rows |-> NoRows] /\ fired' = day
      /\ missed' = missed /\ late' = late
      /\ UNCHANGED <<stockVars, reportVars, hadLevels>>
  BY DEF FireJob
<1>3. /\ job' \in [pc : {"idle", "read", "save"}, today : Days, rows : [Items -> 0..MaxLevel]]
      /\ job'.pc = "read" /\ job'.today = day
  BY <1>1, <1>2 DEF NoRows
<1>4. fired' \in 0..MaxDay /\ fired' <= day /\ missed' \subseteq Days
      /\ late \subseteq late' /\ late' \subseteq Days
  BY <1>1, <1>2 DEF InventoryTypeOK, Days
<1>5. job'.pc # "idle" => job'.today <= day
  BY <1>1, <1>3 DEF Days
<1>6. job'.pc = "save" /\ job'.today \notin late' =>
        \A i \in Items : job'.rows[i] # 0 => job'.rows[i] \in hadLevels[i][job'.today]
  BY <1>3
<1> QED BY <1>2, <1>3, <1>4, <1>5, <1>6, JobStep

LEMMA MissJobKeeps == ASSUME InventoryIInv, MissJob PROVE InventoryIInv'
<1>1. day \in Days /\ InventoryTypeOK /\ JobKeepsItsDay
  BY DEF InventoryIInv, ReportsAreComplete, InventoryTypeOK
<1>2. /\ job' = job /\ fired' = day /\ missed' = missed \cup {day} /\ late' = late
      /\ job.pc = "idle" /\ UNCHANGED <<stockVars, reportVars, hadLevels>>
  BY DEF MissJob
<1>3. job' \in [pc : {"idle", "read", "save"}, today : Days, rows : [Items -> 0..MaxLevel]]
  BY <1>1, <1>2 DEF InventoryTypeOK
<1>4. fired' \in 0..MaxDay /\ fired' <= day /\ missed' \subseteq Days
      /\ late \subseteq late' /\ late' \subseteq Days
  BY <1>1, <1>2 DEF InventoryTypeOK, Days
<1>5. /\ job'.pc # "idle" => job'.today <= day
      /\ job'.pc = "save" /\ job'.today \notin late' =>
           \A i \in Items : job'.rows[i] # 0 => job'.rows[i] \in hadLevels[i][job'.today]
  BY <1>2
<1> QED BY <1>2, <1>3, <1>4, <1>5, JobStep

\* What is read is of the day that it is read on.
LEMMA ReadItemsKeeps == ASSUME InventoryIInv, ReadItems PROVE InventoryIInv'
<1>1. InventoryTypeOK /\ JobKeepsItsDay
  BY DEF InventoryIInv, ReportsAreComplete
<1>2. PICK page \in SUBSET Exists :
        job' = [job EXCEPT !.pc = "save",
                           !.rows = [i \in Items |-> IF i \in page THEN level[i] ELSE 0]]
  BY DEF ReadItems
<1>3. /\ job.pc = "read" /\ late' = late \cup ({job.today} \ {day})
      /\ fired' = fired /\ missed' = missed
      /\ UNCHANGED <<stockVars, reportVars, hadLevels>>
  BY DEF ReadItems
<1>4. PICK read : read = [i \in Items |-> IF i \in page THEN level[i] ELSE 0]
  OBVIOUS
<1>5. /\ read \in [Items -> 0..MaxLevel]
      /\ \A i \in Items : read[i] # 0 => read[i] = level[i]
  BY <1>1, <1>4 DEF InventoryTypeOK
<1>6. /\ job' \in [pc : {"idle", "read", "save"}, today : Days, rows : [Items -> 0..MaxLevel]]
      /\ job'.pc = "save" /\ job'.today = job.today /\ job'.rows = read
      /\ job.today \in Days
  BY <1>1, <1>2, <1>4, <1>5 DEF InventoryTypeOK
<1>7. fired' \in 0..MaxDay /\ fired' <= day /\ missed' \subseteq Days
      /\ late \subseteq late' /\ late' \subseteq Days
  BY <1>1, <1>3, <1>6 DEF InventoryTypeOK, JobKeepsItsDay
<1>8. job'.pc # "idle" => job'.today <= day
  BY <1>1, <1>3, <1>6 DEF JobKeepsItsDay
<1>9. job'.pc = "save" /\ job'.today \notin late' =>
        \A i \in Items : job'.rows[i] # 0 => job'.rows[i] \in hadLevels[i][job'.today]
  <2> SUFFICES ASSUME job.today \notin late',
                      NEW i \in Items, read[i] # 0
               PROVE  read[i] \in hadLevels[i][job.today]
    BY <1>6
  <2>1. job.today = day
    BY <1>3
  <2> QED BY <1>1, <1>5, <2>1 DEF JobKeepsItsDay
<1> QED BY <1>3, <1>6, <1>7, <1>8, <1>9, JobStep

LEMMA FailJobKeeps == ASSUME InventoryIInv, FailJob PROVE InventoryIInv'
<1>1. InventoryTypeOK /\ JobKeepsItsDay
  BY DEF InventoryIInv, ReportsAreComplete
<1>2. /\ job' = NoRun /\ missed' = missed \cup {job.today} /\ fired' = fired
      /\ late' = late /\ UNCHANGED <<stockVars, reportVars, hadLevels>>
  BY DEF FailJob
<1>3. /\ job' \in [pc : {"idle", "read", "save"}, today : Days, rows : [Items -> 0..MaxLevel]]
      /\ job'.pc = "idle"
  BY <1>2 DEF NoRun, NoRows, Days
<1>4. fired' \in 0..MaxDay /\ fired' <= day /\ missed' \subseteq Days
      /\ late \subseteq late' /\ late' \subseteq Days
  BY <1>1, <1>2 DEF InventoryTypeOK, JobKeepsItsDay
<1>5. /\ job'.pc # "idle" => job'.today <= day
      /\ job'.pc = "save" /\ job'.today \notin late' =>
           \A i \in Items : job'.rows[i] # 0 => job'.rows[i] \in hadLevels[i][job'.today]
  BY <1>3
<1> QED BY <1>2, <1>3, <1>4, <1>5, JobStep

\* A snapshot that is written over another is no less one.
LEMMA SaveSnapshotsKeeps == ASSUME InventoryIInv, SaveSnapshots PROVE InventoryIInv'
<1>1. InventoryTypeOK /\ SnapshotsAreOfTheirDay /\ JobKeepsItsDay
  BY DEF InventoryIInv, ReportsAreComplete
<1>2. /\ job.pc = "save" /\ job' = NoRun
      /\ snapshots' = [i \in Items |-> IF job.rows[i] = 0 THEN snapshots[i]
                                       ELSE [snapshots[i] EXCEPT ![job.today] = job.rows[i]]]
      /\ UNCHANGED <<day, level, resolutions, changes, fired, missed, late, reportVars, hadLevels>>
  BY DEF SaveSnapshots
<1>3. PICK today \in Days, read \in [Items -> 0..MaxLevel] :
        today = job.today /\ read = job.rows
  BY <1>1 DEF InventoryTypeOK
<1>4. snapshots \in [Items -> [Days -> 0..MaxLevel]] /\ day \in Days
  BY <1>1 DEF InventoryTypeOK
<1>5. snapshots' = [i \in Items |-> IF read[i] = 0 THEN snapshots[i]
                                    ELSE [snapshots[i] EXCEPT ![today] = read[i]]]
  BY <1>2, <1>3
<1>6. /\ snapshots' \in [Items -> [Days -> 0..MaxLevel]]
      /\ \A i \in Items : \A d \in Days :
           \/ snapshots'[i][d] = snapshots[i][d]
           \/ d = today /\ read[i] # 0 /\ snapshots'[i][d] = read[i]
  BY <1>4, <1>5
<1>7. job' \in [pc : {"idle", "read", "save"}, today : Days, rows : [Items -> 0..MaxLevel]]
      /\ job'.pc = "idle"
  BY <1>2 DEF NoRun, NoRows, Days
<1>8. InventoryTypeOK'
  BY <1>1, <1>2, <1>6, <1>7 DEF InventoryTypeOK, reportVars
<1>9. SnapshotsAreOfTheirDay'
  BY <1>1, <1>2, <1>3, <1>6 DEF SnapshotsAreOfTheirDay, JobKeepsItsDay
<1>10. JobKeepsItsDay'
  <2>1. today <= day
    BY <1>1, <1>2, <1>3 DEF JobKeepsItsDay
  <2>2. \A i \in Items : \A d \in Days : d > day => snapshots'[i][d] = 0
    <3> SUFFICES ASSUME NEW i \in Items, NEW d \in Days, d > day
                 PROVE  snapshots'[i][d] = 0
      OBVIOUS
    <3>1. snapshots[i][d] = 0
      BY <1>1 DEF JobKeepsItsDay
    <3>2. d # today
      BY <1>4, <2>1 DEF Days
    <3> QED BY <1>6, <3>1, <3>2
  <2> QED BY <1>1, <1>2, <1>7, <2>2 DEF JobKeepsItsDay
<1>11. ReportsAreComplete' /\ GapsStayClosed'
  BY <1>2, <1>6, <1>8, ReportsUndisturbed
<1> QED BY <1>9, <1>10, <1>11 DEF InventoryIInv

LEMMA ResolveGapKeeps ==
  ASSUME InventoryIInv, NEW i \in Items, ResolveGap(i) PROVE InventoryIInv'
<1>1. InventoryTypeOK /\ SnapshotsAreOfTheirDay /\ JobKeepsItsDay
  BY DEF InventoryIInv, ReportsAreComplete
<1>2. PICK d \in Days : resolutions' = [resolutions EXCEPT ![<<i, d>>] = @ + 1]
  BY DEF ResolveGap
<1>3. UNCHANGED <<day, level, snapshots, changes, jobVars, reportVars, hadLevels>>
  BY DEF ResolveGap
<1>4. resolutions \in [Items \X Days -> Nat]
  BY <1>1 DEF InventoryTypeOK
<1>5. /\ resolutions' \in [Items \X Days -> Nat]
      /\ \A g \in Items \X Days : resolutions'[g] >= resolutions[g]
  BY <1>2, <1>4
<1>6. InventoryTypeOK'
  BY <1>1, <1>3, <1>5 DEF InventoryTypeOK, jobVars, reportVars
<1>7. \A j \in Items : \A e \in Days : resolutions[<<j, e>>] > 0 => resolutions'[<<j, e>>] > 0
  <2> TAKE j \in Items
  <2> TAKE e \in Days
  <2>1. <<j, e>> \in Items \X Days
    OBVIOUS
  <2>2. resolutions[<<j, e>>] \in Nat /\ resolutions'[<<j, e>>] \in Nat
    BY <1>4, <1>5, <2>1
  <2> QED BY <1>5, <2>1, <2>2
<1>8. ReportsAreComplete' /\ GapsStayClosed'
  BY <1>3, <1>6, <1>7, ReportsUndisturbed
<1>9. SnapshotsAreOfTheirDay' /\ JobKeepsItsDay'
  BY <1>1, <1>3 DEF SnapshotsAreOfTheirDay, JobKeepsItsDay, jobVars
<1> QED BY <1>8, <1>9 DEF InventoryIInv

\* What a report may rely on when it takes a step.
LEMMA ReportFacts ==
  ASSUME InventoryIInv, NEW h \in Reporters
  PROVE  /\ InventoryTypeOK /\ ReportsAreComplete /\ GapsStayClosed
         /\ stage[h] \in {"idle", "rows", "file", "record"} /\ asked[h] \in Report
         /\ files \in Nat /\ records \in Nat /\ reports \in Nat /\ orphans \in Nat
         /\ files = records + orphans + Cardinality({g \in Reporters : stage[g] = "record"})
         /\ Cardinality({g \in Reporters : stage[g] = "record"}) \in Nat
<1>1. InventoryTypeOK /\ ReportsAreComplete /\ GapsStayClosed
  BY DEF InventoryIInv, ReportsAreComplete
<1>2. files = records + orphans + Cardinality({g \in Reporters : stage[g] = "record"})
  BY <1>1 DEF ReportsAreComplete
<1>3. IsFiniteSet({g \in Reporters : stage[g] = "record"})
  BY FS_Subset
<1>4. Cardinality({g \in Reporters : stage[g] = "record"}) \in Nat
  BY <1>3, FS_CardinalityType
<1> QED BY <1>1, <1>2, <1>4 DEF InventoryTypeOK

\* A report goes on when its range has no gap.
LEMMA CheckGapsKeeps ==
  ASSUME InventoryIInv, NEW h \in Reporters, CheckGaps(h) PROVE InventoryIInv'
<1>1. /\ InventoryTypeOK /\ ReportsAreComplete /\ GapsStayClosed
      /\ stage[h] \in {"idle", "rows", "file", "record"} /\ asked[h] \in Report
      /\ files \in Nat /\ records \in Nat /\ reports \in Nat /\ orphans \in Nat
      /\ files = records + orphans + Cardinality({g \in Reporters : stage[g] = "record"})
      /\ Cardinality({g \in Reporters : stage[g] = "record"}) \in Nat
  BY ReportFacts
<1>2. PICK from \in Days : \E to \in from..MaxDay :
        /\ UnresolvedGaps(from, to) = {}
        /\ GotoStage(h, "rows", [NoReport EXCEPT !.kind = "inventory", !.from = from,
                                                 !.to = to, !.items = Exists])
  BY DEF CheckGaps
<1>3. PICK to \in from..MaxDay :
        /\ UnresolvedGaps(from, to) = {}
        /\ GotoStage(h, "rows", [NoReport EXCEPT !.kind = "inventory", !.from = from,
                                                 !.to = to, !.items = Exists])
  BY <1>2
<1>4. PICK there : there = Exists
  OBVIOUS
<1>5. PICK x : x = [NoReport EXCEPT !.kind = "inventory", !.from = from,
                                    !.to = to, !.items = there]
  OBVIOUS
<1>6. to \in Days /\ there \in SUBSET Items
  BY <1>4 DEF Exists, Days
<1>7. x \in Report /\ x.from = from /\ x.to = to /\ x.items = there
  BY <1>5, <1>6, NoReportType DEF Report
<1>8. \A i \in x.items : \A d \in x.from..x.to :
        snapshots[i][d] # 0 \/ resolutions[<<i, d>>] > 0
  <2>1. SUFFICES ASSUME NEW i \in there, NEW d \in from..to, snapshots[i][d] = 0
                 PROVE  resolutions[<<i, d>>] > 0
    BY <1>7
  <2>2. <<i, d>> \in Exists \X (from..to)
    BY <1>4
  <2>3. ~ (snapshots[i][d] = 0 /\ resolutions[<<i, d>>] = 0)
    BY <1>3, <2>2 DEF UnresolvedGaps
  <2>4. d \in Days /\ i \in Items
    BY <1>6 DEF Days
  <2>5. resolutions[<<i, d>>] \in Nat
    BY <2>4, <1>1 DEF InventoryTypeOK
  <2> QED BY <2>1, <2>3, <2>5
<1>9. GotoStage(h, "rows", x)
  BY <1>3, <1>4, <1>5
<1>10. /\ stage[h] = "idle" /\ reports' = reports + 1
       /\ UNCHANGED <<stockVars, jobVars, hadLevels>> /\ UNCHANGED <<files, records, orphans>>
  BY DEF CheckGaps
<1>11. files' = records' + orphans' + Cardinality({g \in Reporters : stage'[g] = "record"})
  BY <1>9, <1>10, <1>1, StageCount DEF GotoStage
<1>12. files' \in Nat /\ records' \in Nat /\ reports' \in Nat /\ orphans' \in Nat
  BY <1>10, <1>1
<1>13. "rows" \in {"idle", "rows", "file", "record"} /\ "rows" \notin {"file", "record"}
  OBVIOUS
<1> QED BY <1>7, <1>8, <1>9, <1>10, <1>11, <1>12, <1>13, ReportStep

\* The rows of a range without gaps answer for all of it.
LEMMA ReadRowsKeeps ==
  ASSUME InventoryIInv, NEW h \in Reporters, ReadRows(h) PROVE InventoryIInv'
<1>1. /\ InventoryTypeOK /\ ReportsAreComplete /\ GapsStayClosed
      /\ stage[h] \in {"idle", "rows", "file", "record"} /\ asked[h] \in Report
      /\ files \in Nat /\ records \in Nat /\ reports \in Nat /\ orphans \in Nat
      /\ files = records + orphans + Cardinality({g \in Reporters : stage[g] = "record"})
      /\ Cardinality({g \in Reporters : stage[g] = "record"}) \in Nat
  BY ReportFacts
<1>2. PICK x : x = [asked[h] EXCEPT !.rows = [i \in Items |-> [d \in Days |->
                      IF d \in asked[h].from..asked[h].to THEN snapshots[i][d] ELSE 0]]]
  OBVIOUS
<1>3. PICK read : read = [i \in Items |-> [d \in Days |->
                      IF d \in asked[h].from..asked[h].to THEN snapshots[i][d] ELSE 0]]
  OBVIOUS
<1>4. asked[h] \in Report /\ snapshots \in [Items -> [Days -> 0..MaxLevel]]
  BY <1>1 DEF InventoryTypeOK
<1>5. read \in [Items -> [Days -> 0..MaxLevel]]
  BY <1>3, <1>4
<1>6. /\ x \in Report /\ x.rows = read /\ x.items = asked[h].items
      /\ x.from = asked[h].from /\ x.to = asked[h].to
  BY <1>2, <1>3, <1>4, <1>5 DEF Report
<1>7. /\ GotoStage(h, "file", x) /\ stage[h] = "rows"
      /\ UNCHANGED <<stockVars, jobVars, hadLevels>>
      /\ UNCHANGED <<files, records, reports, orphans>>
  BY <1>2 DEF ReadRows
<1>8. \A i \in x.items : \A d \in x.from..x.to :
        x.rows[i][d] # 0 \/ resolutions[<<i, d>>] > 0
  <2> SUFFICES ASSUME NEW i \in asked[h].items, NEW d \in asked[h].from..asked[h].to
               PROVE  read[i][d] # 0 \/ resolutions[<<i, d>>] > 0
    BY <1>6
  <2>1. snapshots[i][d] # 0 \/ resolutions[<<i, d>>] > 0
    BY <1>7, <1>1 DEF GapsStayClosed
  <2>2. i \in Items /\ asked[h].from \in Days /\ asked[h].to \in Days
    BY <1>4 DEF Report
  <2>3. d \in Days
    BY <2>2 DEF Days
  <2> QED BY <1>3, <2>1, <2>2, <2>3
<1>9. files' = records' + orphans' + Cardinality({g \in Reporters : stage'[g] = "record"})
  BY <1>7, <1>1, StageCount DEF GotoStage
<1>10. files' \in Nat /\ records' \in Nat /\ reports' \in Nat /\ orphans' \in Nat
  BY <1>7, <1>1
<1>11. "file" \in {"idle", "rows", "file", "record"} /\ "file" # "rows"
  OBVIOUS
<1> QED BY <1>6, <1>7, <1>8, <1>9, <1>10, <1>11, ReportStep

LEMMA ReadOthersKeeps ==
  ASSUME InventoryIInv, NEW h \in Reporters, ReadEvents(h) \/ ReadApprovals(h)
  PROVE  InventoryIInv'
<1>1. /\ InventoryTypeOK /\ ReportsAreComplete /\ GapsStayClosed
      /\ stage[h] \in {"idle", "rows", "file", "record"} /\ asked[h] \in Report
      /\ files \in Nat /\ records \in Nat /\ reports \in Nat /\ orphans \in Nat
      /\ files = records + orphans + Cardinality({g \in Reporters : stage[g] = "record"})
      /\ Cardinality({g \in Reporters : stage[g] = "record"}) \in Nat
  BY ReportFacts
<1>2. files' \in Nat /\ records' \in Nat /\ reports' \in Nat /\ orphans' \in Nat
  <2>1. /\ files' = files /\ records' = records /\ orphans' = orphans
        /\ reports' = reports + 1
    BY DEF ReadEvents, ReadApprovals, ReadOthers
  <2> QED BY <1>1, <2>1
<1>3. PICK kind \in {"events", "events, all filters", "approvals", "approvals, all filters"} :
        GotoStage(h, "file", [NoReport EXCEPT !.kind = kind])
  BY DEF ReadEvents, ReadApprovals, ReadOthers
<1>4. PICK x : x = [NoReport EXCEPT !.kind = kind]
  OBVIOUS
<1>5. x \in Report /\ x.items = {}
  <2>1. NoReport.items = {}
    BY DEF NoReport
  <2> QED BY <1>4, <2>1, NoReportType DEF Report, TooLong
<1>6. /\ GotoStage(h, "file", x) /\ stage[h] = "idle" /\ reports' = reports + 1
      /\ UNCHANGED <<stockVars, jobVars, hadLevels>> /\ UNCHANGED <<files, records, orphans>>
  BY <1>3, <1>4 DEF ReadEvents, ReadApprovals, ReadOthers
<1>7. files' = records' + orphans' + Cardinality({g \in Reporters : stage'[g] = "record"})
  BY <1>6, <1>1, StageCount DEF GotoStage
<1>8. \A i \in x.items : \A d \in x.from..x.to :
        x.rows[i][d] # 0 \/ resolutions[<<i, d>>] > 0
  BY <1>5
<1>9. "file" \in {"idle", "rows", "file", "record"} /\ "file" # "rows"
  OBVIOUS
<1> QED BY <1>5, <1>6, <1>7, <1>2, <1>8, <1>9, ReportStep

\* One file more, and one handler more that is to record it.
LEMMA WriteFileKeeps ==
  ASSUME InventoryIInv, NEW h \in Reporters, WriteFile(h) PROVE InventoryIInv'
<1>1. /\ InventoryTypeOK /\ ReportsAreComplete /\ GapsStayClosed
      /\ stage[h] \in {"idle", "rows", "file", "record"} /\ asked[h] \in Report
      /\ files \in Nat /\ records \in Nat /\ reports \in Nat /\ orphans \in Nat
      /\ files = records + orphans + Cardinality({g \in Reporters : stage[g] = "record"})
      /\ Cardinality({g \in Reporters : stage[g] = "record"}) \in Nat
  BY ReportFacts
<1>2. /\ GotoStage(h, "record", asked[h]) /\ stage[h] = "file" /\ files' = files + 1
      /\ UNCHANGED <<stockVars, jobVars, hadLevels>> /\ UNCHANGED <<records, reports, orphans>>
  BY DEF WriteFile
<1>3. files' = records' + orphans' + Cardinality({g \in Reporters : stage'[g] = "record"})
  <2>1. Cardinality({g \in Reporters : stage'[g] = "record"})
          = Cardinality({g \in Reporters : stage[g] = "record"}) + 1
    BY <1>1, <1>2, StageCount DEF GotoStage
  <2>2. files' = files + 1 /\ records' = records /\ orphans' = orphans
    BY <1>2
  <2> QED BY <1>1, <2>1, <2>2
<1>4. files' \in Nat /\ records' \in Nat /\ reports' \in Nat /\ orphans' \in Nat
  BY <1>2, <1>1
<1>5. \A i \in asked[h].items : \A d \in asked[h].from..asked[h].to :
        asked[h].rows[i][d] # 0 \/ resolutions[<<i, d>>] > 0
  BY <1>2, <1>1 DEF ReportsAreComplete
<1>6. "record" \in {"idle", "rows", "file", "record"} /\ "record" # "rows"
  OBVIOUS
<1>7. asked[h] \in Report
  BY <1>1
<1> QED BY <1>2, <1>3, <1>4, <1>5, <1>6, <1>7, ReportStep

\* A report that ends in any way.
LEMMA EndReportKeeps ==
  ASSUME InventoryIInv, NEW h \in Reporters, InsertRecord(h) \/ FailReport(h)
  PROVE  InventoryIInv'
<1>1. /\ InventoryTypeOK /\ ReportsAreComplete /\ GapsStayClosed
      /\ stage[h] \in {"idle", "rows", "file", "record"} /\ asked[h] \in Report
      /\ files \in Nat /\ records \in Nat /\ reports \in Nat /\ orphans \in Nat
      /\ files = records + orphans + Cardinality({g \in Reporters : stage[g] = "record"})
      /\ Cardinality({g \in Reporters : stage[g] = "record"}) \in Nat
  BY ReportFacts
<1>2. /\ GotoStage(h, "idle", NoReport)
      /\ UNCHANGED <<stockVars, jobVars, hadLevels>> /\ UNCHANGED <<files, reports>>
  BY DEF InsertRecord, FailReport, EndReport
<1>3. IF stage[h] = "record"
      THEN \/ orphans' = orphans + 1 /\ records' = records
           \/ orphans' = orphans /\ records' = records + 1
      ELSE orphans' = orphans /\ records' = records
  BY <1>1 DEF InsertRecord, FailReport
<1>4. files' = records' + orphans' + Cardinality({g \in Reporters : stage'[g] = "record"})
  <2>1. stage' = [stage EXCEPT ![h] = "idle"] /\ files' = files
    BY <1>2 DEF GotoStage
  <2>2. CASE stage[h] = "record"
    <3>1. Cardinality({g \in Reporters : stage'[g] = "record"})
            = Cardinality({g \in Reporters : stage[g] = "record"}) - 1
      BY <1>1, <2>1, <2>2, StageCount
    <3> QED BY <1>1, <1>3, <2>1, <2>2, <3>1
  <2>3. CASE stage[h] # "record"
    <3>1. Cardinality({g \in Reporters : stage'[g] = "record"})
            = Cardinality({g \in Reporters : stage[g] = "record"})
      BY <1>1, <2>1, <2>3, StageCount
    <3> QED BY <1>1, <1>3, <2>1, <2>3, <3>1
  <2> QED BY <2>2, <2>3
<1>5. files' \in Nat /\ records' \in Nat /\ reports' \in Nat /\ orphans' \in Nat
  BY <1>2, <1>3, <1>1
<1>6. "idle" \in {"idle", "rows", "file", "record"} /\ "idle" \notin {"rows", "file", "record"}
  OBVIOUS
<1> QED BY <1>2, <1>4, <1>5, <1>6, NoReportType, ReportStep

LEMMA InventoryIInvNext ==
  ASSUME InventoryIInv, [InventoryNext]_inventoryVars PROVE InventoryIInv'
<1>1. CASE UNCHANGED inventoryVars
  <2>1. UNCHANGED <<stockVars, jobVars, reportVars, hadLevels>>
    BY <1>1 DEF inventoryVars
  <2>2. InventoryTypeOK'
    BY <2>1 DEF InventoryIInv, ReportsAreComplete, InventoryTypeOK, stockVars, jobVars,
        reportVars
  <2>3. ReportsAreComplete' /\ GapsStayClosed'
    BY <2>1, <2>2, ReportsUndisturbed DEF stockVars
  <2> QED BY <2>1, <2>3 DEF InventoryIInv, SnapshotsAreOfTheirDay, JobKeepsItsDay,
                            stockVars, jobVars
<1>2. ASSUME NEW i \in Items, CreateItem(i) \/ UpdateItem(i) PROVE InventoryIInv'
  <2>1. PICK q \in Levels : /\ level' = [level EXCEPT ![i] = q]
                            /\ hadLevels' = [hadLevels EXCEPT ![i][day] = @ \cup {q}]
    BY <1>2 DEF CreateItem, UpdateItem
  <2>2. /\ changes' = changes + 1
        /\ UNCHANGED <<day, snapshots, resolutions, jobVars, reportVars>>
    BY <1>2 DEF CreateItem, UpdateItem
  <2> QED BY <2>1, <2>2, ItemStep
<1> QED BY <1>1, <1>2, NextDayKeeps, FireJobKeeps, MissJobKeeps, ReadItemsKeeps,
           SaveSnapshotsKeeps, FailJobKeeps, ResolveGapKeeps, CheckGapsKeeps, ReadRowsKeeps,
           ReadOthersKeeps, WriteFileKeeps, EndReportKeeps
        DEF InventoryNext, ServeReport

\* However items change, days pass and the job and reports overlap, the invariant
\* of the inventory holds.
THEOREM InventoryInvariance == InventorySpec => []InventoryIInv
<1>1. InventoryInit => InventoryIInv
  BY InventoryInitIInv
<1>2. InventoryIInv /\ [InventoryNext]_inventoryVars => InventoryIInv'
  BY InventoryIInvNext
<1> QED BY <1>1, <1>2, PTL DEF InventorySpec

\* A report that was let through answers for every day and item of its check
\* (reports/service.js), and every file in reports/ is accounted for.
THEOREM ReportsComplete == InventorySpec => []ReportsAreComplete
<1>1. InventoryIInv => ReportsAreComplete
  BY DEF InventoryIInv
<1> QED BY <1>1, InventoryInvariance, PTL

\* A snapshot is of its day (inventory/service.js, takeSnapshots), however late
\* the run of the job that wrote it ended.
THEOREM SnapshotsOfTheirDay == InventorySpec => []SnapshotsAreOfTheirDay
<1>1. InventoryIInv => SnapshotsAreOfTheirDay
  BY DEF InventoryIInv
<1> QED BY <1>1, InventoryInvariance, PTL
-------------------------------------------------------------------------------
(***************************************************************************)
(* Attachments: files behind rows, uploads that are sent whole.            *)
(***************************************************************************)
USE AttachmentsAssumption

\* What EXCEPT makes of an upload.
LEMMA Moved ==
  ASSUME NEW u \in Upload, NEW place \in Places, NEW n \in 0..Variants,
         NEW v, v = [u EXCEPT !.variants = n, !.at = place]
  PROVE  /\ v \in Upload /\ v.at = place /\ v.left = u.left
         /\ v.path = u.path /\ v.variants = n /\ v.cut = u.cut
BY DEF Upload

LEMMA MovedWithout ==
  ASSUME NEW u \in Upload, NEW place \in Places
  PROVE  LET v == [u EXCEPT !.variants = 0, !.at = place]
         IN /\ v \in Upload /\ v.at = place /\ v.left = u.left
            /\ v.path = u.path /\ v.variants = 0 /\ v.cut = u.cut
<1> DEFINE none == 0
<1>1. none \in 0..Variants
  BY DEF Variants
<1> HIDE DEF none
<1>2. LET v == [u EXCEPT !.variants = none, !.at = place]
      IN /\ v \in Upload /\ v.at = place /\ v.left = u.left
         /\ v.path = u.path /\ v.variants = none /\ v.cut = u.cut
  BY <1>1 DEF Upload
<1> QED BY <1>2 DEF none

LEMMA MovedOn ==
  ASSUME NEW u \in Upload, NEW place \in Places, NEW v, v = [u EXCEPT !.at = place]
  PROVE  /\ v \in Upload /\ v.at = place /\ v.left = u.left
         /\ v.path = u.path /\ v.variants = u.variants /\ v.cut = u.cut
BY DEF Upload

LEMMA BetweenFiles ==
  ASSUME NEW place \in {"idle", "next"}, NEW n \in 0..MaxParts
  PROVE  Between(place, n) \in Upload /\ Relies(Between(place, n))
BY DEF Between, Upload, Places, Relies, Variants

LEMMA InitIInv == AttachmentsInit => AttachmentsIInv
<1>1. Idle \in Upload /\ Relies(Idle)
  BY BetweenFiles DEF Idle
<1> QED BY <1>1 DEF AttachmentsInit, AttachmentsIInv, FilesBehindRows,
            AttachmentsTypeOK, SentWhole, UploadsRely,
                    Row, File, Variants, Named

\* A step of one upload that touches neither files nor rows.
LEMMA LocalStep ==
  ASSUME AttachmentsIInv, NEW h \in Uploaders, NEW u \in Upload, Become(h, u), Relies(u),
         requests' \in 0..MaxRequests,
         UNCHANGED <<fileVars, rows, down, emptied, sent>>
  PROVE  AttachmentsIInv'
<1>1. AttachmentsTypeOK'
  BY DEF AttachmentsIInv, FilesBehindRows, AttachmentsTypeOK, Become, fileVars
<1>2. UploadsRely'
  BY DEF AttachmentsIInv, FilesBehindRows, AttachmentsTypeOK, UploadsRely, Relies,
      Become, fileVars
<1> QED BY <1>1, <1>2 DEF AttachmentsIInv, FilesBehindRows, SentWhole, Named, fileVars

\* The same, where the upload only moves on.
LEMMA ReceiveKeeps ==
  ASSUME AttachmentsIInv, NEW h \in Uploaders, Receive(h)
  PROVE  AttachmentsIInv'
<1>1. PICK n \in 0..MaxParts : Become(h, Between("next", n))
  BY DEF Receive
<1>2. Between("next", n) \in Upload /\ Relies(Between("next", n))
  BY BetweenFiles
<1>3. requests' \in 0..MaxRequests
  BY DEF Receive, AttachmentsIInv, FilesBehindRows, AttachmentsTypeOK
<1> QED BY <1>1, <1>2, <1>3, LocalStep DEF Receive

LEMMA NextFileKeeps ==
  ASSUME AttachmentsIInv, NEW h \in Uploaders, NextFile(h), up[h].left > 0,
         UNCHANGED <<fileVars, rows, restVars>>
  PROVE  AttachmentsIInv'
<1> DEFINE u == Between("next", up[h].left - 1)
<1>1. up[h].left - 1 \in 0..MaxParts
  BY DEF AttachmentsIInv, FilesBehindRows, AttachmentsTypeOK, Upload
<1>2. u \in Upload /\ Relies(u)
  BY <1>1, BetweenFiles
<1>3. Become(h, u) /\ requests' \in 0..MaxRequests
  BY DEF NextFile, AttachmentsIInv, FilesBehindRows, AttachmentsTypeOK, restVars
<1> QED BY <1>2, <1>3, LocalStep DEF restVars

\* A part that is accepted has its path.
LEMMA AcceptKeeps ==
  ASSUME AttachmentsIInv, NEW h \in Uploaders, Accept(h)
  PROVE  AttachmentsIInv'
<1>1. PICK p \in Paths, image \in BOOLEAN :
        Become(h, [up[h] EXCEPT !.at = "open", !.path = p, !.image = image])
  BY DEF Accept
<1> DEFINE u == [up[h] EXCEPT !.at = "open", !.path = p, !.image = image]
<1>2. /\ u \in Upload /\ u.at = "open" /\ u.path = p
      /\ u.left = up[h].left /\ u.variants = up[h].variants /\ u.cut = up[h].cut
  BY DEF AttachmentsIInv, FilesBehindRows, AttachmentsTypeOK, Upload, Places
<1> HIDE DEF u
<1>3. Relies(u)
  BY <1>2 DEF Accept, AttachmentsIInv, FilesBehindRows, UploadsRely, AttachmentsTypeOK,
      Relies, Variants
<1>4. requests' \in 0..MaxRequests
  BY DEF Accept, restVars, AttachmentsIInv, FilesBehindRows, AttachmentsTypeOK
<1> QED BY <1>1, <1>2, <1>3, <1>4, LocalStep DEF Accept, restVars, u

LEMMA GiveUpVariantsKeeps ==
  ASSUME AttachmentsIInv, NEW h \in Uploaders, GiveUpVariants(h) PROVE AttachmentsIInv'
<1> DEFINE u == [up[h] EXCEPT !.variants = 0, !.at = "insert"]
<1>1. up[h] \in Upload /\ 0 \in 0..Variants /\ "insert" \in Places
  BY DEF AttachmentsIInv, FilesBehindRows, AttachmentsTypeOK, Variants, Places
<1>2. /\ u \in Upload /\ u.at = "insert" /\ u.left = up[h].left
      /\ u.path = up[h].path /\ u.variants = 0 /\ u.cut = up[h].cut
  BY <1>1, MovedWithout
<1> HIDE DEF u
<1>3. Relies(u)
  BY <1>2 DEF GiveUpVariants, AttachmentsIInv, FilesBehindRows, UploadsRely,
      AttachmentsTypeOK, Relies, Variants
<1>4. requests' \in 0..MaxRequests
  BY DEF GiveUpVariants, restVars, AttachmentsIInv, FilesBehindRows, AttachmentsTypeOK
<1> QED BY <1>2, <1>3, <1>4, LocalStep DEF GiveUpVariants, restVars, u

LEMMA ReplyKeeps ==
  ASSUME AttachmentsIInv, NEW h \in Uploaders, Reply(h)
  PROVE  AttachmentsIInv'
<1>1. Idle \in Upload /\ Relies(Idle)
  BY BetweenFiles DEF Idle
<1>2. requests' \in 0..MaxRequests
  BY DEF Reply, restVars, AttachmentsIInv, FilesBehindRows, AttachmentsTypeOK
<1> QED BY <1>1, <1>2, LocalStep DEF Reply, restVars
-------------------------------------------------------------------------------
\* The steps that write. Emptying a file is what a row or another upload of the
\* same content has to be told of.
LEMMA OpenKeeps ==
  ASSUME AttachmentsIInv, NEW h \in Uploaders, Open(h)
  PROVE  AttachmentsIInv'
<1> DEFINE p == up[h].path
<1>1. p \in Paths /\ up[h].at = "open" /\ up \in [Uploaders -> Upload]
  BY DEF Open, AttachmentsIInv, UploadsRely, Relies, FilesBehindRows, AttachmentsTypeOK
<1>2. /\ disk' = [disk EXCEPT ![p] = "torn"]
      /\ UNCHANGED <<made, rows, down, requests, sent>>
      /\ emptied \subseteq emptied' /\ emptied' \subseteq Paths
      /\ Named(p) \/ (\E g \in Uploaders \ {h} : up[g].path = p) => p \in emptied'
  BY <1>1 DEF Open, AttachmentsIInv, FilesBehindRows, AttachmentsTypeOK
<1>3. /\ up'[h] = [up[h] EXCEPT !.at = "write"]
      /\ \A g \in Uploaders \ {h} :
           up'[g] = [up[g] EXCEPT !.cut = @ \/ (up[g].at = "write" /\ up[g].path = p)]
      /\ up' = [g \in Uploaders |-> up'[g]]
  BY DEF Open
<1>4. ASSUME NEW g \in Uploaders PROVE up'[g] \in Upload
  <2>1. CASE g = h
    BY <1>1, <1>3, <2>1, MovedOn DEF Places
  <2>2. CASE g # h
    <3>1. (up[g].cut \/ (up[g].at = "write" /\ up[g].path = p)) \in BOOLEAN
      OBVIOUS
    <3>2. up[g] \in Upload /\ up'[g] = [up[g] EXCEPT !.cut = up[g].cut \/
                            (up[g].at = "write" /\ up[g].path = p)]
      BY <1>1, <1>3, <2>2
    <3> QED BY <3>1, <3>2 DEF Upload
  <2> QED BY <2>1, <2>2
<1>5. AttachmentsTypeOK'
  BY <1>1, <1>2, <1>3, <1>4 DEF AttachmentsIInv, FilesBehindRows, AttachmentsTypeOK,
      File
<1>6. ASSUME NEW g \in Uploaders PROVE Relies(up[g])'
  <2>1. CASE g = h
    BY <1>1, <1>2, <1>3, <2>1
       DEF AttachmentsIInv, FilesBehindRows, AttachmentsTypeOK, UploadsRely, Relies,
           Upload, File, Variants
  <2>2. CASE g # h
    BY <1>1, <1>2, <1>3, <2>2
       DEF AttachmentsIInv, FilesBehindRows, AttachmentsTypeOK, UploadsRely, Relies,
           Upload, File, Variants
  <2> QED BY <2>1, <2>2
<1>7. FilesBehindRows'
  BY <1>1, <1>2, <1>5 DEF AttachmentsIInv, FilesBehindRows, AttachmentsTypeOK, Named,
      File, Row
<1> QED BY <1>2, <1>6, <1>7 DEF AttachmentsIInv, SentWhole, UploadsRely, Named

\* The file is filled: whole, unless it was opened again meanwhile.
LEMMA FillKeeps ==
  ASSUME AttachmentsIInv, NEW h \in Uploaders, Fill(h)
  PROVE  AttachmentsIInv'
<1> DEFINE p == up[h].path
           u == [up[h] EXCEPT !.at = IF up[h].image THEN "variant" ELSE "insert"]
<1>1. p \in Paths /\ up[h].at = "write" /\ up \in [Uploaders -> Upload] /\ Relies(up[h])
  BY DEF Fill, AttachmentsIInv, UploadsRely, Relies, FilesBehindRows, AttachmentsTypeOK
<1>2. PICK content \in {"torn", "whole"} :
        /\ disk' = [disk EXCEPT ![p] = content]
        /\ content = "torn" => up[h].cut
  BY DEF Fill
<1>3. up' = [up EXCEPT ![h] = u] /\ UNCHANGED <<made, rows, restVars>>
  BY DEF Fill, Become
<1>4. content = "torn" => p \in emptied
  BY <1>1, <1>2 DEF Relies
<1>5. u \in Upload
  BY <1>1 DEF Upload, Places
<1>6. AttachmentsTypeOK'
  BY <1>1, <1>2, <1>3, <1>5 DEF AttachmentsIInv, FilesBehindRows, AttachmentsTypeOK,
      File, restVars
<1>7. ASSUME NEW g \in Uploaders PROVE Relies(up[g])'
  BY <1>1, <1>2, <1>3, <1>4, <1>5
     DEF AttachmentsIInv, FilesBehindRows, AttachmentsTypeOK, UploadsRely, Relies,
         Upload, File, Variants, restVars
<1>8. FilesBehindRows'
  BY <1>1, <1>2, <1>3, <1>4, <1>6 DEF AttachmentsIInv, FilesBehindRows,
      AttachmentsTypeOK, File, Row, restVars
<1> QED BY <1>3, <1>7, <1>8 DEF AttachmentsIInv, SentWhole, UploadsRely, Named, restVars

LEMMA MakeVariantKeeps ==
  ASSUME AttachmentsIInv, NEW h \in Uploaders, MakeVariant(h)
  PROVE  AttachmentsIInv'
<1> DEFINE p == up[h].path
           n == up[h].variants + 1
           u == [up[h] EXCEPT !.variants = n,
                              !.at = IF n = Variants THEN "insert" ELSE "variant"]
<1>1. /\ p \in Paths /\ up[h].at = "variant" /\ up \in [Uploaders -> Upload]
      /\ Relies(up[h]) /\ made \in [Paths -> 0..Variants]
  BY DEF MakeVariant, AttachmentsIInv, UploadsRely, Relies, FilesBehindRows,
      AttachmentsTypeOK
<1>2. n \in 1..Variants
  BY <1>1 DEF Relies, Upload, Variants
<1>3. /\ made' = [made EXCEPT ![p] = IF n > made[p] THEN n ELSE made[p]]
      /\ up' = [up EXCEPT ![h] = u] /\ UNCHANGED <<disk, rows, restVars>>
  BY DEF MakeVariant, Become
<1>4. /\ made' \in [Paths -> 0..Variants] /\ n <= made'[p]
      /\ \A q \in Paths : made[q] <= made'[q] /\ made'[q] \in 0..Variants
  BY <1>1, <1>2, <1>3 DEF Variants
<1>5. u \in Upload
  <2>1. n \in 0..Variants /\ (IF n = Variants THEN "insert" ELSE "variant") \in Places
    BY <1>2 DEF Places, Variants
  <2> QED BY <1>1, <2>1, Moved
<1>6. AttachmentsTypeOK'
  BY <1>3, <1>4, <1>5 DEF AttachmentsIInv, FilesBehindRows, AttachmentsTypeOK, restVars
<1>7. ASSUME NEW g \in Uploaders PROVE Relies(up[g])'
  <2>1. CASE g = h
    BY <1>1, <1>2, <1>3, <1>4, <1>5, <2>1 DEF Relies, Upload, Variants, restVars
  <2>2. CASE g # h
    BY <1>1, <1>3, <1>4, <2>2 DEF AttachmentsIInv, UploadsRely, Relies, Upload,
        Variants, restVars
  <2> QED BY <2>1, <2>2
<1>8. \A row \in rows : row.path \in Paths /\ row.variants \in {0, made'[row.path]}
  BY <1>1, <1>4 DEF AttachmentsIInv, FilesBehindRows, AttachmentsTypeOK, Row, Variants
<1>9. FilesBehindRows'
  BY <1>3, <1>6, <1>8 DEF AttachmentsIInv, FilesBehindRows, restVars
<1> QED BY <1>3, <1>7, <1>9 DEF AttachmentsIInv, SentWhole, UploadsRely, Named, restVars

\* A row is inserted behind a file that is there.
LEMMA InsertKeeps ==
  ASSUME AttachmentsIInv, NEW h \in Uploaders, Insert(h)
  PROVE  AttachmentsIInv'
<1> DEFINE row == [path |-> up[h].path, variants |-> up[h].variants]
           u == [up[h] EXCEPT !.at = "audit"]
<1>1. /\ up[h].at = "insert" /\ up[h].path \in Paths /\ up \in [Uploaders -> Upload]
      /\ Relies(up[h]) /\ made \in [Paths -> 0..Variants]
  BY DEF Insert, AttachmentsIInv, UploadsRely, Relies, FilesBehindRows,
      AttachmentsTypeOK
<1>2. /\ rows' = rows \cup {row} /\ up' = [up EXCEPT ![h] = u]
      /\ UNCHANGED <<fileVars, restVars>>
  BY DEF Insert, Goto, Become
<1>3. /\ row \in Row /\ row.variants \in {0, Variants}
      /\ disk[row.path] # "missing"
      /\ row.path \notin emptied => disk[row.path] = "whole"
      /\ row.variants \in {0, made[row.path]}
  BY <1>1 DEF Row, Relies, Upload, Variants
<1>4. u \in Upload /\ Relies(u)
  BY <1>1 DEF Upload, Places, Relies, Variants
<1>5. AttachmentsTypeOK'
  BY <1>2, <1>3, <1>4 DEF AttachmentsIInv, FilesBehindRows, AttachmentsTypeOK,
      fileVars, restVars
<1>6. UploadsRely'
  BY <1>1, <1>2, <1>4 DEF AttachmentsIInv, UploadsRely, Relies, fileVars, restVars
<1>7. FilesBehindRows'
  BY <1>2, <1>3, <1>5 DEF AttachmentsIInv, FilesBehindRows, fileVars, restVars
<1> QED BY <1>2, <1>3, <1>6, <1>7 DEF AttachmentsIInv, SentWhole, Named, fileVars,
            restVars

\* Downloads find rows, which are never deleted.
LEMMA DownloadKeeps ==
  ASSUME AttachmentsIInv, NEW h \in Downloaders, Find(h) \/ Send(h) PROVE AttachmentsIInv'
<1>1. CASE Find(h)
  <2>1. PICK row \in rows : down' = [down EXCEPT ![h] = row.path]
    BY <1>1 DEF Find
  <2>2. Named(row.path) /\ row.path \in Paths
    BY DEF Named, AttachmentsIInv, FilesBehindRows, AttachmentsTypeOK, Row
  <2> QED BY <1>1, <2>1, <2>2
          DEF Find, AttachmentsIInv, FilesBehindRows, AttachmentsTypeOK, SentWhole,
              UploadsRely, Relies,
              Named, fileVars
<1>2. CASE Send(h)
  <2>1. PICK row \in rows : row.path = down[h]
    BY <1>2 DEF Send, AttachmentsIInv, Named
  <2>2. /\ disk[down[h]] # "missing" /\ disk[down[h]] \in File
        /\ emptied = {} => disk[down[h]] = "whole"
    BY <2>1 DEF AttachmentsIInv, FilesBehindRows, AttachmentsTypeOK, Row
  <2> QED BY <1>2, <2>2
          DEF Send, AttachmentsIInv, FilesBehindRows, AttachmentsTypeOK, SentWhole,
              UploadsRely, Relies,
              Named, fileVars
<1> QED BY <1>1, <1>2

\* Files and rows outlive the process, uploads do not.
LEMMA CrashKeeps == ASSUME AttachmentsIInv, Crash PROVE AttachmentsIInv'
<1>1. Idle \in Upload /\ Relies(Idle)'
  BY BetweenFiles DEF Idle, Between, Relies
<1> QED BY <1>1
        DEF Crash, AttachmentsIInv, FilesBehindRows, AttachmentsTypeOK, SentWhole,
            UploadsRely, Named, fileVars
-------------------------------------------------------------------------------
\* Every step of an upload keeps the invariant.
LEMMA ServeKeeps ==
  ASSUME AttachmentsIInv, NEW h \in Uploaders, Serve(h)
  PROVE  AttachmentsIInv'
<1>1. CASE Refuse(h)
  BY <1>1, NextFileKeeps DEF Refuse
<1>2. CASE Audit(h) \/ FailFile(h)
  <2>1. up[h].left > 0
    BY <1>2 DEF Audit, FailFile, AttachmentsIInv, UploadsRely, Relies
  <2> QED BY <1>2, <2>1, NextFileKeeps DEF Audit, FailFile
<1> QED BY <1>1, <1>2, AcceptKeeps, OpenKeeps, FillKeeps, MakeVariantKeeps,
           GiveUpVariantsKeeps, InsertKeeps, ReplyKeeps DEF Serve

\* However many requests upload and download however many files, and whatever
\* fails or crashes, the rows, the files and the uploads between them stay as
\* AttachmentsIInv has them.
THEOREM AttachmentsInvariance == AttachmentsSpec => []AttachmentsIInv
<1>1. AttachmentsIInv /\ [AttachmentsNext]_attachmentVars => AttachmentsIInv'
  <2>1. ASSUME AttachmentsIInv, UNCHANGED attachmentVars PROVE AttachmentsIInv'
    BY <2>1 DEF attachmentVars, AttachmentsIInv, FilesBehindRows, AttachmentsTypeOK,
        SentWhole, UploadsRely, Relies, Named
  <2> QED BY <2>1, ReceiveKeeps, ServeKeeps, DownloadKeeps, CrashKeeps
              DEF AttachmentsNext
<1> QED BY <1>1, InitIInv, PTL DEF AttachmentsSpec

\* A row of the table names a file that is there, which is whole unless its
\* content was uploaded again, and variants that are made.
THEOREM FilesBehindRowsHolds == AttachmentsSpec => []FilesBehindRows
<1>1. AttachmentsIInv => FilesBehindRows
  BY DEF AttachmentsIInv
<1> QED BY <1>1, AttachmentsInvariance, PTL

\* No download finds its file missing, and while no content is uploaded twice
\* each is sent whole.
THEOREM SentWholeHolds == AttachmentsSpec => []SentWhole
<1>1. AttachmentsIInv => SentWhole
  BY DEF AttachmentsIInv
<1> QED BY <1>1, AttachmentsInvariance, PTL
===============================================================================
