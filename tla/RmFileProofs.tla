---------------------------- MODULE RmFileProofs ----------------------------
(***************************************************************************)
(* Proofs about RmFile: the record counts and the free list, for any       *)
(* number of transactions, pages, slots and changes.                       *)
(***************************************************************************)
EXTENDS RmFile, NaturalsInduction, FiniteSetTheorems, TLAPS

-----------------------------------------------------------------------------
(* Least numbers, and induction up to a bound.                             *)

LEMMA LeastNat ==
  ASSUME NEW T, T \subseteq Nat, T # {}
  PROVE  \E x \in T : \A y \in T : x <= y
<1> DEFINE R == OpToRel(<, Nat)
<1>1. IsWellFoundedOn(OpToRel(<, Nat), Nat)
  BY NatLessThanWellFounded, Zenon
<1>2. \E x \in T : \A y \in T : ~(<<y, x>> \in OpToRel(<, Nat))
  BY <1>1, WFMin, Zenon
<1>3. \A x, y \in Nat : <<y, x>> \in OpToRel(<, Nat) <=> y < x
  BY DEF OpToRel
<1> HIDE DEF R
<1>4. \E x \in T : \A y \in T : ~(<<y, x>> \in R)
  BY <1>2, Zenon DEF R
<1>5. \A x, y \in Nat : <<y, x>> \in R <=> y < x
  BY <1>3, Zenon DEF R
<1>6. PICK x \in T : \A y \in T : ~(<<y, x>> \in R)
  BY <1>4
<1>7. x \in Nat /\ \A y \in T : y \in Nat /\ ~(y < x)
  BY <1>5, <1>6
<1>8. \A y \in T : x <= y
  BY <1>7
<1> QED BY <1>8

(* What every step keeps holds at the end.                                 *)
LEMMA StepsKeep ==
  ASSUME NEW N \in Nat, NEW Good \in SUBSET (0..N), 0 \in Good,
         \A n \in 1..N : n - 1 \in Good => n \in Good
  PROVE  N \in Good
<1>1. SUFFICES ASSUME N \notin Good PROVE FALSE
  OBVIOUS
<1> DEFINE Bad == (0..N) \ Good
<1>2. PICK k \in Bad : \A j \in Bad : k <= j
  <2>1. Bad \subseteq Nat /\ N \in Bad
    BY <1>1
  <2> HIDE DEF Bad
  <2> QED BY <2>1, LeastNat
<1>3. k # 0 /\ k \in 1..N
  OBVIOUS
<1>4. k - 1 \in Good
  BY <1>2, <1>3
<1> QED BY <1>3, <1>4

-----------------------------------------------------------------------------
(* The space of a file: its bitmaps and its free list.                     *)

Distinct(s) == \A i, j \in 1..Len(s) : s[i] = s[j] => i = j
In(s, p) == \E i \in 1..Len(s) : s[i] = p

Space == [bits: [Page -> SUBSET Slot], list: Seq(Page)]

(* With n pages: the list holds each page that is not full, once; pages to *)
(* come are empty.                                                         *)
Sound(s, n) ==
  /\ Distinct(s.list)
  /\ \A p \in Page : In(s.list, p) <=> p <= n /\ Cardinality(s.bits[p]) # Slots
  /\ \A p \in Page : p > n => s.bits[p] = {}

(* The list L is what the headers say.                                     *)
Linked(L, head, next) ==
  /\ head = IF L = <<>> THEN RM_NO_PAGE ELSE L[1]
  /\ \A i \in 1..Len(L) : next[L[i]] = IF i = Len(L) THEN RM_NO_PAGE ELSE L[i + 1]

(* delete_record and insert_record on the space, and when the second keeps *)
(* the list right: a page it fills must be at the head.                    *)
Freed(s, rid) ==
  [bits |-> [s.bits EXCEPT ![rid[1]] = @ \ {rid[2]}],
   list |-> IF Cardinality(s.bits[rid[1]]) = Slots THEN <<rid[1]>> \o s.list ELSE s.list]

Filled(s, rid) ==
  [bits |-> [s.bits EXCEPT ![rid[1]] = @ \cup {rid[2]}],
   list |-> IF Cardinality(s.bits[rid[1]]) + 1 = Slots THEN Tail(s.list) ELSE s.list]

CanFree(s, rid) == rid[2] \in s.bits[rid[1]]

CanFill(s, rid, n) ==
  /\ rid[2] \notin s.bits[rid[1]] /\ rid[1] <= n
  /\ Cardinality(s.bits[rid[1]]) + 1 = Slots => s.list # <<>> /\ s.list[1] = rid[1]

(* A new page p comes to the end of the list.                              *)
Grown(s, p) == [bits |-> s.bits, list |-> Append(s.list, p)]

LEMMA Consts ==
  /\ Slots \in Nat /\ Slots >= 1 /\ MaxPages \in Nat /\ MaxPages >= 1 /\ RM_NO_PAGE \notin Page
  /\ Page \subseteq Nat /\ Page = 1..MaxPages
BY RmConstants DEF Page, RM_NO_PAGE

LEMMA Bits ==
  ASSUME NEW B \in SUBSET Slot
  PROVE  /\ IsFiniteSet(B) /\ Cardinality(B) \in 0..Slots
         /\ Cardinality(B) = Slots <=> B = Slot
         /\ \A x \in Slot : x \notin B => Cardinality(B \cup {x}) = Cardinality(B) + 1
         /\ \A x \in B : Cardinality(B \ {x}) = Cardinality(B) - 1
<1>1. IsFiniteSet(Slot) /\ Cardinality(Slot) = Slots
  <2>1. 0 \in Int /\ Slots - 1 \in Int /\ ~(0 > Slots - 1) /\ (Slots - 1) - 0 + 1 = Slots
    BY Consts
  <2> QED BY <2>1, FS_Interval DEF Slot
<1>2. IsFiniteSet(B) /\ Cardinality(B) <= Cardinality(Slot) /\ (Cardinality(Slot) = Cardinality(B) => Slot = B)
  BY <1>1, FS_Subset
<1>3. Cardinality(B) \in Nat
  BY <1>2, FS_CardinalityType
<1>4. Cardinality(B) \in 0..Slots
  BY <1>1, <1>2, <1>3, Consts
<1>5. \A x \in Slot : x \notin B => Cardinality(B \cup {x}) = Cardinality(B) + 1
  BY <1>2, FS_AddElement
<1>6. \A x \in B : Cardinality(B \ {x}) = Cardinality(B) - 1
  BY <1>2, FS_RemoveElement
<1> QED BY <1>1, <1>2, <1>4, <1>5, <1>6

LEMMA Pushed ==
  ASSUME NEW L \in Seq(Page), NEW p \in Page
  PROVE  /\ <<p>> \o L \in Seq(Page) /\ Len(<<p>> \o L) = Len(L) + 1
         /\ (<<p>> \o L)[1] = p /\ Tail(<<p>> \o L) = L /\ <<p>> \o L # <<>>
         /\ \A i \in 1..Len(L) : (<<p>> \o L)[i + 1] = L[i]
         /\ \A q : In(<<p>> \o L, q) <=> q = p \/ In(L, q)
         /\ Distinct(L) /\ ~In(L, p) => Distinct(<<p>> \o L)
<1>1. PICK K : K = <<p>> \o L
  OBVIOUS
<1>2. K \in Seq(Page) /\ Len(K) = Len(L) + 1 /\ K[1] = p /\ Tail(K) = L /\ K # <<>> /\ Len(L) \in Nat
  BY <1>1
<1>3. \A i \in 1..Len(L) : K[i + 1] = L[i]
  BY <1>1
<1>4. \A i \in 1..Len(K) : i = 1 \/ (i - 1 \in 1..Len(L) /\ K[i] = L[i - 1])
  BY <1>2, <1>3
<1>5. ASSUME NEW q PROVE In(K, q) <=> q = p \/ In(L, q)
  <2>1. In(K, q) => q = p \/ In(L, q)
    BY <1>2, <1>4 DEF In
  <2>2. 1 \in 1..Len(K) /\ \A i \in 1..Len(L) : i + 1 \in 1..Len(K)
    BY <1>2
  <2>3. q = p \/ In(L, q) => In(K, q)
    BY <1>2, <1>3, <2>2 DEF In
  <2> QED BY <2>1, <2>3
<1>6. ASSUME Distinct(L), ~In(L, p) PROVE Distinct(K)
  <2> SUFFICES ASSUME NEW i \in 1..Len(K), NEW j \in 1..Len(K), K[i] = K[j] PROVE i = j
    BY DEF Distinct
  <2> QED BY <1>2, <1>4, <1>6 DEF Distinct, In
<1> QED BY <1>1, <1>2, <1>3, <1>5, <1>6

LEMMA Popped ==
  ASSUME NEW L \in Seq(Page), L # <<>>, Distinct(L)
  PROVE  /\ Tail(L) \in Seq(Page) /\ Len(Tail(L)) = Len(L) - 1 /\ L[1] \in Page
         /\ <<L[1]>> \o Tail(L) = L
         /\ \A i \in 1..Len(Tail(L)) : Tail(L)[i] = L[i + 1]
         /\ \A q : In(Tail(L), q) <=> In(L, q) /\ q # L[1]
         /\ Distinct(Tail(L)) /\ In(L, L[1])
<1>1. PICK K : K = Tail(L)
  OBVIOUS
<1>2. K \in Seq(Page) /\ Len(K) = Len(L) - 1 /\ L[1] \in Page /\ Len(L) \in Nat /\ Len(L) >= 1
  BY <1>1
<1>3. \A i \in 1..Len(K) : K[i] = L[i + 1]
  BY <1>1
<1>4. <<L[1]>> \o K = L
  BY <1>1, <1>2
<1>5. \A q : In(K, q) <=> In(L, q) /\ q # L[1]
  <2>1. \A i \in 1..Len(K) : i + 1 \in 1..Len(L) /\ i + 1 # 1
    BY <1>2
  <2>2. 1 \in 1..Len(L) /\ \A i \in 1..Len(L) : i # 1 => i - 1 \in 1..Len(K) /\ K[i - 1] = L[i]
    BY <1>2, <1>3
  <2>3. ASSUME NEW q, In(K, q) PROVE In(L, q) /\ q # L[1]
    <3>1. PICK i \in 1..Len(K) : K[i] = q
      BY <2>3 DEF In
    <3>2. i + 1 \in 1..Len(L) /\ i + 1 # 1 /\ L[i + 1] = q
      BY <1>3, <2>1, <3>1
    <3> QED BY <2>2, <3>2 DEF In, Distinct
  <2>4. ASSUME NEW q, In(L, q), q # L[1] PROVE In(K, q)
    <3>1. PICK i \in 1..Len(L) : L[i] = q
      BY <2>4 DEF In
    <3> QED BY <2>2, <2>4, <3>1 DEF In
  <2> QED BY <2>3, <2>4
<1>6. Distinct(K)
  <2> SUFFICES ASSUME NEW i \in 1..Len(K), NEW j \in 1..Len(K), K[i] = K[j] PROVE i = j
    BY DEF Distinct
  <2>1. i + 1 \in 1..Len(L) /\ j + 1 \in 1..Len(L) /\ L[i + 1] = L[j + 1]
    BY <1>2, <1>3
  <2>2. i + 1 = j + 1
    BY <2>1 DEF Distinct
  <2> QED BY <2>2, <1>2
<1>7. In(L, L[1])
  BY <1>2 DEF In
<1> QED BY <1>1, <1>2, <1>3, <1>4, <1>5, <1>6, <1>7

LEMMA Appended ==
  ASSUME NEW L \in Seq(Page), NEW p \in Page
  PROVE  /\ Append(L, p) \in Seq(Page) /\ Append(L, p) # <<>>
         /\ \A q : In(Append(L, p), q) <=> q = p \/ In(L, q)
         /\ Distinct(L) /\ ~In(L, p) => Distinct(Append(L, p))
         /\ L # <<>> => Append(L, p)[1] = L[1] /\ Tail(Append(L, p)) = Append(Tail(L), p)
         /\ \A q \in Page : <<q>> \o Append(L, p) = Append(<<q>> \o L, p)
<1>1. PICK K : K = Append(L, p)
  OBVIOUS
<1>2. K \in Seq(Page) /\ Len(K) = Len(L) + 1 /\ Len(L) \in Nat /\ K[Len(L) + 1] = p
  BY <1>1
<1>3. \A i \in 1..Len(L) : K[i] = L[i]
  BY <1>1
<1>4. \A i \in 1..Len(K) : i = Len(L) + 1 \/ i \in 1..Len(L)
  BY <1>2
<1>5. \A q : In(K, q) <=> q = p \/ In(L, q)
  <2>1. Len(L) + 1 \in 1..Len(K) /\ \A i \in 1..Len(L) : i \in 1..Len(K)
    BY <1>2
  <2> QED BY <1>2, <1>3, <1>4, <2>1 DEF In
<1>6. ASSUME Distinct(L), ~In(L, p) PROVE Distinct(K)
  BY <1>2, <1>3, <1>4, <1>6 DEF Distinct, In
<1>7. L # <<>> => K[1] = L[1] /\ Tail(K) = Append(Tail(L), p)
  BY <1>1
<1>8. \A q \in Page : <<q>> \o K = Append(<<q>> \o L, p)
  BY <1>1
<1>9. K # <<>>
  BY <1>2
<1> QED BY <1>1, <1>2, <1>5, <1>6, <1>7, <1>8, <1>9

(* Freeing a slot and filling it again are inverse, and keep space sound.  *)
LEMMA FreedSound ==
  ASSUME NEW s \in Space, NEW n \in 0..MaxPages, Sound(s, n), NEW rid \in Rid, CanFree(s, rid)
  PROVE  /\ Freed(s, rid) \in Space /\ Sound(Freed(s, rid), n)
         /\ CanFill(Freed(s, rid), rid, n) /\ Filled(Freed(s, rid), rid) = s
<1>1. PICK p \in Page, x \in Slot : rid = <<p, x>> /\ rid[1] = p /\ rid[2] = x
  BY DEF Rid
<1>2. PICK B \in [Page -> SUBSET Slot], L \in Seq(Page) : s = [bits |-> B, list |-> L]
  BY DEF Space
<1>3. s.bits = B /\ s.list = L
  BY <1>2
<1>4. PICK C : C = [B EXCEPT ![p] = @ \ {x}]
  OBVIOUS
<1>5. PICK K : K = IF Cardinality(B[p]) = Slots THEN <<p>> \o L ELSE L
  OBVIOUS
<1>6. Freed(s, rid) = [bits |-> C, list |-> K]
  BY <1>1, <1>3, <1>4, <1>5 DEF Freed
<1>7. x \in B[p] /\ B[p] # {} /\ B[p] \in SUBSET Slot
  BY <1>1, <1>3 DEF CanFree
<1>8. /\ Cardinality(B[p]) \in 0..Slots /\ Cardinality(B[p] \ {x}) = Cardinality(B[p]) - 1
  BY <1>7, Bits
<1>9. /\ C \in [Page -> SUBSET Slot] /\ C[p] = B[p] \ {x} /\ \A q \in Page : q # p => C[q] = B[q]
  BY <1>4
<1>10. /\ Distinct(L) /\ \A q \in Page : In(L, q) <=> q <= n /\ Cardinality(B[q]) # Slots
       /\ \A q \in Page : q > n => B[q] = {}
  BY <1>3 DEF Sound
<1>11. p <= n /\ n \in Nat /\ p \in Nat /\ Slots \in Nat
  BY <1>7, <1>10, Consts
<1>12. Cardinality(C[p]) # Slots /\ Cardinality(C[p]) + 1 = Cardinality(B[p])
  <2>1. PICK k \in 0..Slots : k = Cardinality(B[p])
    BY <1>8
  <2>2. Cardinality(C[p]) = k - 1
    BY <1>8, <1>9, <2>1
  <2>3. k - 1 # Slots /\ (k - 1) + 1 = k
    BY Consts
  <2> QED BY <2>1, <2>2, <2>3
<1>13. K \in Seq(Page) /\ Distinct(K) /\ \A q \in Page : In(K, q) <=> q = p \/ In(L, q)
  <2>1. CASE Cardinality(B[p]) = Slots
    BY <1>5, <1>10, <2>1, Pushed
  <2>2. CASE Cardinality(B[p]) # Slots
    BY <1>5, <1>10, <1>11, <2>2
  <2> QED BY <2>1, <2>2
<1>14. Sound(Freed(s, rid), n)
  <2>1. \A q \in Page : In(K, q) <=> q <= n /\ Cardinality(C[q]) # Slots
    BY <1>9, <1>10, <1>11, <1>12, <1>13
  <2>2. \A q \in Page : q > n => C[q] = {}
    BY <1>9, <1>10, <1>11
  <2> QED BY <1>6, <1>13, <2>1, <2>2 DEF Sound
<1>15. CanFill(Freed(s, rid), rid, n)
  <2>1. Cardinality(C[p]) + 1 = Slots => K # <<>> /\ K[1] = p
    BY <1>5, <1>12, Pushed
  <2>2. x \notin C[p]
    BY <1>9
  <2>3. PICK f : f = Freed(s, rid) /\ f.bits = C /\ f.list = K
    BY <1>6
  <2>4. CanFill(f, rid, n)
    BY <1>1, <1>11, <2>1, <2>2, <2>3 DEF CanFill
  <2> QED BY <2>3, <2>4
<1>16. Filled(Freed(s, rid), rid) = s
  <2>1. [C EXCEPT ![p] = @ \cup {x}] = B
    BY <1>4, <1>7
  <2>2. (IF Cardinality(C[p]) + 1 = Slots THEN Tail(K) ELSE K) = L
    BY <1>5, <1>12, Pushed
  <2>3. PICK f : f = Freed(s, rid) /\ f.bits = C /\ f.list = K
    BY <1>6
  <2>4. Filled(f, rid) = [bits |-> B, list |-> L]
    BY <1>1, <2>1, <2>2, <2>3 DEF Filled
  <2> QED BY <1>2, <2>3, <2>4
<1> QED BY <1>6, <1>9, <1>13, <1>14, <1>15, <1>16 DEF Space

LEMMA FilledSound ==
  ASSUME NEW s \in Space, NEW n \in 0..MaxPages, Sound(s, n), NEW rid \in Rid, CanFill(s, rid, n)
  PROVE  /\ Filled(s, rid) \in Space /\ Sound(Filled(s, rid), n)
         /\ CanFree(Filled(s, rid), rid) /\ Freed(Filled(s, rid), rid) = s
<1>1. PICK p \in Page, x \in Slot : rid = <<p, x>> /\ rid[1] = p /\ rid[2] = x
  BY DEF Rid
<1>2. PICK B \in [Page -> SUBSET Slot], L \in Seq(Page) : s = [bits |-> B, list |-> L]
  BY DEF Space
<1>3. s.bits = B /\ s.list = L
  BY <1>2
<1>4. PICK C : C = [B EXCEPT ![p] = @ \cup {x}]
  OBVIOUS
<1>5. PICK K : K = IF Cardinality(B[p]) + 1 = Slots THEN Tail(L) ELSE L
  OBVIOUS
<1>6. Filled(s, rid) = [bits |-> C, list |-> K]
  BY <1>1, <1>3, <1>4, <1>5 DEF Filled
<1>7. /\ x \notin B[p] /\ p <= n /\ B[p] \in SUBSET Slot
      /\ Cardinality(B[p]) + 1 = Slots => L # <<>> /\ L[1] = p
  BY <1>1, <1>3 DEF CanFill
<1>8. /\ Cardinality(B[p]) \in 0..Slots /\ Cardinality(B[p] \cup {x}) = Cardinality(B[p]) + 1
      /\ B[p] \cup {x} \in SUBSET Slot /\ Cardinality(B[p] \cup {x}) \in 0..Slots
  <2>1. B[p] \cup {x} \in SUBSET Slot
    BY <1>7
  <2> QED BY <1>7, <2>1, Bits
<1>9. /\ C \in [Page -> SUBSET Slot] /\ C[p] = B[p] \cup {x} /\ \A q \in Page : q # p => C[q] = B[q]
  BY <1>4
<1>10. /\ Distinct(L) /\ \A q \in Page : In(L, q) <=> q <= n /\ Cardinality(B[q]) # Slots
       /\ \A q \in Page : q > n => B[q] = {}
  BY <1>3 DEF Sound
<1>11. n \in Nat /\ p \in Nat /\ Slots \in Nat
  BY Consts
<1>12. Cardinality(B[p]) # Slots /\ Cardinality(C[p]) = Cardinality(B[p]) + 1
  BY <1>8, <1>9, <1>11
<1>13. /\ K \in Seq(Page) /\ Distinct(K)
       /\ \A q \in Page : In(K, q) <=> In(L, q) /\ (Cardinality(C[p]) = Slots => q # p)
  <2>1. CASE Cardinality(B[p]) + 1 = Slots
    <3>1. L # <<>> /\ L[1] = p /\ K = Tail(L)
      BY <1>5, <1>7, <2>1
    <3>2. K \in Seq(Page) /\ Distinct(K) /\ \A q : In(K, q) <=> In(L, q) /\ q # p
      BY <1>10, <3>1, Popped
    <3> QED BY <1>12, <2>1, <3>2
  <2>2. CASE Cardinality(B[p]) + 1 # Slots
    BY <1>5, <1>10, <1>12, <2>2
  <2> QED BY <2>1, <2>2
<1>14. Sound(Filled(s, rid), n)
  <2>1. \A q \in Page : In(K, q) <=> q <= n /\ Cardinality(C[q]) # Slots
    BY <1>7, <1>9, <1>10, <1>12, <1>13
  <2>2. \A q \in Page : q > n => C[q] = {}
    BY <1>7, <1>9, <1>10, <1>11
  <2> QED BY <1>6, <1>13, <2>1, <2>2 DEF Sound
<1>15. CanFree(Filled(s, rid), rid)
  BY <1>1, <1>6, <1>9 DEF CanFree
<1>16. Freed(Filled(s, rid), rid) = s
  <2>1. [C EXCEPT ![p] = @ \ {x}] = B
    BY <1>4, <1>7
  <2>2. (IF Cardinality(C[p]) = Slots THEN <<p>> \o K ELSE K) = L
    BY <1>5, <1>7, <1>10, <1>12, Popped
  <2>3. PICK f : f = Filled(s, rid) /\ f.bits = C /\ f.list = K
    BY <1>6
  <2>4. Freed(f, rid) = [bits |-> B, list |-> L]
    BY <1>1, <2>1, <2>2, <2>3 DEF Freed
  <2> QED BY <1>2, <2>3, <2>4
<1> QED BY <1>6, <1>9, <1>13, <1>14, <1>15, <1>16 DEF Space

(* A new page at the end of the list stays there whatever is undone.       *)
LEMMA GrownSound ==
  ASSUME NEW s \in Space, NEW n \in 0..MaxPages, Sound(s, n), n + 1 \in Page
  PROVE  /\ Grown(s, n + 1) \in Space /\ Sound(Grown(s, n + 1), n + 1)
         /\ \A rid \in Rid : CanFree(s, rid) =>
              CanFree(Grown(s, n + 1), rid) /\ Freed(Grown(s, n + 1), rid) = Grown(Freed(s, rid), n + 1)
         /\ \A rid \in Rid : CanFill(s, rid, n) =>
              CanFill(Grown(s, n + 1), rid, n + 1) /\ Filled(Grown(s, n + 1), rid) = Grown(Filled(s, rid), n + 1)
<1>1. PICK p \in Page : p = n + 1
  OBVIOUS
<1>2. PICK B \in [Page -> SUBSET Slot], L \in Seq(Page) : s = [bits |-> B, list |-> L]
  BY DEF Space
<1>3. PICK K : K = Append(L, p)
  OBVIOUS
<1>4. Grown(s, p) = [bits |-> B, list |-> K]
  BY <1>2, <1>3 DEF Grown
<1>5. /\ Distinct(L) /\ \A q \in Page : In(L, q) <=> q <= n /\ Cardinality(B[q]) # Slots
      /\ \A q \in Page : q > n => B[q] = {}
  BY <1>2 DEF Sound
<1>6. n \in Nat /\ Slots \in Nat /\ Slots # 0 /\ Page \subseteq Nat
  BY Consts
<1>7. B[p] = {} /\ Cardinality(B[p]) # Slots
  <2>1. p > n
    BY <1>1, <1>6
  <2>2. B[p] = {}
    BY <1>5, <2>1
  <2> QED BY <1>6, <2>2, FS_EmptySet
<1>8. K \in Seq(Page) /\ Distinct(K) /\ \A q : In(K, q) <=> q = p \/ In(L, q)
  <2>1. ~In(L, p)
    BY <1>1, <1>5, <1>6
  <2> QED BY <1>3, <1>5, <2>1, Appended
<1>9. Sound(Grown(s, p), n + 1)
  <2>1. \A q \in Page : q <= n + 1 <=> q = p \/ q <= n
    BY <1>1, <1>6
  <2>2. \A q \in Page : In(K, q) <=> q <= n + 1 /\ Cardinality(B[q]) # Slots
    BY <1>5, <1>7, <1>8, <2>1
  <2>3. \A q \in Page : q > n + 1 => B[q] = {}
    BY <1>5, <1>6
  <2> QED BY <1>4, <1>8, <2>2, <2>3 DEF Sound
<1>10. ASSUME NEW rid \in Rid, CanFree(s, rid)
       PROVE  CanFree(Grown(s, p), rid) /\ Freed(Grown(s, p), rid) = Grown(Freed(s, rid), p)
  <2>1. rid[1] \in Page
    BY DEF Rid
  <2>2. <<rid[1]>> \o K = Append(<<rid[1]>> \o L, p)
    BY <1>3, <2>1, Appended
  <2> QED BY <1>2, <1>3, <1>4, <1>10, <2>2 DEF CanFree, Freed, Grown
<1>11. ASSUME NEW rid \in Rid, CanFill(s, rid, n)
       PROVE  CanFill(Grown(s, p), rid, n + 1) /\ Filled(Grown(s, p), rid) = Grown(Filled(s, rid), p)
  <2>0. rid[1] \in Page
    BY DEF Rid
  <2>1. rid[1] \in Page /\ (rid[1] <= n => rid[1] <= n + 1)
    <3>1. PICK k \in Nat : k = rid[1]
      BY <1>6, <2>0
    <3>2. k <= n => k <= n + 1
      BY <1>6
    <3> QED BY <2>0, <3>1, <3>2
  <2>2. L # <<>> => K # <<>> /\ K[1] = L[1] /\ Tail(K) = Append(Tail(L), p)
    BY <1>3, Appended
  <2> QED BY <1>2, <1>3, <1>4, <1>11, <2>1, <2>2 DEF CanFill, Filled, Grown
<1> QED BY <1>1, <1>4, <1>8, <1>9, <1>10, <1>11 DEF Space

-----------------------------------------------------------------------------
(* The headers.                                                            *)

LEMMA LinkPush ==
  ASSUME NEW L \in Seq(Page), NEW h, NEW nx \in [Page -> Page \cup {RM_NO_PAGE}], Linked(L, h, nx),
         NEW p \in Page, ~In(L, p)
  PROVE  Linked(<<p>> \o L, p, [nx EXCEPT ![p] = h])
<1>1. PICK K \in Seq(Page) : K = <<p>> \o L
  BY Pushed
<1>2. Len(K) = Len(L) + 1 /\ K[1] = p /\ K # <<>> /\ \A i \in 1..Len(L) : K[i + 1] = L[i]
  BY <1>1, Pushed
<1>3. PICK my : my = [nx EXCEPT ![p] = h]
  OBVIOUS
<1>4. ASSUME NEW i \in 1..Len(K) PROVE my[K[i]] = IF i = Len(K) THEN RM_NO_PAGE ELSE K[i + 1]
  <2>0. Len(L) \in Nat
    OBVIOUS
  <2>1. CASE i = 1
    <3>1. my[K[i]] = h
      BY <1>2, <1>3, <2>1
    <3>2. CASE L = <<>>
      BY <1>2, <2>1, <3>1, <3>2 DEF Linked
    <3>3. CASE L # <<>>
      <4>1. 1 \in 1..Len(L) /\ 1 # Len(K)
        BY <1>2, <2>0, <3>3
      <4>2. K[1 + 1] = L[1]
        BY <1>2, <4>1
      <4> QED BY <2>1, <3>1, <3>3, <4>1, <4>2 DEF Linked
    <3> QED BY <3>2, <3>3
  <2>2. CASE i # 1
    <3>1. PICK j \in 1..Len(L) : i = j + 1
      <4>1. i - 1 \in 1..Len(L) /\ i = (i - 1) + 1
        BY <1>2, <2>0, <2>2
      <4> QED BY <4>1
    <3>2. K[i] = L[j] /\ L[j] # p /\ L[j] \in Page
      BY <1>2, <3>1 DEF In
    <3>3. my[K[i]] = nx[L[j]]
      BY <1>3, <3>2
    <3>4. (i = Len(K) <=> j = Len(L)) /\ (j # Len(L) => j + 1 \in 1..Len(L))
      BY <1>2, <2>0, <3>1
    <3>5. j # Len(L) => K[i + 1] = L[j + 1]
      BY <1>2, <3>1, <3>4
    <3> QED BY <3>3, <3>4, <3>5 DEF Linked
  <2> QED BY <2>1, <2>2
<1> QED BY <1>1, <1>2, <1>3, <1>4 DEF Linked

LEMMA LinkPop ==
  ASSUME NEW L \in Seq(Page), NEW h, NEW nx, Linked(L, h, nx), L # <<>>, Distinct(L)
  PROVE  Linked(Tail(L), nx[L[1]], nx)
<1>1. PICK K \in Seq(Page) : K = Tail(L)
  BY Popped
<1>2. Len(K) = Len(L) - 1 /\ Len(L) \in Nat /\ Len(L) >= 1 /\ \A i \in 1..Len(K) : K[i] = L[i + 1]
  BY <1>1, Popped
<1>3. nx[L[1]] = IF K = <<>> THEN RM_NO_PAGE ELSE K[1]
  <2>1. CASE K = <<>>
    BY <1>2, <2>1 DEF Linked
  <2>2. CASE K # <<>>
    <3>1. Len(K) >= 1 /\ 1 \in 1..Len(K) /\ 1 \in 1..Len(L) /\ 1 # Len(L)
      BY <1>2, <2>2
    <3>2. K[1] = L[1 + 1] /\ nx[L[1]] = L[1 + 1]
      BY <1>2, <3>1 DEF Linked
    <3> QED BY <2>2, <3>2
  <2> QED BY <2>1, <2>2
<1>4. ASSUME NEW i \in 1..Len(K) PROVE nx[K[i]] = IF i = Len(K) THEN RM_NO_PAGE ELSE K[i + 1]
  <2>1. i + 1 \in 1..Len(L) /\ (i + 1 = Len(L) <=> i = Len(K)) /\ (i # Len(K) => i + 1 \in 1..Len(K))
    BY <1>2
  <2>2. K[i] = L[i + 1] /\ (i # Len(K) => K[i + 1] = L[(i + 1) + 1])
    BY <1>2, <2>1
  <2> QED BY <2>1, <2>2 DEF Linked
<1> QED BY <1>1, <1>3, <1>4 DEF Linked

HdrTypes ==
  /\ bitmap \in [Page -> SUBSET Slot] /\ num_records \in [Page -> Int]
  /\ next_free \in [Page -> Link] /\ first_free \in Link /\ num_pages \in Nat

(* What a call does that has not raced.                                    *)
Deletes(rid) ==
  LET p == rid[1]
      release == num_records[p] = Slots /\ rid[2] \in bitmap[p]
  IN  /\ bitmap' = [bitmap EXCEPT ![p] = @ \ {rid[2]}]
      /\ num_records' = [num_records EXCEPT ![p] = IF rid[2] \in bitmap[p] THEN @ - 1 ELSE @]
      /\ next_free' = IF release THEN [next_free EXCEPT ![p] = first_free] ELSE next_free
      /\ first_free' = IF release THEN p ELSE first_free
      /\ num_pages' = num_pages

Inserts(rid) ==
  LET p == rid[1]
  IN  /\ bitmap' = [bitmap EXCEPT ![p] = @ \cup {rid[2]}]
      /\ num_records' = [num_records EXCEPT ![p] = IF rid[2] \in bitmap[p] THEN @ ELSE @ + 1]
      /\ next_free' = next_free
      /\ first_free' = IF num_records'[p] = Slots THEN next_free[p] ELSE first_free
      /\ num_pages' = num_pages

InsertsNew(rid) ==
  LET p == rid[1]
  IN  /\ first_free = RM_NO_PAGE /\ p = num_pages + 1
      /\ bitmap' = [bitmap EXCEPT ![p] = {rid[2]}]
      /\ num_records' = [num_records EXCEPT ![p] = 1]
      /\ next_free' = [next_free EXCEPT ![p] = RM_NO_PAGE]
      /\ first_free' = IF Slots = 1 THEN RM_NO_PAGE ELSE p
      /\ num_pages' = num_pages + 1

LEMMA DeleteCounts ==
  ASSUME HdrTypes, CountExact, NEW rid \in Rid, Deletes(rid)
  PROVE  CountExact'
<1>1. PICK p \in Page, x \in Slot : rid[1] = p /\ rid[2] = x
  BY DEF Rid
<1>2. /\ bitmap' = [bitmap EXCEPT ![p] = @ \ {x}]
      /\ num_records' = [num_records EXCEPT ![p] = IF x \in bitmap[p] THEN @ - 1 ELSE @]
  BY <1>1 DEF Deletes
<1>3. ASSUME NEW q \in Page PROVE num_records'[q] = Cardinality(bitmap'[q])
  <2>1. num_records[q] = Cardinality(bitmap[q]) /\ bitmap[q] \in SUBSET Slot
    BY DEF CountExact, HdrTypes
  <2>2. CASE q = p /\ x \in bitmap[p]
    <3>1. bitmap'[q] = bitmap[q] \ {x} /\ num_records'[q] = num_records[q] - 1
      BY <1>2, <2>2 DEF HdrTypes
    <3> QED BY <2>1, <2>2, <3>1, Bits
  <2>3. CASE ~(q = p /\ x \in bitmap[p])
    <3>1. bitmap'[q] = bitmap[q] /\ num_records'[q] = num_records[q]
      BY <1>2, <2>3 DEF HdrTypes
    <3> QED BY <2>1, <3>1
  <2> QED BY <2>2, <2>3
<1> QED BY <1>3 DEF CountExact

LEMMA InsertCounts ==
  ASSUME HdrTypes, CountExact, NEW rid \in Rid, Inserts(rid)
  PROVE  CountExact'
<1>1. PICK p \in Page, x \in Slot : rid[1] = p /\ rid[2] = x
  BY DEF Rid
<1>2. /\ bitmap' = [bitmap EXCEPT ![p] = @ \cup {x}]
      /\ num_records' = [num_records EXCEPT ![p] = IF x \in bitmap[p] THEN @ ELSE @ + 1]
  BY <1>1 DEF Inserts
<1>3. ASSUME NEW q \in Page PROVE num_records'[q] = Cardinality(bitmap'[q])
  <2>1. num_records[q] = Cardinality(bitmap[q]) /\ bitmap[q] \in SUBSET Slot
    BY DEF CountExact, HdrTypes
  <2>2. CASE q = p /\ x \notin bitmap[p]
    <3>1. bitmap'[q] = bitmap[q] \cup {x} /\ num_records'[q] = num_records[q] + 1
      BY <1>2, <2>2 DEF HdrTypes
    <3> QED BY <2>1, <2>2, <3>1, Bits
  <2>3. CASE ~(q = p /\ x \notin bitmap[p])
    <3>1. bitmap'[q] = bitmap[q] /\ num_records'[q] = num_records[q]
      BY <1>2, <2>3 DEF HdrTypes
    <3> QED BY <2>1, <3>1
  <2> QED BY <2>2, <2>3
<1> QED BY <1>3 DEF CountExact

LEMMA NewPageCounts ==
  ASSUME HdrTypes, CountExact, NEW rid \in Rid, InsertsNew(rid)
  PROVE  CountExact'
<1>1. PICK p \in Page, x \in Slot : rid[1] = p /\ rid[2] = x
  BY DEF Rid
<1>2. bitmap' = [bitmap EXCEPT ![p] = {x}] /\ num_records' = [num_records EXCEPT ![p] = 1]
  BY <1>1 DEF InsertsNew
<1>3. Cardinality({x}) = 1
  BY FS_Singleton
<1> QED BY <1>2, <1>3 DEF CountExact, HdrTypes

Now(b, L) == [bits |-> b, list |-> L]

(* The three changes of the headers are Freed, Filled, and Grown followed  *)
(* by Filled.                                                              *)
LEMMA DeleteSpace ==
  ASSUME HdrTypes, CountExact, NEW L \in Seq(Page), Linked(L, first_free, next_free),
         Sound(Now(bitmap, L), num_pages), NEW rid \in Rid, rid[2] \in bitmap[rid[1]], Deletes(rid)
  PROVE  \E K : Freed(Now(bitmap, L), rid) = Now(bitmap', K) /\ Linked(K, first_free', next_free')
<1>1. PICK p \in Page : p = rid[1]
  BY DEF Rid
<1>2. num_records[p] = Cardinality(bitmap[p])
  BY DEF CountExact
<1>3. bitmap' = [bitmap EXCEPT ![p] = @ \ {rid[2]}]
  BY <1>1 DEF Deletes
<1>4. CASE Cardinality(bitmap[p]) = Slots
  <2>1. next_free' = [next_free EXCEPT ![p] = first_free] /\ first_free' = p
    BY <1>1, <1>2, <1>4 DEF Deletes
  <2>2. ~In(L, p)
    BY <1>4 DEF Sound, Now
  <2>3. Linked(<<p>> \o L, first_free', next_free')
    BY <2>1, <2>2, LinkPush DEF HdrTypes, Link
  <2>4. Freed(Now(bitmap, L), rid) = Now(bitmap', <<p>> \o L)
    BY <1>1, <1>3, <1>4 DEF Freed, Now
  <2> QED BY <2>3, <2>4
<1>5. CASE Cardinality(bitmap[p]) # Slots
  <2>1. next_free' = next_free /\ first_free' = first_free
    BY <1>1, <1>2, <1>5 DEF Deletes
  <2>2. Freed(Now(bitmap, L), rid) = Now(bitmap', L)
    BY <1>1, <1>3, <1>5 DEF Freed, Now
  <2> QED BY <2>1, <2>2
<1> QED BY <1>4, <1>5

LEMMA InsertSpace ==
  ASSUME HdrTypes, CountExact, NEW L \in Seq(Page), Linked(L, first_free, next_free),
         Sound(Now(bitmap, L), num_pages), NEW rid \in Rid, CanFill(Now(bitmap, L), rid, num_pages),
         Inserts(rid)
  PROVE  \E K : Filled(Now(bitmap, L), rid) = Now(bitmap', K) /\ Linked(K, first_free', next_free')
<1>1. PICK p \in Page : p = rid[1]
  BY DEF Rid
<1>2. num_records[p] = Cardinality(bitmap[p])
  BY DEF CountExact
<1>3. /\ rid[2] \notin bitmap[p] /\ p <= num_pages
      /\ Cardinality(bitmap[p]) + 1 = Slots => L # <<>> /\ L[1] = p
  BY <1>1 DEF CanFill, Now
<1>4. bitmap' = [bitmap EXCEPT ![p] = @ \cup {rid[2]}] /\ num_records'[p] = Cardinality(bitmap[p]) + 1
  BY <1>1, <1>2, <1>3 DEF Inserts, HdrTypes
<1>6. first_free' = (IF Cardinality(bitmap[p]) + 1 = Slots THEN next_free[p] ELSE first_free) /\ next_free' = next_free
  BY <1>1, <1>4 DEF Inserts
<1>7. CASE Cardinality(bitmap[p]) + 1 = Slots
  <2>1. Linked(Tail(L), first_free', next_free')
    BY <1>3, <1>6, <1>7, LinkPop DEF Sound, Now
  <2>2. Filled(Now(bitmap, L), rid) = Now(bitmap', Tail(L))
    BY <1>1, <1>4, <1>7 DEF Filled, Now
  <2> QED BY <2>1, <2>2
<1>8. CASE Cardinality(bitmap[p]) + 1 # Slots
  <2>1. Filled(Now(bitmap, L), rid) = Now(bitmap', L)
    BY <1>1, <1>4, <1>8 DEF Filled, Now
  <2> QED BY <1>6, <1>8, <2>1
<1> QED BY <1>7, <1>8

LEMMA NewPageSpace ==
  ASSUME HdrTypes, CountExact, NEW L \in Seq(Page), Linked(L, first_free, next_free),
         Sound(Now(bitmap, L), num_pages), NEW rid \in Rid, InsertsNew(rid)
  PROVE  /\ num_pages + 1 \in Page
         /\ CanFill(Grown(Now(bitmap, L), num_pages + 1), rid, num_pages + 1)
         /\ \E K : /\ Filled(Grown(Now(bitmap, L), num_pages + 1), rid) = Now(bitmap', K)
                   /\ Linked(K, first_free', next_free')
<1>1. PICK p \in Page, x \in Slot : rid[1] = p /\ rid[2] = x
  BY DEF Rid
<1>2. p = num_pages + 1 /\ p > num_pages /\ p <= p /\ num_pages \in Nat
  BY <1>1, Consts DEF HdrTypes, InsertsNew
<1>6. L = <<>>
  BY Consts DEF Linked, InsertsNew
<1>7. bitmap[p] = {} /\ Cardinality(bitmap[p]) = 0
  <2>1. bitmap[p] = {}
    BY <1>2 DEF Sound, Now
  <2> QED BY <2>1, FS_EmptySet
<1>8. /\ bitmap' = [bitmap EXCEPT ![p] = @ \cup {x}]
      /\ first_free' = IF 1 = Slots THEN RM_NO_PAGE ELSE p
  <2>1. bitmap[p] \cup {x} = {x}
    BY <1>7
  <2> QED BY <1>1, <2>1 DEF InsertsNew
<1>9. PICK s : s = Grown(Now(bitmap, L), p) /\ s.bits = bitmap /\ s.list = <<p>>
  <2>1. Append(L, p) = <<p>>
    BY <1>6
  <2>2. Grown(Now(bitmap, L), p) = [bits |-> bitmap, list |-> <<p>>]
    BY <2>1 DEF Grown, Now
  <2> QED BY <2>2
<1>10. CanFill(s, rid, p)
  BY <1>1, <1>2, <1>7, <1>9 DEF CanFill
<1>11. \E K : Filled(s, rid) = Now(bitmap', K) /\ Linked(K, first_free', next_free')
  <2>1. Cardinality(bitmap[p]) + 1 = 1
    BY <1>7
  <2>2. next_free'[p] = RM_NO_PAGE
    BY <1>1 DEF HdrTypes, InsertsNew
  <2>3. CASE Slots = 1
    <3>0. Tail(<<p>>) = <<>>
      OBVIOUS
    <3>1. Filled(s, rid) = Now(bitmap', <<>>)
      BY <1>1, <1>8, <1>9, <2>1, <2>3, <3>0 DEF Filled, Now
    <3>2. Linked(<<>>, first_free', next_free')
      BY <1>8, <2>3 DEF Linked
    <3> QED BY <3>1, <3>2
  <2>4. CASE Slots # 1
    <3>1. Filled(s, rid) = Now(bitmap', <<p>>)
      BY <1>1, <1>8, <1>9, <2>1, <2>4 DEF Filled, Now
    <3>2. Linked(<<p>>, first_free', next_free')
      BY <1>8, <2>2, <2>4 DEF Linked
    <3> QED BY <3>1, <3>2
  <2> QED BY <2>3, <2>4
<1> QED BY <1>1, <1>2, <1>9, <1>10, <1>11

-----------------------------------------------------------------------------
(* What a rollback goes through.                                           *)

Before(wr, s) == IF wr.type = "INSERT" THEN Freed(s, wr.rid) ELSE Filled(s, wr.rid)
CanUndo(wr, s, n) == IF wr.type = "INSERT" THEN CanFree(s, wr.rid) ELSE CanFill(s, wr.rid, n)

(* Undoing the write set w from the back leads from s through the states   *)
(* h[Len(w)] = s, ..., h[0], all of them sound.                            *)
Past(h, w, s, n) ==
  /\ h \in [0..Len(w) -> Space] /\ h[Len(w)] = s
  /\ \A i \in 0..Len(w) : Sound(h[i], n)
  /\ \A i \in 1..Len(w) : CanUndo(w[i], h[i], n) /\ h[i - 1] = Before(w[i], h[i])

LEMMA PastNone ==
  ASSUME NEW s \in Space, NEW n, Sound(s, n)
  PROVE  \E h : Past(h, <<>>, s, n)
<1>1. PICK h : h = [i \in 0..0 |-> s]
  OBVIOUS
<1>2. Past(h, <<>>, s, n)
  BY <1>1 DEF Past
<1> QED BY <1>2

LEMMA PastAdd ==
  ASSUME NEW h, NEW w \in Seq(WriteRecord), NEW s, NEW n, Past(h, w, s, n), NEW wr,
         NEW u \in Space, Sound(u, n), CanUndo(wr, u, n), Before(wr, u) = s
  PROVE  \E g : Past(g, Append(w, wr), u, n)
<1>1. PICK N \in Nat : N = Len(w)
  OBVIOUS
<1>2. /\ h \in [0..N -> Space] /\ h[N] = s /\ \A i \in 0..N : Sound(h[i], n)
      /\ \A i \in 1..N : CanUndo(w[i], h[i], n) /\ h[i - 1] = Before(w[i], h[i])
  BY <1>1 DEF Past
<1>3. PICK v : v = Append(w, wr)
  OBVIOUS
<1>4. Len(v) = N + 1 /\ v[N + 1] = wr /\ \A i \in 1..N : v[i] = w[i]
  BY <1>1, <1>3
<1>5. PICK g : g = [i \in 0..(N + 1) |-> IF i = N + 1 THEN u ELSE h[i]]
  OBVIOUS
<1>6. \A i \in 0..(N + 1) : i = N + 1 \/ (i \in 0..N /\ i # N + 1)
  OBVIOUS
<1>7. g[N + 1] = u /\ \A i \in 0..N : g[i] = h[i]
  BY <1>5
<1>8. g \in [0..(N + 1) -> Space]
  BY <1>2, <1>5, <1>6
<1>9. \A i \in 0..(N + 1) : Sound(g[i], n)
  BY <1>2, <1>6, <1>7
<1>10. ASSUME NEW i \in 1..(N + 1) PROVE CanUndo(v[i], g[i], n) /\ g[i - 1] = Before(v[i], g[i])
  <2>1. CASE i = N + 1
    <3>1. i - 1 = N /\ N \in 0..N
      BY <2>1
    <3> QED BY <1>2, <1>4, <1>7, <2>1, <3>1
  <2>2. CASE i # N + 1
    <3>1. i \in 1..N /\ i \in 0..N /\ i - 1 \in 0..N
      BY <2>2
    <3> QED BY <1>2, <1>4, <1>7, <3>1
  <2> QED BY <2>1, <2>2
<1> QED BY <1>3, <1>4, <1>7, <1>8, <1>9, <1>10 DEF Past

LEMMA PastUndo ==
  ASSUME NEW h, NEW w \in Seq(WriteRecord), w # <<>>, NEW s, NEW n, Past(h, w, s, n)
  PROVE  /\ CanUndo(Last(w), s, n) /\ Last(w) \in WriteRecord /\ Front(w) \in Seq(WriteRecord)
         /\ \E g : Past(g, Front(w), Before(Last(w), s), n)
<1>1. PICK N \in Nat : N = Len(w) - 1 /\ Len(w) = N + 1
  <2>1. Len(w) \in Nat /\ Len(w) # 0
    OBVIOUS
  <2>2. Len(w) - 1 \in Nat /\ (Len(w) - 1) + 1 = Len(w)
    BY <2>1
  <2> QED BY <2>2
<1>2. PICK v : v = Front(w)
  OBVIOUS
<1>3. v \in Seq(WriteRecord) /\ Len(v) = N /\ \A i \in 1..N : v[i] = w[i]
  BY <1>1, <1>2 DEF Front
<1>4. Last(w) = w[N + 1] /\ w[N + 1] \in WriteRecord
  BY <1>1 DEF Last
<1>5. /\ h \in [0..(N + 1) -> Space] /\ h[N + 1] = s /\ \A i \in 0..(N + 1) : Sound(h[i], n)
      /\ \A i \in 1..(N + 1) : CanUndo(w[i], h[i], n) /\ h[i - 1] = Before(w[i], h[i])
  BY <1>1 DEF Past
<1>6. N + 1 \in 1..(N + 1) /\ (N + 1) - 1 = N /\ N \in 0..N
  OBVIOUS
<1>7. CanUndo(Last(w), s, n) /\ h[N] = Before(Last(w), s)
  BY <1>4, <1>5, <1>6
<1>8. PICK g : g = [i \in 0..N |-> h[i]]
  OBVIOUS
<1>9. \A i \in 0..N : i \in 0..(N + 1) /\ g[i] = h[i]
  BY <1>8
<1>10. \A i \in 1..N : i \in 1..(N + 1) /\ i \in 0..N /\ i - 1 \in 0..N
  OBVIOUS
<1>11. g \in [0..N -> Space]
  BY <1>5, <1>8, <1>9
<1>12. Past(g, v, Before(Last(w), s), n)
  BY <1>3, <1>5, <1>6, <1>7, <1>9, <1>10, <1>11 DEF Past
<1> QED BY <1>2, <1>3, <1>4, <1>7, <1>12

LEMMA PastGrow ==
  ASSUME NEW h, NEW w \in Seq(WriteRecord), NEW s, NEW n \in 0..MaxPages, Past(h, w, s, n), n + 1 \in Page
  PROVE  \E g : Past(g, w, Grown(s, n + 1), n + 1)
<1>1. PICK N \in Nat : N = Len(w)
  OBVIOUS
<1>2. /\ h \in [0..N -> Space] /\ h[N] = s /\ \A i \in 0..N : Sound(h[i], n)
      /\ \A i \in 1..N : CanUndo(w[i], h[i], n) /\ h[i - 1] = Before(w[i], h[i])
  BY <1>1 DEF Past
<1>3. PICK g : g = [i \in 0..N |-> Grown(h[i], n + 1)]
  OBVIOUS
<1>4. \A i \in 0..N : g[i] = Grown(h[i], n + 1)
  BY <1>3
<1>5. ASSUME NEW i \in 0..N PROVE g[i] \in Space /\ Sound(g[i], n + 1)
  <2>1. h[i] \in Space /\ Sound(h[i], n)
    BY <1>2
  <2> QED BY <1>4, <2>1, GrownSound
<1>6. g \in [0..N -> Space]
  BY <1>3, <1>5
<1>7. ASSUME NEW i \in 1..N PROVE CanUndo(w[i], g[i], n + 1) /\ g[i - 1] = Before(w[i], g[i])
  <2>1. i \in 0..N /\ i - 1 \in 0..N /\ w[i] \in WriteRecord
    BY <1>1
  <2>2. PICK wr \in WriteRecord, a \in Space, b \in Space : wr = w[i] /\ a = h[i] /\ b = h[i - 1] /\ wr.rid \in Rid
    BY <1>2, <2>1 DEF WriteRecord
  <2>3. Sound(a, n) /\ CanUndo(wr, a, n) /\ b = Before(wr, a)
    BY <1>2, <2>1, <2>2
  <2>4. CanUndo(wr, Grown(a, n + 1), n + 1) /\ Before(wr, Grown(a, n + 1)) = Grown(b, n + 1)
    <3>1. CASE wr.type = "INSERT"
      BY <2>2, <2>3, <3>1, GrownSound DEF CanUndo, Before
    <3>2. CASE wr.type # "INSERT"
      BY <2>2, <2>3, <3>2, GrownSound DEF CanUndo, Before
    <3> QED BY <3>1, <3>2
  <2> QED BY <1>4, <2>1, <2>2, <2>4
<1>8. g[N] = Grown(s, n + 1)
  <2>1. N \in 0..N
    OBVIOUS
  <2> QED BY <1>2, <1>4, <2>1
<1> QED BY <1>1, <1>5, <1>6, <1>7, <1>8 DEF Past

(* One step back keeps space sound.                                        *)
LEMMA BeforeSound ==
  ASSUME NEW s \in Space, NEW n \in 0..MaxPages, Sound(s, n), NEW wr \in WriteRecord, CanUndo(wr, s, n)
  PROVE  Before(wr, s) \in Space /\ Sound(Before(wr, s), n)
<1>1. wr.rid \in Rid
  BY DEF WriteRecord
<1> QED BY <1>1, FreedSound, FilledSound DEF CanUndo, Before

-----------------------------------------------------------------------------
(* Calls and their types.                                                  *)

ReadType == [bits: SUBSET Slot, n: Int, next: Link, head: Link, pages: Nat]

InsideCall ==
  [at: {"inside"}, do: {"INSERT", "APPEND", "DELETE"}, undo: BOOLEAN, rid: Rid, fresh: BOOLEAN, read: ReadType]

CtlTypes ==
  /\ tlock \in [Txn -> {"none", "IX", "SIX"}] /\ owner \in [Rid -> Txn \cup {NoTxn}]
  /\ write_set \in [Txn -> Seq(WriteRecord)]
  /\ active \in [Txn -> {"no", "yes", "aborting"}]
  /\ call \in [Txn -> Call \cup {NoCall}]
  /\ allocated \in 0..MaxPages /\ ops \in 0..MaxOps
  /\ late \subseteq Txn /\ mixed \subseteq Txn /\ events \subseteq {"race", "stale", "mixed"}

LEMMA TypeSplit == TypeOK <=> HdrTypes /\ CtlTypes
BY DEF TypeOK, HdrTypes, CtlTypes

LEMMA InsideIs ==
  ASSUME CtlTypes, NEW t \in Txn, Inside(t)
  PROVE  call[t] \in InsideCall /\ call[t].rid \in Rid /\ call[t].rid[1] \in Page /\ call[t].rid[2] \in Slot
<1>1. call[t] \in InsideCall
  BY DEF CtlTypes, Inside, Call, InsideCall, ReadType
<1>2. call[t].rid \in Rid
  BY <1>1 DEF InsideCall
<1> QED BY <1>1, <1>2 DEF Rid

LEMMA HeadersType == ASSUME HdrTypes, NEW p \in Page PROVE Headers(p) \in ReadType
BY DEF HdrTypes, Headers, ReadType

LEMMA WorkedType ==
  ASSUME HdrTypes, CtlTypes, NEW t \in Txn, Inside(t)
  PROVE  /\ Worked(t) \subseteq ReadType
         /\ t \notin late => Worked(t) = {Headers(call[t].rid[1])}
<1>1. PICK a \in ReadType, b \in ReadType : a = call[t].read /\ b = Headers(call[t].rid[1])
  BY InsideIs, HeadersType DEF InsideCall
<1>2. t \notin late => Worked(t) = {b}
  BY <1>1 DEF Worked
<1>3. ASSUME t \in late, NEW w \in Worked(t) PROVE w \in ReadType
  <2>1. w \in [bits: {a.bits, b.bits}, n: {a.n, b.n}, next: {a.next, b.next},
               head: {a.head, b.head}, pages: {a.pages, b.pages}]
    BY <1>1, <1>3 DEF Worked
  <2> QED BY <2>1 DEF ReadType
<1> QED BY <1>1, <1>2, <1>3

LEMMA DeleteTypes ==
  ASSUME HdrTypes, NEW c \in InsideCall, NEW w \in ReadType, delete_record(c, w)
  PROVE  HdrTypes'
<1>1. PICK p \in Page, x \in Slot : c.rid[1] = p /\ c.rid[2] = x
  BY DEF InsideCall, Rid
<1>2. w.bits \in SUBSET Slot /\ w.n \in Int /\ w.next \in Link /\ w.head \in Link /\ w.pages \in Nat
  BY DEF ReadType
<1>3. bitmap' \in [Page -> SUBSET Slot]
  BY <1>1, <1>2 DEF delete_record, HdrTypes
<1>4. num_records' \in [Page -> Int]
  BY <1>1, <1>2 DEF delete_record, HdrTypes
<1>5. next_free' \in [Page -> Link] /\ first_free' \in Link /\ num_pages' \in Nat
  BY <1>1, <1>2 DEF delete_record, HdrTypes, Link
<1> QED BY <1>3, <1>4, <1>5 DEF HdrTypes

LEMMA InsertTypes ==
  ASSUME HdrTypes, NEW c \in InsideCall, NEW w \in ReadType, insert_record(c, w)
  PROVE  HdrTypes'
<1>1. PICK p \in Page, x \in Slot : c.rid[1] = p /\ c.rid[2] = x
  BY DEF InsideCall, Rid
<1>2. w.bits \in SUBSET Slot /\ w.n \in Int /\ w.next \in Link /\ w.head \in Link /\ w.pages \in Nat
  BY DEF ReadType
<1>3. bitmap' \in [Page -> SUBSET Slot]
  BY <1>1, <1>2 DEF insert_record, HdrTypes
<1>4. num_records' \in [Page -> Int]
  BY <1>1, <1>2 DEF insert_record, HdrTypes
<1>5. next_free' \in [Page -> Link]
  BY <1>1, <1>2 DEF insert_record, HdrTypes
<1>6. first_free' \in Link /\ num_pages' \in Nat
  <2>1. first_free' \in {w.head, w.next, p, first_free}
    BY <1>1 DEF insert_record
  <2>2. num_pages' \in {num_pages, w.pages + 1}
    BY DEF insert_record
  <2> QED BY <1>2, <2>1, <2>2 DEF HdrTypes, Link
<1> QED BY <1>3, <1>4, <1>5, <1>6 DEF HdrTypes

(* What a transaction knows inside a call: which record of its write set   *)
(* it undoes, and, unless it has been overtaken, that what it read holds.  *)
CallInv ==
  \A t \in Txn : Inside(t) =>
    /\ call[t].fresh => call[t].do = "APPEND"
    /\ call[t].undo => /\ write_set[t] # <<>> /\ call[t].rid = Last(write_set[t]).rid
                       /\ call[t].do = IF Last(write_set[t]).type = "INSERT" THEN "DELETE" ELSE "INSERT"
    /\ t \notin late /\ call[t].do = "APPEND" =>
         IF call[t].fresh THEN first_free = RM_NO_PAGE
         ELSE call[t].rid[1] = first_free /\ call[t].rid[2] \notin bitmap[call[t].rid[1]]
    /\ t \notin late /\ call[t].do = "DELETE" /\ ~call[t].undo => call[t].rid[2] \in bitmap[call[t].rid[1]]

(* A call that has not raced does its work on the headers as they are.     *)
LEMMA LeaveIs ==
  ASSUME HdrTypes, CtlTypes, CallInv, NEW t \in Txn, Inside(t), NEW own, Leave(t, own), ~Race(t)
  PROVE  /\ call[t].do = "DELETE" => Deletes(call[t].rid)
         /\ call[t].do # "DELETE" /\ ~call[t].fresh => Inserts(call[t].rid)
         /\ call[t].do # "DELETE" /\ call[t].fresh => InsertsNew(call[t].rid)
<1>1. PICK c \in InsideCall : c = call[t] /\ c.rid \in Rid
  BY InsideIs
<1>2. PICK p \in Page, x \in Slot : c.rid[1] = p /\ c.rid[2] = x
  BY <1>1 DEF Rid
<1>3. t \notin late /\ (c.fresh => p = num_pages + 1)
  BY <1>1, <1>2 DEF Race
<1>4. PICK w : w = Headers(p)
  OBVIOUS
<1>5. w.bits = bitmap[p] /\ w.n = num_records[p] /\ w.next = next_free[p] /\ w.head = first_free /\ w.pages = num_pages
  BY <1>4 DEF Headers
<1>6. IF c.do = "DELETE" THEN delete_record(c, w) ELSE insert_record(c, w)
  BY <1>1, <1>2, <1>3, <1>4, WorkedType DEF Leave
<1>7. /\ DOMAIN bitmap = Page /\ DOMAIN num_records = Page /\ bitmap[p] \in SUBSET Slot /\ num_records[p] \in Int
      /\ bitmap = [bitmap EXCEPT ![p] = bitmap[p]] /\ num_records = [num_records EXCEPT ![p] = num_records[p]]
  BY DEF HdrTypes
<1>8. ASSUME c.do = "DELETE" PROVE Deletes(c.rid)
  <2>1. delete_record(c, w)
    BY <1>6, <1>8
  <2>2. CASE x \in bitmap[p]
    BY <1>2, <1>5, <2>1, <2>2 DEF delete_record, Deletes
  <2>3. CASE x \notin bitmap[p]
    <3>1. bitmap[p] \ {x} = bitmap[p]
      BY <2>3
    <3>2. /\ bitmap' = bitmap /\ num_records' = num_records /\ next_free' = next_free /\ first_free' = first_free
          /\ num_pages' = num_pages
      BY <1>2, <1>5, <2>1, <2>3 DEF delete_record
    <3> QED BY <1>2, <1>7, <2>3, <3>1, <3>2 DEF Deletes
  <2> QED BY <2>2, <2>3
<1>9. ASSUME c.do # "DELETE", ~c.fresh PROVE Inserts(c.rid)
  <2>1. insert_record(c, w)
    BY <1>6, <1>9
  <2>2. CASE x \notin bitmap[p]
    <3>1. /\ bitmap' = [bitmap EXCEPT ![p] = bitmap[p] \cup {x}]
          /\ num_records' = [num_records EXCEPT ![p] = num_records[p] + 1]
      BY <1>2, <1>5, <1>9, <2>1, <2>2 DEF insert_record
    <3>2. /\ first_free' = (IF num_records'[p] = Slots THEN next_free[p] ELSE first_free)
          /\ next_free' = next_free /\ num_pages' = num_pages
      BY <1>2, <1>5, <1>9, <2>1 DEF insert_record
    <3> QED BY <1>2, <2>2, <3>1, <3>2 DEF Inserts
  <2>3. CASE x \in bitmap[p]
    <3>0. c.do # "APPEND"
      BY <1>1, <1>2, <1>3, <1>9, <2>3 DEF CallInv
    <3>1. bitmap[p] \cup {x} = bitmap[p]
      BY <2>3
    <3>2. bitmap' = bitmap /\ num_records' = num_records
      BY <1>2, <1>5, <1>9, <2>1, <2>3, <3>0 DEF insert_record
    <3>3. /\ first_free' = (IF num_records'[p] = Slots THEN next_free[p] ELSE first_free)
          /\ next_free' = next_free /\ num_pages' = num_pages
      BY <1>2, <1>5, <1>9, <2>1 DEF insert_record
    <3> QED BY <1>2, <1>7, <2>3, <3>1, <3>2, <3>3 DEF Inserts
  <2> QED BY <2>2, <2>3
<1>10. ASSUME c.do # "DELETE", c.fresh PROVE InsertsNew(c.rid)
  <2>1. insert_record(c, w) /\ c.do = "APPEND" /\ first_free = RM_NO_PAGE
    BY <1>1, <1>3, <1>6, <1>10 DEF CallInv
  <2>2. {} \cup {x} = {x} /\ 0 + 1 = 1
    OBVIOUS
  <2>3. bitmap' = [bitmap EXCEPT ![p] = {x}] /\ num_records' = [num_records EXCEPT ![p] = 1]
    BY <1>2, <1>10, <2>1, <2>2 DEF insert_record
  <2>4. num_records'[p] = 1
    BY <1>7, <2>3
  <2>5. /\ next_free' = [next_free EXCEPT ![p] = RM_NO_PAGE] /\ num_pages' = num_pages + 1
        /\ first_free' = IF Slots = 1 THEN RM_NO_PAGE ELSE p
    BY <1>2, <1>5, <1>10, <2>1, <2>4 DEF insert_record
  <2> QED BY <1>2, <1>3, <1>10, <2>1, <2>3, <2>5 DEF InsertsNew
<1> QED BY <1>1, <1>8, <1>9, <1>10

(* The headers of pages that t does not work on.                           *)
LEMMA LeaveElse ==
  ASSUME HdrTypes, CtlTypes, NEW t \in Txn, Inside(t), NEW own, Leave(t, own)
  PROVE  HdrTypes' /\ \A q \in Page : q # call[t].rid[1] => bitmap'[q] = bitmap[q]
<1>1. PICK c \in InsideCall : c = call[t] /\ c.rid[1] \in Page
  BY InsideIs
<1>2. PICK w \in ReadType : IF c.do = "DELETE" THEN delete_record(c, w) ELSE insert_record(c, w)
  BY <1>1, WorkedType DEF Leave
<1>3. HdrTypes'
  BY <1>2, DeleteTypes, InsertTypes
<1>4. \A q \in Page : q # c.rid[1] => bitmap'[q] = bitmap[q]
  BY <1>1, <1>2 DEF delete_record, insert_record, HdrTypes
<1> QED BY <1>1, <1>3, <1>4

LEMMA FirstZero ==
  ASSUME HdrTypes, NEW p \in Page, first_zero(p) \in Slot
  PROVE  first_zero(p) \notin bitmap[p]
<1>1. Slots \notin Slot
  BY Consts DEF Slot
<1>2. PICK Z : Z = {x \in Slot : x \notin bitmap[p]} \cup {Slots}
  OBVIOUS
<1>3. Z \subseteq Nat /\ Z # {}
  BY <1>2, Consts DEF Slot
<1>4. \E x \in Z : \A y \in Z : x <= y
  BY <1>3, LeastNat
<1>5. (CHOOSE x \in Z : \A y \in Z : x <= y) \in Z
  BY <1>4
<1>6. first_zero(p) \in Z
  BY <1>2, <1>5 DEF first_zero, Min
<1> QED BY <1>1, <1>2, <1>6

-----------------------------------------------------------------------------
(* Entering a call, and leaving it.                                        *)

LEMMA EnterTypes ==
  ASSUME HdrTypes, CtlTypes, NEW t \in Txn, NEW do \in {"INSERT", "APPEND", "DELETE"}, NEW undo \in BOOLEAN,
         NEW rid \in Rid, NEW fresh \in BOOLEAN, Enter(t, do, undo, rid, fresh)
  PROVE  /\ call' \in [Txn -> Call \cup {NoCall}] /\ \A u \in Txn : u # t => call'[u] = call[u]
         /\ call'[t].do = do /\ call'[t].undo = undo /\ call'[t].rid = rid /\ call'[t].fresh = fresh
<1>1. rid[1] \in Page
  BY DEF Rid
<1>2. PICK r \in ReadType : r = Headers(rid[1])
  BY <1>1, HeadersType
<1>3. PICK c : c = [at |-> "inside", do |-> do, undo |-> undo, rid |-> rid, fresh |-> fresh, read |-> r]
  OBVIOUS
<1>4. c \in InsideCall /\ c.do = do /\ c.undo = undo /\ c.rid = rid /\ c.fresh = fresh
  BY <1>3 DEF InsideCall
<1>5. c \in Call
  BY <1>4 DEF Call, InsideCall, ReadType
<1>6. call' = [call EXCEPT ![t] = c]
  BY <1>2, <1>3 DEF Enter
<1>7. call'[t] = c /\ \A u \in Txn : u # t => call'[u] = call[u]
  BY <1>6 DEF CtlTypes
<1>8. call' \in [Txn -> Call \cup {NoCall}]
  BY <1>5, <1>6 DEF CtlTypes
<1> QED BY <1>4, <1>7, <1>8

(* The calls of the others are as before; that of t is as it should be.    *)
LEMMA CallsKept ==
  ASSUME CallInv, UNCHANGED hdrs, late' = late, NEW t \in Txn,
         \A u \in Txn : u # t => call'[u] = call[u] /\ write_set'[u] = write_set[u],
         Inside(t)' =>
           /\ call'[t].fresh => call'[t].do = "APPEND"
           /\ call'[t].undo => /\ write_set'[t] # <<>> /\ call'[t].rid = Last(write_set'[t]).rid
                               /\ call'[t].do = IF Last(write_set'[t]).type = "INSERT" THEN "DELETE" ELSE "INSERT"
           /\ call'[t].do = "APPEND" =>
                IF call'[t].fresh THEN first_free = RM_NO_PAGE
                ELSE call'[t].rid[1] = first_free /\ call'[t].rid[2] \notin bitmap[call'[t].rid[1]]
           /\ call'[t].do = "DELETE" /\ ~call'[t].undo => call'[t].rid[2] \in bitmap[call'[t].rid[1]]
  PROVE  CallInv'
<1>1. bitmap' = bitmap /\ first_free' = first_free
  BY DEF hdrs
<1>2. SUFFICES ASSUME NEW u \in Txn, Inside(u)'
      PROVE  /\ call'[u].fresh => call'[u].do = "APPEND"
             /\ call'[u].undo => /\ write_set'[u] # <<>> /\ call'[u].rid = Last(write_set'[u]).rid
                                 /\ call'[u].do = IF Last(write_set'[u]).type = "INSERT" THEN "DELETE" ELSE "INSERT"
             /\ u \notin late' /\ call'[u].do = "APPEND" =>
                  IF call'[u].fresh THEN first_free' = RM_NO_PAGE
                  ELSE call'[u].rid[1] = first_free' /\ call'[u].rid[2] \notin bitmap'[call'[u].rid[1]]
             /\ u \notin late' /\ call'[u].do = "DELETE" /\ ~call'[u].undo => call'[u].rid[2] \in bitmap'[call'[u].rid[1]]
  BY DEF CallInv
<1>3. CASE u = t
  BY <1>1, <1>2, <1>3
<1>4. CASE u # t
  <2>1. Inside(u) /\ call'[u] = call[u] /\ write_set'[u] = write_set[u]
    BY <1>2, <1>4 DEF Inside
  <2> QED BY <1>1, <1>2, <2>1 DEF CallInv
<1> QED BY <1>3, <1>4

LEMMA LeaveTypes ==
  ASSUME HdrTypes, CtlTypes, NEW t \in Txn, Inside(t), NEW own, Leave(t, own),
         write_set' \in [Txn -> Seq(WriteRecord)], owner' \in [Rid -> Txn \cup {NoTxn}],
         active' \in [Txn -> {"no", "yes", "aborting"}]
  PROVE  CtlTypes' /\ Inside(t)' = FALSE /\ \A u \in Txn : u # t => call'[u] = call[u]
<1>1. call' = [call EXCEPT ![t] = NoCall]
  BY DEF Leave
<1>2. call' \in [Txn -> Call \cup {NoCall}] /\ call'[t] = NoCall /\ \A u \in Txn : u # t => call'[u] = call[u]
  BY <1>1 DEF CtlTypes
<1>3. late' \subseteq Txn /\ mixed' \subseteq Txn
  BY DEF Leave, Overtaken, CtlTypes
<1>4. events' \subseteq {"race", "stale", "mixed"}
  BY DEF Leave, Noted, CtlTypes
<1>5. tlock' = tlock /\ ops' = ops /\ allocated' = allocated
  BY DEF Leave
<1>6. CtlTypes'
  BY <1>2, <1>3, <1>4, <1>5 DEF CtlTypes
<1> QED BY <1>2, <1>6 DEF Inside

(* What the others know still holds, unless they have been overtaken.      *)
LEMMA LeaveCalls ==
  ASSUME HdrTypes, CtlTypes, CallInv, NEW t \in Txn, Inside(t), NEW own, Leave(t, own),
         CtlTypes', Inside(t)' = FALSE,
         \A u \in Txn : u # t => call'[u] = call[u] /\ write_set'[u] = write_set[u]
  PROVE  CallInv'
<1>1. SUFFICES ASSUME NEW u \in Txn, Inside(u)'
      PROVE  /\ call'[u].fresh => call'[u].do = "APPEND"
             /\ call'[u].undo => /\ write_set'[u] # <<>> /\ call'[u].rid = Last(write_set'[u]).rid
                                 /\ call'[u].do = IF Last(write_set'[u]).type = "INSERT" THEN "DELETE" ELSE "INSERT"
             /\ u \notin late' /\ call'[u].do = "APPEND" =>
                  IF call'[u].fresh THEN first_free' = RM_NO_PAGE
                  ELSE call'[u].rid[1] = first_free' /\ call'[u].rid[2] \notin bitmap'[call'[u].rid[1]]
             /\ u \notin late' /\ call'[u].do = "DELETE" /\ ~call'[u].undo => call'[u].rid[2] \in bitmap'[call'[u].rid[1]]
  BY DEF CallInv
<1>2. u # t /\ call'[u] = call[u] /\ write_set'[u] = write_set[u] /\ Inside(u)
  BY <1>1 DEF Inside
<1>3. call[u].rid[1] \in Page
  BY <1>2, InsideIs
<1>4. ASSUME u \notin late'
      PROVE  u \notin late /\ first_free' = first_free /\ bitmap'[call[u].rid[1]] = bitmap[call[u].rid[1]]
  <2>1. u \notin late /\ u \notin Overtaken(t)
    BY <1>2, <1>4 DEF Leave
  <2>2. call[u].rid[1] # call[t].rid[1] /\ first_free' = first_free
    BY <1>2, <2>1 DEF Overtaken
  <2> QED BY <1>3, <2>1, <2>2, LeaveElse
<1> QED BY <1>2, <1>4 DEF CallInv

LEMMA LeaveCounts ==
  ASSUME HdrTypes, CtlTypes, CallInv, CountExact, NEW t \in Txn, Inside(t), NEW own, Leave(t, own), ~Race(t)
  PROVE  CountExact'
<1>1. call[t].rid \in Rid
  BY InsideIs
<1>2. Deletes(call[t].rid) \/ Inserts(call[t].rid) \/ InsertsNew(call[t].rid)
  BY LeaveIs
<1> QED BY <1>1, <1>2, DeleteCounts, InsertCounts, NewPageCounts

-----------------------------------------------------------------------------
(* The free list.                                                          *)

(* The list is sound now, and after every step of the rollback that any    *)
(* transaction may still begin whose write set tells all.                  *)
ListInv(L) ==
  /\ L \in Seq(Page) /\ Linked(L, first_free, next_free) /\ Sound(Now(bitmap, L), num_pages)
  /\ num_pages \in 0..MaxPages
  /\ \A t \in Txn : t \notin mixed => \E h : Past(h, write_set[t], Now(bitmap, L), num_pages)

IInv ==
  /\ TypeOK
  /\ "race" \notin events => CallInv /\ CountExact
  /\ events = {} => \E L : ListInv(L)

LEMMA NowIs ==
  ASSUME NEW b, NEW L
  PROVE  \E s : s = Now(b, L) /\ s.bits = b /\ s.list = L
<1>1. Now(b, L).bits = b /\ Now(b, L).list = L
  BY DEF Now
<1> QED BY <1>1

LEMMA RecordIs ==
  ASSUME NEW type \in {"INSERT", "DELETE"}, NEW rid \in Rid
  PROVE  \E wr \in WriteRecord : wr = [type |-> type, rid |-> rid] /\ wr.type = type /\ wr.rid = rid
<1>1. [type |-> type, rid |-> rid] \in WriteRecord
  BY DEF WriteRecord
<1>2. [type |-> type, rid |-> rid].type = type /\ [type |-> type, rid |-> rid].rid = rid
  OBVIOUS
<1> QED BY <1>1, <1>2

LEMMA InitIInv == Init => IInv
<1> SUFFICES ASSUME Init PROVE IInv
  OBVIOUS
<1>1. TypeOK /\ CountExact
  <2>1. 0 \in 0..MaxPages /\ 0 \in 0..MaxOps
    BY Consts, RmConstants
  <2>2. <<>> \in Seq(WriteRecord)
    OBVIOUS
  <2> QED BY <2>1, <2>2, FS_EmptySet DEF Init, TypeOK, CountExact, Link
<1>2. CallInv
  BY DEF Init, CallInv, Inside
<1>3. PICK s : s = Now(bitmap, <<>>) /\ s.bits = bitmap /\ s.list = <<>>
  BY NowIs
<1>4. s \in Space
  <2>1. <<>> \in Seq(Page)
    OBVIOUS
  <2> QED BY <1>1, <1>3, <2>1 DEF Space, Now, TypeOK
<1>5. Sound(s, num_pages)
  <2>1. \A p \in Page : ~(p <= num_pages) /\ bitmap[p] = {}
    BY Consts DEF Init
  <2>2. Distinct(<<>>) /\ \A p : ~In(<<>>, p)
    BY DEF Distinct, In
  <2> QED BY <1>3, <2>1, <2>2 DEF Sound
<1>6. Linked(<<>>, first_free, next_free) /\ <<>> \in Seq(Page) /\ num_pages \in 0..MaxPages
  BY Consts DEF Linked, Init
<1>7. \A t \in Txn : \E h : Past(h, write_set[t], s, num_pages)
  BY <1>4, <1>5, PastNone DEF Init
<1>8. ListInv(<<>>)
  BY <1>3, <1>5, <1>6, <1>7 DEF ListInv
<1> QED BY <1>1, <1>2, <1>8 DEF IInv

(* The call of t takes the headers to the space u = Now(bitmap', K).  The  *)
(* write sets of the others do not tell all any more, or are empty.        *)
LEMMA ListStep ==
  ASSUME CtlTypes, NEW t \in Txn, NEW own, Leave(t, own), \A x \in Txn : x # t => write_set'[x] = write_set[x],
         num_pages' \in 0..MaxPages,
         NEW u \in Space, Sound(u, num_pages'), NEW K, u = Now(bitmap', K), Linked(K, first_free', next_free'),
         t \notin mixed' => \E h : Past(h, write_set'[t], u, num_pages')
  PROVE  \E M : ListInv(M)'
<1>1. K \in Seq(Page)
  BY DEF Now, Space
<1>2. ASSUME NEW x \in Txn, x \notin mixed' PROVE \E h : Past(h, write_set'[x], u, num_pages')
  <2>1. CASE x = t
    BY <1>2, <2>1
  <2>2. CASE x # t
    <3>1. write_set'[x] = <<>>
      BY <1>2, <2>2 DEF Leave
    <3> QED BY <3>1, PastNone
  <2> QED BY <2>1, <2>2
<1>3. ListInv(K)'
  BY <1>1, <1>2 DEF ListInv
<1> QED BY <1>3

(* The head of the list has room.                                          *)
LEMMA HeadIs ==
  ASSUME NEW L \in Seq(Page), Linked(L, first_free, next_free), Sound(Now(bitmap, L), num_pages),
         first_free # RM_NO_PAGE
  PROVE  L # <<>> /\ L[1] = first_free /\ first_free \in Page /\ first_free <= num_pages
         /\ Cardinality(bitmap[first_free]) # Slots
<1>1. L # <<>> /\ L[1] = first_free /\ first_free \in Page
  BY DEF Linked
<1>2. PICK s : s = Now(bitmap, L) /\ s.bits = bitmap /\ s.list = L
  BY NowIs
<1>3. In(L, L[1])
  BY <1>1, <1>2, Popped DEF Sound
<1> QED BY <1>1, <1>2, <1>3 DEF Sound

(* An INSERT or APPEND that went to the head of the list, or to a new page. *)
LEMMA InsertList ==
  ASSUME HdrTypes, CtlTypes, CtlTypes', CallInv, CountExact, NEW t \in Txn, InsertReturn(t), ~Race(t), ~Stale(t),
         NEW L, ListInv(L), \A x \in Txn : x # t => write_set'[x] = write_set[x]
  PROVE  \E K : ListInv(K)'
<1>1. PICK rid \in Rid : rid = call[t].rid /\ Inside(t) /\ call[t].do \in {"INSERT", "APPEND"} /\ ~call[t].undo
  BY InsideIs DEF InsertReturn
<1>2. PICK own : Leave(t, own)
  BY DEF InsertReturn
<1>3. PICK s \in Space : s = Now(bitmap, L) /\ s.bits = bitmap /\ s.list = L /\ Sound(s, num_pages)
  BY NowIs DEF ListInv, Space, Now, HdrTypes
<1>4. L \in Seq(Page) /\ Linked(L, first_free, next_free) /\ num_pages \in 0..MaxPages
  BY DEF ListInv
<1>5. PICK wr \in WriteRecord : wr = [type |-> "INSERT", rid |-> rid] /\ wr.type = "INSERT" /\ wr.rid = rid
  BY RecordIs
<1>6. PICK w \in Seq(WriteRecord) : w = write_set[t]
  BY DEF CtlTypes
<1>7. ASSUME t \notin mixed'
      PROVE  t \notin mixed /\ write_set'[t] = Append(w, wr) /\ ~Overwrites(t)
  <2>1. \/ /\ Leave(t, Overwrites(t))
           /\ write_set' = [write_set EXCEPT ![t] = Append(@, [type |-> "INSERT", rid |-> call[t].rid])]
        \/ Leave(t, TRUE)
    BY DEF InsertReturn
  <2>2. ~Leave(t, TRUE)
    BY <1>7 DEF Leave
  <2>3. write_set'[t] = Append(w, wr)
    BY <1>1, <1>5, <1>6, <2>1, <2>2 DEF CtlTypes
  <2> QED BY <1>7, <2>1, <2>2, <2>3 DEF Leave
<1>8. CASE call[t].fresh
  <2>0. InsertsNew(rid)
    BY <1>1, <1>2, <1>8, LeaveIs
  <2>1. /\ num_pages + 1 \in Page /\ CanFill(Grown(s, num_pages + 1), rid, num_pages + 1)
        /\ \E K : Filled(Grown(s, num_pages + 1), rid) = Now(bitmap', K) /\ Linked(K, first_free', next_free')
    BY <1>3, <1>4, <2>0, NewPageSpace
  <2>2. num_pages' = num_pages + 1 /\ num_pages + 1 \in 0..MaxPages
    BY <2>0, <2>1, Consts DEF InsertsNew
  <2>3. PICK n \in 0..MaxPages : n = num_pages + 1
    BY <2>2
  <2>4. PICK v \in Space : v = Grown(s, n) /\ Sound(v, n)
    BY <1>3, <1>4, <2>1, <2>3, GrownSound
  <2>6. PICK K : Filled(v, rid) = Now(bitmap', K) /\ Linked(K, first_free', next_free')
    BY <2>1, <2>3, <2>4
  <2>7. PICK u \in Space : u = Filled(v, rid) /\ Sound(u, n) /\ CanFree(u, rid) /\ Freed(u, rid) = v
    BY <2>1, <2>3, <2>4, FilledSound
  <2>8. CanUndo(wr, u, n) /\ Before(wr, u) = v
    BY <1>5, <2>7 DEF CanUndo, Before
  <2>9. ASSUME t \notin mixed' PROVE \E k : Past(k, write_set'[t], u, n)
    <3>1. PICK h : Past(h, w, s, num_pages)
      BY <1>3, <1>6, <1>7, <2>9 DEF ListInv
    <3>2. PICK g : Past(g, w, v, n)
      BY <1>4, <2>1, <2>3, <2>4, <3>1, PastGrow
    <3> QED BY <1>7, <2>7, <2>8, <2>9, <3>2, PastAdd
  <2> QED BY <1>2, <2>2, <2>3, <2>6, <2>7, <2>9, ListStep
<1>9. CASE ~call[t].fresh
  <2>0. Inserts(rid)
    BY <1>1, <1>2, <1>9, LeaveIs
  <2>1. rid[1] = first_free /\ rid[1] \in Page /\ rid[2] \in Slot
    BY <1>1, <1>9 DEF CallInv, Stale, Race, Rid
  <2>2. /\ first_free # RM_NO_PAGE /\ L # <<>> /\ L[1] = rid[1] /\ rid[1] <= num_pages
        /\ Cardinality(bitmap[rid[1]]) # Slots
    BY <1>3, <1>4, <2>1, HeadIs, Consts
  <2>3. num_pages' = num_pages
    BY <2>0 DEF Inserts
  <2>4. CASE rid[2] \notin bitmap[rid[1]]
    <3>1. CanFill(s, rid, num_pages)
      BY <1>3, <2>2, <2>4 DEF CanFill
    <3>2. PICK K : Filled(s, rid) = Now(bitmap', K) /\ Linked(K, first_free', next_free')
      BY <1>3, <1>4, <2>0, <3>1, InsertSpace
    <3>3. PICK u \in Space : u = Filled(s, rid) /\ Sound(u, num_pages) /\ CanFree(u, rid) /\ Freed(u, rid) = s
      BY <1>3, <1>4, <3>1, FilledSound
    <3>4. CanUndo(wr, u, num_pages) /\ Before(wr, u) = s
      BY <1>5, <3>3 DEF CanUndo, Before
    <3>5. ASSUME t \notin mixed' PROVE \E k : Past(k, write_set'[t], u, num_pages)
      <4>1. PICK h : Past(h, w, s, num_pages)
        BY <1>3, <1>6, <1>7, <3>5 DEF ListInv
      <4> QED BY <1>7, <3>3, <3>4, <3>5, <4>1, PastAdd
    <3> QED BY <1>2, <1>4, <2>3, <3>2, <3>3, <3>5, ListStep
  <2>5. CASE rid[2] \in bitmap[rid[1]]
    <3>1. Overwrites(t) /\ t \in mixed'
      <4>1. call[t].do = "INSERT"
        BY <1>1, <1>9, <2>5 DEF CallInv, Race
      <4>2. Overwrites(t)
        BY <1>1, <2>5, <4>1 DEF Overwrites
      <4> QED BY <1>7, <4>2
    <3>2. bitmap' = bitmap
      <4>1. bitmap[rid[1]] \cup {rid[2]} = bitmap[rid[1]]
        BY <2>5
      <4> QED BY <2>0, <2>1, <4>1 DEF Inserts, HdrTypes
    <3>3. num_records'[rid[1]] = Cardinality(bitmap[rid[1]])
      BY <2>0, <2>1, <2>5 DEF Inserts, HdrTypes, CountExact
    <3>4. first_free' = first_free /\ next_free' = next_free
      BY <2>0, <2>2, <3>3 DEF Inserts
    <3> QED BY <1>2, <1>3, <1>4, <2>3, <3>1, <3>2, <3>4, ListStep
  <2> QED BY <2>4, <2>5
<1> QED BY <1>8, <1>9

LEMMA DeleteList ==
  ASSUME HdrTypes, CtlTypes, CtlTypes', CallInv, CountExact, NEW t \in Txn, DeleteReturn(t), ~Race(t),
         NEW L, ListInv(L), \A x \in Txn : x # t => write_set'[x] = write_set[x]
  PROVE  \E K : ListInv(K)'
<1>1. PICK rid \in Rid : rid = call[t].rid /\ Inside(t) /\ call[t].do = "DELETE" /\ ~call[t].undo
  BY InsideIs DEF DeleteReturn
<1>2. Leave(t, FALSE)
  BY DEF DeleteReturn
<1>3. PICK s \in Space : s = Now(bitmap, L) /\ s.bits = bitmap /\ s.list = L /\ Sound(s, num_pages)
  BY NowIs DEF ListInv, Space, Now, HdrTypes
<1>4. L \in Seq(Page) /\ Linked(L, first_free, next_free) /\ num_pages \in 0..MaxPages
  BY DEF ListInv
<1>5. PICK wr \in WriteRecord : wr = [type |-> "DELETE", rid |-> rid] /\ wr.type = "DELETE" /\ wr.rid = rid
  BY RecordIs
<1>6. PICK w \in Seq(WriteRecord) : w = write_set[t]
  BY DEF CtlTypes
<1>7. write_set'[t] = Append(w, wr) /\ (t \notin mixed' => t \notin mixed)
  BY <1>1, <1>2, <1>5, <1>6 DEF DeleteReturn, Leave, CtlTypes
<1>8. Deletes(rid) /\ rid[2] \in bitmap[rid[1]]
  BY <1>1, <1>2, LeaveIs DEF CallInv, Race
<1>9. CanFree(s, rid) /\ num_pages' = num_pages
  BY <1>3, <1>8 DEF CanFree, Deletes
<1>10. PICK K : Freed(s, rid) = Now(bitmap', K) /\ Linked(K, first_free', next_free')
  BY <1>3, <1>4, <1>8, DeleteSpace
<1>11. PICK u \in Space : u = Freed(s, rid) /\ Sound(u, num_pages) /\ CanFill(u, rid, num_pages) /\ Filled(u, rid) = s
  BY <1>3, <1>4, <1>9, FreedSound
<1>12. CanUndo(wr, u, num_pages) /\ Before(wr, u) = s
  BY <1>5, <1>11 DEF CanUndo, Before
<1>13. ASSUME t \notin mixed' PROVE \E k : Past(k, write_set'[t], u, num_pages)
  <2>1. PICK h : Past(h, w, s, num_pages)
    BY <1>3, <1>6, <1>7, <1>13 DEF ListInv
  <2> QED BY <1>7, <1>11, <1>12, <2>1, PastAdd
<1> QED BY <1>2, <1>4, <1>9, <1>10, <1>11, <1>13, ListStep

LEMMA UndoList ==
  ASSUME HdrTypes, CtlTypes, CtlTypes', CallInv, CountExact, NEW t \in Txn, UndoReturn(t), ~Race(t), ~MixedUndo(t),
         NEW L, ListInv(L), \A x \in Txn : x # t => write_set'[x] = write_set[x]
  PROVE  \E K : ListInv(K)'
<1>1. PICK rid \in Rid : rid = call[t].rid /\ Inside(t) /\ call[t].undo
  BY InsideIs DEF UndoReturn
<1>2. Leave(t, FALSE) /\ (t \in mixed => t \in mixed')
  BY DEF UndoReturn, Leave
<1>3. PICK s \in Space : s = Now(bitmap, L) /\ s.bits = bitmap /\ s.list = L /\ Sound(s, num_pages)
  BY NowIs DEF ListInv, Space, Now, HdrTypes
<1>4. L \in Seq(Page) /\ Linked(L, first_free, next_free) /\ num_pages \in 0..MaxPages
  BY DEF ListInv
<1>5. PICK w \in Seq(WriteRecord) : w = write_set[t] /\ w # <<>>
  BY <1>1 DEF CtlTypes, CallInv
<1>6. PICK wr \in WriteRecord : wr = Last(w) /\ wr.rid = rid
  <2>1. Last(w) \in WriteRecord
    BY <1>5 DEF Last
  <2> QED BY <1>1, <1>5, <2>1 DEF CallInv
<1>7. call[t].do = (IF wr.type = "INSERT" THEN "DELETE" ELSE "INSERT") /\ ~call[t].fresh
  BY <1>1, <1>5, <1>6 DEF CallInv
<1>8. IF wr.type = "INSERT" THEN Deletes(rid) ELSE Inserts(rid)
  BY <1>1, <1>2, <1>7, LeaveIs
<1>9. write_set'[t] = Front(w) /\ num_pages' = num_pages
  BY <1>5, <1>8 DEF UndoReturn, CtlTypes, Deletes, Inserts
<1>10. CASE t \notin mixed
  <2>1. PICK h : Past(h, w, s, num_pages)
    BY <1>3, <1>5, <1>10 DEF ListInv
  <2>2. CanUndo(wr, s, num_pages) /\ \E g : Past(g, Front(w), Before(wr, s), num_pages)
    BY <1>5, <1>6, <2>1, PastUndo
  <2>3. PICK u \in Space : u = Before(wr, s) /\ Sound(u, num_pages)
    BY <1>3, <1>4, <2>2, BeforeSound
  <2>4. \E K : Before(wr, s) = Now(bitmap', K) /\ Linked(K, first_free', next_free')
    <3>1. CASE wr.type = "INSERT"
      <4>1. rid[2] \in bitmap[rid[1]] /\ Deletes(rid)
        BY <1>3, <1>6, <1>8, <2>2, <3>1 DEF CanUndo, CanFree
      <4> QED BY <1>3, <1>4, <1>6, <3>1, <4>1, DeleteSpace DEF Before
    <3>2. CASE wr.type # "INSERT"
      <4>1. CanFill(s, rid, num_pages) /\ Inserts(rid)
        BY <1>6, <1>8, <2>2, <3>2 DEF CanUndo
      <4> QED BY <1>3, <1>4, <1>6, <3>2, <4>1, InsertSpace DEF Before
    <3> QED BY <3>1, <3>2
  <2> QED BY <1>2, <1>4, <1>9, <2>2, <2>3, <2>4, ListStep
<1>11. CASE t \in mixed
  <2>1. Deletes(rid)
    BY <1>1, <1>7, <1>8, <1>11 DEF MixedUndo
  <2>2. CASE rid[2] \in bitmap[rid[1]]
    <3>1. CanFree(s, rid)
      BY <1>3, <2>2 DEF CanFree
    <3>2. PICK K : Freed(s, rid) = Now(bitmap', K) /\ Linked(K, first_free', next_free')
      BY <1>3, <1>4, <2>1, <2>2, DeleteSpace
    <3>3. PICK u \in Space : u = Freed(s, rid) /\ Sound(u, num_pages)
      BY <1>3, <1>4, <3>1, FreedSound
    <3> QED BY <1>2, <1>4, <1>9, <1>11, <3>2, <3>3, ListStep
  <2>3. CASE rid[2] \notin bitmap[rid[1]]
    <3>1. bitmap[rid[1]] \ {rid[2]} = bitmap[rid[1]]
      BY <2>3
    <3>2. bitmap' = bitmap /\ first_free' = first_free /\ next_free' = next_free
      BY <2>1, <2>3, <3>1 DEF Deletes, HdrTypes
    <3> QED BY <1>2, <1>3, <1>4, <1>9, <1>11, <3>2, ListStep
  <2> QED BY <2>2, <2>3
<1> QED BY <1>10, <1>11

-----------------------------------------------------------------------------
(* The steps.                                                              *)

(* A return keeps the invariant if it keeps the list.                      *)
LEMMA LeaveKeeps ==
  ASSUME IInv, "race" \notin events, NEW t \in Txn, Inside(t), NEW own, Leave(t, own),
         CtlTypes', Inside(t)' = FALSE,
         \A u \in Txn : u # t => call'[u] = call[u] /\ write_set'[u] = write_set[u],
         events' = {} => \E L : ListInv(L)'
  PROVE  IInv'
<1>1. HdrTypes /\ CtlTypes /\ CallInv /\ CountExact
  BY TypeSplit DEF IInv
<1>2. HdrTypes'
  BY <1>1, LeaveElse
<1>3. TypeOK'
  BY <1>2 DEF TypeOK, HdrTypes, CtlTypes
<1>4. CallInv'
  BY <1>1, LeaveCalls
<1>5. "race" \notin events' => ~Race(t)
  BY DEF Leave, Noted
<1>6. "race" \notin events' => CountExact'
  BY <1>1, <1>5, LeaveCounts
<1> QED BY <1>3, <1>4, <1>6 DEF IInv

LEMMA QuietReturn ==
  ASSUME NEW t \in Txn, NEW own, Leave(t, own), events' = {}
  PROVE  events = {} /\ ~Race(t) /\ ~Stale(t) /\ ~MixedUndo(t)
BY DEF Leave, Noted

LEMMA InsertKeeps == ASSUME IInv, "race" \notin events, NEW t \in Txn, InsertReturn(t) PROVE IInv'
<1>1. HdrTypes /\ CtlTypes /\ CallInv /\ CountExact
  BY TypeSplit DEF IInv
<1>2. PICK rid \in Rid : rid = call[t].rid /\ Inside(t)
  BY <1>1, InsideIs DEF InsertReturn
<1>3. PICK own : Leave(t, own)
  BY DEF InsertReturn
<1>4. PICK wr \in WriteRecord : wr = [type |-> "INSERT", rid |-> rid]
  BY RecordIs
<1>5. /\ write_set' = write_set \/ write_set' = [write_set EXCEPT ![t] = Append(@, wr)]
      /\ owner' = owner \/ owner' = [owner EXCEPT ![rid] = t]
      /\ active' = active \/ active' = [active EXCEPT ![t] = "aborting"]
  BY <1>2, <1>4 DEF InsertReturn
<1>6. Append(write_set[t], wr) \in Seq(WriteRecord)
  BY <1>1 DEF CtlTypes
<1>7. write_set' \in [Txn -> Seq(WriteRecord)]
  BY <1>1, <1>5, <1>6 DEF CtlTypes
<1>8. owner' \in [Rid -> Txn \cup {NoTxn}] /\ active' \in [Txn -> {"no", "yes", "aborting"}]
  <2>1. [owner EXCEPT ![rid] = t] \in [Rid -> Txn \cup {NoTxn}]
    BY <1>1 DEF CtlTypes
  <2>2. [active EXCEPT ![t] = "aborting"] \in [Txn -> {"no", "yes", "aborting"}]
    BY <1>1 DEF CtlTypes
  <2> QED BY <1>1, <1>5, <2>1, <2>2 DEF CtlTypes
<1>9. CtlTypes' /\ Inside(t)' = FALSE /\ \A u \in Txn : u # t => call'[u] = call[u]
  BY <1>1, <1>2, <1>3, <1>7, <1>8, LeaveTypes
<1>10. \A u \in Txn : u # t => write_set'[u] = write_set[u]
  BY <1>1, <1>5 DEF CtlTypes
<1>11. ASSUME events' = {} PROVE \E L : ListInv(L)'
  <2>1. events = {} /\ ~Race(t) /\ ~Stale(t)
    BY <1>3, <1>11, QuietReturn
  <2>2. PICK L : ListInv(L)
    BY <2>1 DEF IInv
  <2> QED BY <1>1, <1>9, <1>10, <2>1, <2>2, InsertList
<1> QED BY <1>2, <1>3, <1>9, <1>10, <1>11, LeaveKeeps

LEMMA DeleteKeeps == ASSUME IInv, "race" \notin events, NEW t \in Txn, DeleteReturn(t) PROVE IInv'
<1>1. HdrTypes /\ CtlTypes /\ CallInv /\ CountExact
  BY TypeSplit DEF IInv
<1>2. PICK rid \in Rid : rid = call[t].rid /\ Inside(t)
  BY <1>1, InsideIs DEF DeleteReturn
<1>3. Leave(t, FALSE)
  BY DEF DeleteReturn
<1>4. PICK wr \in WriteRecord : wr = [type |-> "DELETE", rid |-> rid]
  BY RecordIs
<1>5. write_set' = [write_set EXCEPT ![t] = Append(@, wr)] /\ owner' = owner /\ active' = active
  BY <1>2, <1>4 DEF DeleteReturn
<1>6. Append(write_set[t], wr) \in Seq(WriteRecord)
  BY <1>1 DEF CtlTypes
<1>7. /\ write_set' \in [Txn -> Seq(WriteRecord)] /\ owner' \in [Rid -> Txn \cup {NoTxn}]
      /\ active' \in [Txn -> {"no", "yes", "aborting"}]
  BY <1>1, <1>5, <1>6 DEF CtlTypes
<1>9. CtlTypes' /\ Inside(t)' = FALSE /\ \A u \in Txn : u # t => call'[u] = call[u]
  BY <1>1, <1>2, <1>3, <1>7, LeaveTypes
<1>10. \A u \in Txn : u # t => write_set'[u] = write_set[u]
  BY <1>1, <1>5 DEF CtlTypes
<1>11. ASSUME events' = {} PROVE \E L : ListInv(L)'
  <2>1. events = {} /\ ~Race(t)
    BY <1>3, <1>11, QuietReturn
  <2>2. PICK L : ListInv(L)
    BY <2>1 DEF IInv
  <2> QED BY <1>1, <1>9, <1>10, <2>1, <2>2, DeleteList
<1> QED BY <1>2, <1>3, <1>9, <1>10, <1>11, LeaveKeeps

LEMMA UndoKeeps == ASSUME IInv, "race" \notin events, NEW t \in Txn, UndoReturn(t) PROVE IInv'
<1>1. HdrTypes /\ CtlTypes /\ CallInv /\ CountExact
  BY TypeSplit DEF IInv
<1>2. Inside(t) /\ call[t].undo
  BY DEF UndoReturn
<1>3. Leave(t, FALSE)
  BY DEF UndoReturn
<1>4. PICK w \in Seq(WriteRecord) : w = write_set[t] /\ w # <<>>
  BY <1>1, <1>2 DEF CtlTypes, CallInv
<1>5. write_set' = [write_set EXCEPT ![t] = Front(w)] /\ owner' = owner /\ active' = active
  BY <1>4 DEF UndoReturn
<1>6. Front(w) \in Seq(WriteRecord)
  BY <1>4 DEF Front
<1>7. /\ write_set' \in [Txn -> Seq(WriteRecord)] /\ owner' \in [Rid -> Txn \cup {NoTxn}]
      /\ active' \in [Txn -> {"no", "yes", "aborting"}]
  BY <1>1, <1>5, <1>6 DEF CtlTypes
<1>9. CtlTypes' /\ Inside(t)' = FALSE /\ \A u \in Txn : u # t => call'[u] = call[u]
  BY <1>1, <1>2, <1>3, <1>7, LeaveTypes
<1>10. \A u \in Txn : u # t => write_set'[u] = write_set[u]
  BY <1>1, <1>5 DEF CtlTypes
<1>11. ASSUME events' = {} PROVE \E L : ListInv(L)'
  <2>1. events = {} /\ ~Race(t) /\ ~MixedUndo(t)
    BY <1>3, <1>11, QuietReturn
  <2>2. PICK L : ListInv(L)
    BY <2>1 DEF IInv
  <2> QED BY <1>1, <1>9, <1>10, <2>1, <2>2, UndoList
<1> QED BY <1>2, <1>3, <1>9, <1>10, <1>11, LeaveKeeps

(* The other actions leave the headers alone.                              *)
LEMMA QuietKeeps ==
  ASSUME IInv, CtlTypes', UNCHANGED hdrs, events' = events, "race" \notin events => CallInv',
         \A x \in Txn : write_set'[x] = <<>> \/ (write_set'[x] = write_set[x] /\ (x \in mixed => x \in mixed'))
  PROVE  IInv'
<1>1. /\ bitmap' = bitmap /\ first_free' = first_free /\ next_free' = next_free /\ num_pages' = num_pages
      /\ num_records' = num_records
  BY DEF hdrs
<1>2. TypeOK' /\ ("race" \notin events' => CountExact')
  BY <1>1 DEF IInv, TypeOK, CtlTypes, CountExact
<1>3. ASSUME events = {} PROVE \E L : ListInv(L)'
  <2>1. PICK L \in Seq(Page) : ListInv(L)
    BY <1>3 DEF IInv, ListInv
  <2>2. PICK s \in Space : s = Now(bitmap, L) /\ Sound(s, num_pages)
    BY <2>1 DEF ListInv, Space, Now, IInv, TypeOK
  <2>3. ASSUME NEW x \in Txn, x \notin mixed' PROVE \E h : Past(h, write_set'[x], s, num_pages)
    <3>1. CASE write_set'[x] = <<>>
      BY <2>2, <3>1, PastNone
    <3>2. CASE write_set'[x] # <<>>
      <4>1. write_set'[x] = write_set[x] /\ x \notin mixed
        BY <2>3, <3>2
      <4> QED BY <2>1, <2>2, <4>1 DEF ListInv
    <3> QED BY <3>1, <3>2
  <2>4. ListInv(L)'
    BY <1>1, <2>1, <2>2, <2>3 DEF ListInv
  <2> QED BY <2>4
<1> QED BY <1>2, <1>3 DEF IInv

LEMMA EnterKeeps ==
  ASSUME IInv, "race" \notin events, NEW t \in Txn,
         InsertEnter(t) \/ AppendEnter(t) \/ UndoEnter(t) \/ \E rid \in Rid : DeleteEnter(t, rid)
  PROVE  IInv'
<1>1. HdrTypes /\ CtlTypes /\ CallInv /\ CountExact
  BY TypeSplit DEF IInv
<1>2. UNCHANGED hdrs /\ late' = late /\ mixed' = mixed /\ events' = events /\ write_set' = write_set /\ active' = active
  BY DEF InsertEnter, AppendEnter, UndoEnter, DeleteEnter, history
<1>3. ASSUME NEW do \in {"INSERT", "APPEND", "DELETE"}, NEW undo \in BOOLEAN, NEW rid \in Rid, NEW fresh \in BOOLEAN,
             Enter(t, do, undo, rid, fresh),
             fresh => do = "APPEND",
             undo => /\ write_set[t] # <<>> /\ rid = Last(write_set[t]).rid
                     /\ do = IF Last(write_set[t]).type = "INSERT" THEN "DELETE" ELSE "INSERT",
             do = "APPEND" => IF fresh THEN first_free = RM_NO_PAGE ELSE rid[1] = first_free /\ rid[2] \notin bitmap[rid[1]],
             do = "DELETE" /\ ~undo => rid[2] \in bitmap[rid[1]],
             tlock' \in [Txn -> {"none", "IX", "SIX"}], owner' \in [Rid -> Txn \cup {NoTxn}],
             allocated' \in 0..MaxPages, ops' \in 0..MaxOps
      PROVE  IInv'
  <2>1. /\ call' \in [Txn -> Call \cup {NoCall}] /\ \A u \in Txn : u # t => call'[u] = call[u]
        /\ call'[t].do = do /\ call'[t].undo = undo /\ call'[t].rid = rid /\ call'[t].fresh = fresh
    BY <1>1, <1>3, EnterTypes
  <2>2. CtlTypes'
    BY <1>1, <1>2, <1>3, <2>1 DEF CtlTypes
  <2>3. CallInv'
    BY <1>1, <1>2, <1>3, <2>1, CallsKept
  <2> QED BY <1>2, <2>2, <2>3, QuietKeeps
<1>4. CASE InsertEnter(t)
  <2>1. PICK rid : rid = call[t].rid /\ Chosen(t, "INSERT") /\ Enter(t, "INSERT", FALSE, rid, FALSE)
    BY <1>4 DEF InsertEnter
  <2>2. rid \in Rid
    BY <1>1, <2>1 DEF Chosen, CtlTypes, Call, NoCall
  <2>3. /\ tlock' \in [Txn -> {"none", "IX", "SIX"}] /\ owner' \in [Rid -> Txn \cup {NoTxn}]
        /\ allocated' \in 0..MaxPages /\ ops' \in 0..MaxOps
    BY <1>1, <1>4 DEF InsertEnter, CtlTypes, locks
  <2> QED BY <1>3, <2>1, <2>2, <2>3
<1>5. CASE AppendEnter(t)
  <2>1. tlock' \in [Txn -> {"none", "IX", "SIX"}] /\ owner' \in [Rid -> Txn \cup {NoTxn}] /\ ops' \in 0..MaxOps
    BY <1>1, <1>5 DEF AppendEnter, CtlTypes, locks
  <2>2. CASE /\ first_free # RM_NO_PAGE /\ HeadSlot \in Rid
             /\ Enter(t, "APPEND", FALSE, HeadSlot, FALSE) /\ UNCHANGED allocated
    <3>1. PICK rid \in Rid : rid = HeadSlot
      BY <2>2
    <3>2. rid[1] = first_free /\ rid[2] = first_zero(first_free) /\ rid[1] \in Page /\ rid[2] \in Slot
      BY <3>1 DEF HeadSlot, Rid
    <3>3. rid[2] \notin bitmap[rid[1]]
      BY <1>1, <3>2, FirstZero
    <3>4. allocated' \in 0..MaxPages /\ Enter(t, "APPEND", FALSE, rid, FALSE)
      BY <1>1, <2>2, <3>1 DEF CtlTypes
    <3> QED BY <1>3, <2>1, <3>1, <3>2, <3>3, <3>4
  <2>3. CASE /\ first_free = RM_NO_PAGE /\ allocated < MaxPages
             /\ Enter(t, "APPEND", FALSE, <<allocated + 1, 0>>, TRUE) /\ allocated' = allocated + 1
    <3>1. allocated + 1 \in Page /\ 0 \in Slot /\ allocated + 1 \in 0..MaxPages
      BY <1>1, <2>3, Consts DEF CtlTypes, Slot
    <3>2. PICK rid \in Rid : rid = <<allocated + 1, 0>>
      BY <3>1 DEF Rid
    <3>3. Enter(t, "APPEND", FALSE, rid, TRUE) /\ allocated' \in 0..MaxPages /\ first_free = RM_NO_PAGE
      BY <2>3, <3>1, <3>2
    <3> QED BY <1>3, <2>1, <3>2, <3>3
  <2> QED BY <1>5, <2>2, <2>3 DEF AppendEnter
<1>6. CASE UndoEnter(t)
  <2>1. PICK w \in Seq(WriteRecord) : w = write_set[t] /\ w # <<>>
    BY <1>1, <1>6 DEF UndoEnter, CtlTypes
  <2>2. PICK wr \in WriteRecord : wr = Last(w) /\ wr.rid \in Rid
    <3>1. Last(w) \in WriteRecord
      BY <2>1 DEF Last
    <3> QED BY <3>1 DEF WriteRecord
  <2>3. PICK do \in {"INSERT", "DELETE"} : do = IF wr.type = "INSERT" THEN "DELETE" ELSE "INSERT"
    OBVIOUS
  <2>4. Enter(t, do, TRUE, wr.rid, FALSE)
    BY <1>6, <2>1, <2>2, <2>3 DEF UndoEnter
  <2>5. /\ tlock' \in [Txn -> {"none", "IX", "SIX"}] /\ owner' \in [Rid -> Txn \cup {NoTxn}]
        /\ allocated' \in 0..MaxPages /\ ops' \in 0..MaxOps
    BY <1>1, <1>6 DEF UndoEnter, CtlTypes, locks
  <2> QED BY <1>3, <2>1, <2>2, <2>3, <2>4, <2>5
<1>7. ASSUME NEW rid \in Rid, DeleteEnter(t, rid) PROVE IInv'
  <2>1. rid[2] \in bitmap[rid[1]] /\ Enter(t, "DELETE", FALSE, rid, FALSE)
    BY <1>7 DEF DeleteEnter
  <2>2. tlock' \in [Txn -> {"none", "IX", "SIX"}] /\ owner' \in [Rid -> Txn \cup {NoTxn}] /\ allocated' \in 0..MaxPages
    BY <1>1, <1>7 DEF DeleteEnter, TableLock, CtlTypes
  <2>3. ops' \in 0..MaxOps
    BY <1>1, <1>7, RmConstants DEF DeleteEnter, Change, CtlTypes
  <2> QED BY <1>3, <2>1, <2>2, <2>3
<1> QED BY <1>4, <1>5, <1>6, <1>7

LEMMA PredictKeeps == ASSUME IInv, "race" \notin events, NEW t \in Txn, InsertPredict(t) PROVE IInv'
<1>1. HdrTypes /\ CtlTypes /\ CallInv
  BY TypeSplit DEF IInv
<1>2. /\ UNCHANGED hdrs /\ late' = late /\ mixed' = mixed /\ events' = events /\ write_set' = write_set
      /\ active' = active /\ owner' = owner /\ allocated' = allocated
  BY DEF InsertPredict, history
<1>3. PICK c \in Call : call' = [call EXCEPT ![t] = c] /\ c.at = "chosen"
  <2>1. CASE call' = [call EXCEPT ![t] = [at |-> "chosen", do |-> "APPEND"]]
    <3>1. PICK c : c = [at |-> "chosen", do |-> "APPEND"]
      OBVIOUS
    <3>2. c \in Call /\ c.at = "chosen"
      BY <3>1 DEF Call
    <3> QED BY <2>1, <3>1, <3>2
  <2>2. CASE /\ HeadSlot \in Rid
             /\ call' = [call EXCEPT ![t] = [at |-> "chosen", do |-> "INSERT", rid |-> HeadSlot]]
    <3>1. PICK c : c = [at |-> "chosen", do |-> "INSERT", rid |-> HeadSlot]
      OBVIOUS
    <3>2. c \in Call /\ c.at = "chosen"
      BY <2>2, <3>1 DEF Call
    <3> QED BY <2>2, <3>1, <3>2
  <2> QED BY <2>1, <2>2 DEF InsertPredict
<1>4. /\ call' \in [Txn -> Call \cup {NoCall}] /\ Inside(t)' = FALSE
      /\ \A u \in Txn : u # t => call'[u] = call[u]
  BY <1>1, <1>3 DEF CtlTypes, Inside
<1>5. tlock' \in [Txn -> {"none", "IX", "SIX"}] /\ ops' \in 0..MaxOps
  BY <1>1, RmConstants DEF InsertPredict, TableLock, Change, CtlTypes
<1>6. CtlTypes'
  BY <1>1, <1>2, <1>4, <1>5 DEF CtlTypes
<1>7. CallInv'
  BY <1>1, <1>2, <1>4, CallsKept
<1> QED BY <1>2, <1>6, <1>7, QuietKeeps

LEMMA OthersKeep ==
  ASSUME IInv, "race" \notin events, NEW t \in Txn, Begin(t) \/ Commit(t) \/ Abort(t) \/ AbortEnd(t)
  PROVE  IInv'
<1>1. HdrTypes /\ CtlTypes /\ CallInv
  BY TypeSplit DEF IInv
<1>2. CASE Begin(t) \/ Abort(t)
  <2>1. /\ UNCHANGED hdrs /\ late' = late /\ mixed' = mixed /\ events' = events /\ write_set' = write_set
        /\ call' = call /\ owner' = owner /\ tlock' = tlock /\ allocated' = allocated /\ ops' = ops
    BY <1>2 DEF Begin, Abort, history, locks
  <2>2. active' \in [Txn -> {"no", "yes", "aborting"}]
    BY <1>1, <1>2 DEF Begin, Abort, CtlTypes
  <2>3. CtlTypes'
    BY <1>1, <2>1, <2>2 DEF CtlTypes
  <2>4. CallInv'
    BY <1>1, <2>1 DEF CallInv, Inside, hdrs
  <2> QED BY <2>1, <2>3, <2>4, QuietKeeps
<1>3. CASE Commit(t) \/ AbortEnd(t)
  <2>1. Unlock(t) /\ call[t] = NoCall
    BY <1>3 DEF Commit, AbortEnd
  <2>2. /\ UNCHANGED hdrs /\ late' = late /\ events' = events /\ write_set' = [write_set EXCEPT ![t] = <<>>]
        /\ call' = call /\ allocated' = allocated /\ ops' = ops /\ mixed' = mixed \ {t}
    BY <2>1 DEF Unlock
  <2>3. write_set' \in [Txn -> Seq(WriteRecord)]
    <3>1. <<>> \in Seq(WriteRecord)
      OBVIOUS
    <3> QED BY <1>1, <2>2, <3>1 DEF CtlTypes
  <2>4. /\ active' \in [Txn -> {"no", "yes", "aborting"}] /\ tlock' \in [Txn -> {"none", "IX", "SIX"}]
        /\ owner' \in [Rid -> Txn \cup {NoTxn}]
    BY <1>1, <2>1 DEF Unlock, CtlTypes
  <2>5. CtlTypes'
    BY <1>1, <2>2, <2>3, <2>4 DEF CtlTypes
  <2>6. write_set'[t] = <<>> /\ \A u \in Txn : u # t => write_set'[u] = write_set[u]
    BY <1>1, <2>2 DEF CtlTypes
  <2>7. Inside(t)' = FALSE
    BY <2>1, <2>2 DEF Inside
  <2>8. CallInv'
    BY <1>1, <2>2, <2>6, <2>7, CallsKept
  <2> QED BY <2>2, <2>5, <2>6, <2>8, QuietKeeps
<1> QED BY <1>2, <1>3

LEMMA NextKeeps == ASSUME IInv, [Next]_vars PROVE IInv'
<1>1. CASE UNCHANGED vars
  <2>1. UNCHANGED hdrs /\ write_set' = write_set /\ events' = events /\ mixed' = mixed
    BY <1>1 DEF vars, hdrs
  <2>2. CtlTypes'
    BY <1>1, TypeSplit DEF vars, IInv, CtlTypes
  <2>3. "race" \notin events => CallInv'
    BY <1>1 DEF vars, IInv, CallInv, Inside
  <2> QED BY <2>1, <2>2, <2>3, QuietKeeps
<1>2. ASSUME NEW t \in Txn, Step(t), "race" \notin events PROVE IInv'
  BY <1>2, InsertKeeps, DeleteKeeps, UndoKeeps, EnterKeeps, PredictKeeps, OthersKeep DEF Step
<1> QED BY <1>1, <1>2 DEF Next

-----------------------------------------------------------------------------
(* The walk along the headers finds the list.                              *)

(* One step of Chain.                                                      *)
Hop(c, n) ==
  LET q == IF c = <<>> THEN first_free ELSE next_free[Last(c)]
  IN  IF q = RM_NO_PAGE \/ (n > 1 /\ Len(c) < n - 1) THEN c ELSE Append(c, q)

Upto(L, n) == SubSeq(L, 1, IF n <= Len(L) THEN n ELSE Len(L))

LEMMA SeqSame ==
  ASSUME NEW n \in Nat, NEW s \in Seq(Page), NEW t \in Seq(Page), Len(s) = n, Len(t) = n,
         \A i \in 1..n : s[i] = t[i]
  PROVE  s = t
OBVIOUS

LEMMA HopOn ==
  ASSUME NEW L \in Seq(Page), Linked(L, first_free, next_free), NEW n \in 1..(MaxPages + 1)
  PROVE  Hop(Upto(L, n - 1), n) = Upto(L, n)
<1>1. n \in Nat /\ n >= 1 /\ Len(L) \in Nat /\ RM_NO_PAGE \notin Page
  BY Consts
<1>2. CASE n <= Len(L)
  <2>1. PICK c \in Seq(Page) : c = Upto(L, n - 1) /\ Len(c) = n - 1 /\ \A i \in 1..(n - 1) : c[i] = L[i]
    <3>1. Upto(L, n - 1) = SubSeq(L, 1, n - 1)
      BY <1>1, <1>2 DEF Upto
    <3>2. SubSeq(L, 1, n - 1) \in Seq(Page) /\ Len(SubSeq(L, 1, n - 1)) = n - 1
      BY <1>1, <1>2
    <3>3. \A i \in 1..(n - 1) : SubSeq(L, 1, n - 1)[i] = L[i]
      BY <1>1, <1>2
    <3> QED BY <3>1, <3>2, <3>3
  <2>2. L[n] \in Page /\ L # <<>>
    BY <1>1, <1>2
  <2>3. (IF c = <<>> THEN first_free ELSE next_free[Last(c)]) = L[n]
    <3>1. CASE n = 1
      <4>1. c = <<>>
        BY <2>1, <3>1
      <4> QED BY <2>2, <3>1, <4>1 DEF Linked
    <3>2. CASE n # 1
      <4>1. c # <<>> /\ Last(c) = L[n - 1] /\ n - 1 \in 1..Len(L) /\ n - 1 # Len(L) /\ (n - 1) + 1 = n
        BY <1>1, <1>2, <2>1, <3>2 DEF Last
      <4> QED BY <4>1 DEF Linked
    <3> QED BY <3>1, <3>2
  <2>4. Hop(c, n) = Append(c, L[n])
    BY <1>1, <2>1, <2>2, <2>3 DEF Hop
  <2>5. Append(c, L[n]) = Upto(L, n)
    <3>1. Upto(L, n) = SubSeq(L, 1, n)
      BY <1>1, <1>2 DEF Upto
    <3>2. SubSeq(L, 1, n) \in Seq(Page) /\ Len(SubSeq(L, 1, n)) = n /\ \A i \in 1..n : SubSeq(L, 1, n)[i] = L[i]
      BY <1>1, <1>2
    <3>3. Append(c, L[n]) \in Seq(Page) /\ Len(Append(c, L[n])) = n /\ \A i \in 1..n : Append(c, L[n])[i] = L[i]
      BY <1>1, <1>2, <2>1, <2>2
    <3>4. \A i \in 1..n : Append(c, L[n])[i] = SubSeq(L, 1, n)[i]
      BY <3>2, <3>3
    <3> QED BY <1>1, <3>1, <3>2, <3>3, <3>4, SeqSame
  <2> QED BY <2>1, <2>4, <2>5
<1>3. CASE n > Len(L)
  <2>1. Upto(L, n - 1) = L /\ Upto(L, n) = L
    <3>1. SubSeq(L, 1, Len(L)) = L
      BY <1>1
    <3>2. Upto(L, n - 1) = SubSeq(L, 1, Len(L)) /\ Upto(L, n) = SubSeq(L, 1, Len(L))
      BY <1>1, <1>3 DEF Upto
    <3> QED BY <3>1, <3>2
  <2>2. (IF L = <<>> THEN first_free ELSE next_free[Last(L)]) = RM_NO_PAGE
    <3>1. CASE L = <<>>
      BY <3>1 DEF Linked
    <3>2. CASE L # <<>>
      <4>1. Last(L) = L[Len(L)] /\ Len(L) \in 1..Len(L)
        BY <1>1, <3>2 DEF Last
      <4> QED BY <3>2, <4>1 DEF Linked
    <3> QED BY <3>1, <3>2
  <2> QED BY <2>1, <2>2 DEF Hop
<1> QED BY <1>1, <1>2, <1>3

LEMMA ChainEq ==
  ASSUME NEW L \in Seq(Page), Linked(L, first_free, next_free)
  PROVE  \A n \in 0..(MaxPages + 1) : Chain[n] = IF n = 0 THEN <<>> ELSE Hop(Chain[n - 1], n)
<1> DEFINE Body(f) == [n \in 0..(MaxPages + 1) |-> IF n = 0 THEN <<>> ELSE Hop(f[n - 1], n)]
           u == [n \in 0..(MaxPages + 1) |-> Upto(L, n)]
<1>1. ASSUME NEW n \in 0..(MaxPages + 1) PROVE u[n] = IF n = 0 THEN <<>> ELSE Hop(u[n - 1], n)
  <2>1. CASE n = 0
    <3>1. SubSeq(L, 1, 0) = <<>>
      OBVIOUS
    <3> QED BY <2>1, <3>1 DEF Upto
  <2>2. CASE n # 0
    <3>1. n \in 1..(MaxPages + 1) /\ n - 1 \in 0..(MaxPages + 1)
      BY <2>2, Consts
    <3>2. u[n] = Upto(L, n) /\ u[n - 1] = Upto(L, n - 1)
      BY <3>1
    <3> QED BY <2>2, <3>1, <3>2, HopOn
  <2> QED BY <2>1, <2>2
<1>2. u = Body(u)
  BY <1>1
<1>3. Chain = CHOOSE f : f = Body(f)
  BY DEF Chain, Hop
<1> HIDE DEF Body, u
<1>4. Chain = Body(Chain)
  BY <1>2, <1>3
<1> QED BY <1>4 DEF Body

LEMMA ChainIs ==
  ASSUME NEW L \in Seq(Page), Linked(L, first_free, next_free)
  PROVE  Chain[MaxPages + 1] = Upto(L, MaxPages + 1)
<1>1. PICK Good : Good = {n \in 0..(MaxPages + 1) : Chain[n] = Upto(L, n)}
  OBVIOUS
<1>2. 0 \in Good
  <2>1. SubSeq(L, 1, 0) = <<>> /\ Upto(L, 0) = SubSeq(L, 1, 0)
    BY DEF Upto
  <2>2. 0 \in 0..(MaxPages + 1)
    BY Consts
  <2>3. Chain[0] = <<>>
    BY <2>2, ChainEq
  <2> QED BY <1>1, <2>1, <2>2, <2>3
<1>3. ASSUME NEW n \in 1..(MaxPages + 1), n - 1 \in Good PROVE n \in Good
  <2>1. n \in 0..(MaxPages + 1) /\ n # 0
    BY Consts
  <2>2. Chain[n] = Hop(Chain[n - 1], n)
    BY <2>1, ChainEq
  <2> QED BY <1>1, <1>3, <2>1, <2>2, HopOn
<1>4. MaxPages + 1 \in Nat /\ Good \in SUBSET (0..(MaxPages + 1))
  BY <1>1, Consts
<1>5. MaxPages + 1 \in Good
  BY <1>2, <1>3, <1>4, StepsKeep
<1> QED BY <1>1, <1>5

(* A list without repetition is no longer than the file.                   *)
LEMMA ListLen == ASSUME NEW L \in Seq(Page), Distinct(L) PROVE Len(L) <= MaxPages
<1>1. IsFiniteSet(Page) /\ Cardinality(Page) = MaxPages
  <2>1. 1 \in Int /\ MaxPages \in Int /\ ~(1 > MaxPages) /\ MaxPages - 1 + 1 = MaxPages
    BY Consts
  <2> QED BY <2>1, Consts, FS_Interval
<1>2. IsFiniteSet(1..Len(L)) /\ Cardinality(1..Len(L)) = Len(L) /\ Len(L) \in Nat
  <2>1. Len(L) \in Nat /\ 1 \in Int /\ Len(L) \in Int /\ Len(L) - 1 + 1 = Len(L)
    OBVIOUS
  <2>2. 1 > Len(L) => Len(L) = 0
    BY <2>1
  <2> QED BY <2>1, <2>2, FS_Interval
<1>3. L \in [1..Len(L) -> Page]
  OBVIOUS
<1>4. SUFFICES ASSUME ~(Len(L) <= MaxPages) PROVE FALSE
  OBVIOUS
<1>5. Cardinality(Page) < Cardinality(1..Len(L))
  BY <1>1, <1>2, <1>4, Consts
<1>6. \E i, j \in 1..Len(L) : i # j /\ L[i] = L[j]
  BY <1>1, <1>2, <1>3, <1>5, FS_PigeonHole
<1> QED BY <1>6 DEF Distinct

LEMMA ListExact == IInv => SpaceExact
<1> SUFFICES ASSUME IInv PROVE SpaceExact
  OBVIOUS
<1>0. TypeOK /\ CountsUnlessRaced
  BY DEF IInv, CountsUnlessRaced
<1> SUFFICES ASSUME events = {} PROVE FreeListExact /\ HeadHasRoom
  BY <1>0 DEF SpaceExact
<1>1. bitmap \in [Page -> SUBSET Slot]
  BY <1>0 DEF TypeOK
<1>2. PICK L \in Seq(Page) : ListInv(L)
  BY DEF IInv, ListInv
<1>3. PICK s : s = Now(bitmap, L) /\ s.bits = bitmap /\ s.list = L
  BY NowIs
<1>4. Distinct(L) /\ \A p \in Page : In(L, p) <=> p <= num_pages /\ Cardinality(bitmap[p]) # Slots
  BY <1>2, <1>3 DEF ListInv, Sound
<1>5. Linked(L, first_free, next_free) /\ num_pages \in 0..MaxPages
  BY <1>2 DEF ListInv
<1>6. Len(L) <= MaxPages
  BY <1>4, ListLen
<1>7. FreeListExact
  <2>1. Chain[MaxPages + 1] = L
    <3>1. Len(L) \in Nat /\ SubSeq(L, 1, Len(L)) = L
      OBVIOUS
    <3>2. Upto(L, MaxPages + 1) = SubSeq(L, 1, Len(L))
      <4>1. MaxPages \in Nat /\ ~(MaxPages + 1 <= Len(L))
        BY <1>6, <3>1, Consts
      <4> QED BY <4>1 DEF Upto
    <3> QED BY <1>5, <3>1, <3>2, ChainIs
  <2>2. ToSet(L) = {p \in Page : In(L, p)}
    BY DEF ToSet, In
  <2>3. \A p \in Page : Cardinality(bitmap[p]) # Slots <=> Cardinality(bitmap[p]) < Slots
    BY <1>1, Bits, Consts
  <2>4. {p \in 1..num_pages : Cardinality(bitmap[p]) < Slots} = {p \in Page : In(L, p)}
    BY <1>1, <1>4, <1>5, <2>3, Consts
  <2> QED BY <1>6, <2>1, <2>2, <2>4 DEF FreeListExact
<1>8. HeadHasRoom
  <2> SUFFICES ASSUME first_free # RM_NO_PAGE PROVE first_zero(first_free) < Slots
    BY DEF HeadHasRoom
  <2>1. PICK p \in Page : p = first_free /\ Cardinality(bitmap[p]) # Slots
    <3>1. L # <<>> /\ first_free = L[1]
      BY <1>5 DEF Linked
    <3>2. L[1] \in Page /\ In(L, L[1])
      BY <1>4, <3>1, Popped
    <3> QED BY <1>4, <3>1, <3>2
  <2>2. PICK x \in Slot : x \notin bitmap[p]
    BY <1>1, <2>1, Bits
  <2>3. PICK Z : Z = {y \in Slot : y \notin bitmap[p]} \cup {Slots}
    OBVIOUS
  <2>4. Z \subseteq Nat /\ x \in Z /\ x < Slots /\ x \in Nat /\ Slots \in Nat
    BY <2>2, <2>3, Consts DEF Slot
  <2>5. \E z \in Z : \A y \in Z : z <= y
    BY <2>4, LeastNat
  <2>6. PICK m \in Z : m = (CHOOSE z \in Z : \A y \in Z : z <= y) /\ \A y \in Z : m <= y
    BY <2>5
  <2>7. first_zero(p) = m
    BY <2>3, <2>6 DEF first_zero, Min
  <2>8. m \in Nat /\ m <= x
    BY <2>4, <2>6
  <2>9. m < Slots
    BY <2>4, <2>8
  <2> QED BY <2>1, <2>7, <2>9
<1> QED BY <1>7, <1>8

(* Whatever any number of sessions insert, delete and roll back at the     *)
(* same time: num_records counts the bits of every page until two calls    *)
(* race, and the free list that insert_record and delete_record thread     *)
(* through the page headers ends, repeats no page, holds exactly the pages *)
(* with a free slot and has room at its head, until a race, an INSERT at a *)
(* stale slot or a DELETE undone on a changed file.                        *)
THEOREM SpaceExactAlways == Spec => []SpaceExact
<1>1. Init => IInv
  BY InitIInv
<1>2. IInv /\ [Next]_vars => IInv'
  BY NextKeeps
<1>3. IInv => SpaceExact
  BY ListExact
<1> QED BY <1>1, <1>2, <1>3, PTL DEF Spec
=============================================================================
