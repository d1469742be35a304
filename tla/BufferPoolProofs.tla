-------------------------- MODULE BufferPoolProofs --------------------------
(***************************************************************************)
(* Proofs about BufferPool: for any number of frames, files, pages and     *)
(* callers, and any number of failing reads and writes.                    *)
(***************************************************************************)
EXTENDS BufferPool, FiniteSetTheorems, WellFoundedInduction, TLAPS

-----------------------------------------------------------------------------
(* Lists without repetition: free_list_ and LRUlist_.                      *)

Distinct(s) == \A i, j \in 1..Len(s) : s[i] = s[j] => i = j

LEMMA TailList ==
  ASSUME NEW S, NEW s \in Seq(S), s # <<>>, Distinct(s)
  PROVE  /\ Head(s) \in S /\ Contains(s, Head(s)) /\ Tail(s) \in Seq(S) /\ Distinct(Tail(s))
         /\ \A e : Contains(Tail(s), e) <=> Contains(s, e) /\ e # Head(s)
<1>1. /\ Len(s) \in Nat \ {0} /\ Head(s) = s[1] /\ Tail(s) \in Seq(S) /\ Len(Tail(s)) = Len(s) - 1
      /\ \A i \in 1..(Len(s) - 1) : Tail(s)[i] = s[i + 1]
  OBVIOUS
<1>2. Distinct(Tail(s))
  BY <1>1 DEF Distinct
<1>3. ASSUME NEW e PROVE Contains(Tail(s), e) <=> Contains(s, e) /\ e # Head(s)
  <2>1. ASSUME Contains(Tail(s), e) PROVE Contains(s, e) /\ e # Head(s)
    <3>1. PICK i \in 1..Len(Tail(s)) : Tail(s)[i] = e
      BY <2>1 DEF Contains
    <3>2. i + 1 \in 1..Len(s) /\ s[i + 1] = e /\ i + 1 # 1
      BY <1>1, <3>1
    <3> QED BY <1>1, <3>2 DEF Contains, Distinct
  <2>2. ASSUME Contains(s, e), e # Head(s) PROVE Contains(Tail(s), e)
    <3>1. PICK i \in 1..Len(s) : s[i] = e
      BY <2>2 DEF Contains
    <3>2. i - 1 \in 1..Len(Tail(s)) /\ Tail(s)[i - 1] = e
      BY <1>1, <2>2, <3>1
    <3> QED BY <3>2 DEF Contains
  <2> QED BY <2>1, <2>2
<1>4. Head(s) \in S /\ Contains(s, Head(s))
  BY <1>1 DEF Contains
<1> QED BY <1>1, <1>2, <1>3, <1>4

LEMMA FrontList ==
  ASSUME NEW S, NEW s \in Seq(S), s # <<>>, Distinct(s)
  PROVE  /\ Last(s) \in S /\ Contains(s, Last(s)) /\ Front(s) \in Seq(S) /\ Distinct(Front(s))
         /\ \A e : Contains(Front(s), e) <=> Contains(s, e) /\ e # Last(s)
<1>1. /\ Len(s) \in Nat \ {0} /\ Last(s) = s[Len(s)] /\ Front(s) \in Seq(S) /\ Len(Front(s)) = Len(s) - 1
      /\ \A i \in 1..(Len(s) - 1) : Front(s)[i] = s[i]
  <2>1. Len(s) \in Nat \ {0} /\ Last(s) = s[Len(s)]
    BY DEF Last
  <2> DEFINE m == Len(s) - 1
  <2>2. m \in Nat /\ m <= Len(s) /\ Front(s) = SubSeq(s, 1, m)
    BY <2>1 DEF Front
  <2> HIDE DEF m
  <2>3. Front(s) \in Seq(S) /\ Len(Front(s)) = m
    BY <2>1, <2>2
  <2>4. m = Len(s) - 1
    BY DEF m
  <2>5. \A i \in 1..m : Front(s)[i] = s[i]
    BY <2>1, <2>2
  <2> QED BY <2>1, <2>3, <2>4, <2>5
<1>2. Distinct(Front(s))
  BY <1>1 DEF Distinct
<1>3. ASSUME NEW e PROVE Contains(Front(s), e) <=> Contains(s, e) /\ e # Last(s)
  BY <1>1 DEF Contains, Distinct
<1>4. Last(s) \in S /\ Contains(s, Last(s))
  BY <1>1 DEF Contains
<1> QED BY <1>1, <1>2, <1>3, <1>4

LEMMA RemoveAtList ==
  ASSUME NEW S, NEW s \in Seq(S), Distinct(s), NEW k \in 1..Len(s)
  PROVE  /\ RemoveAt(s, k) \in Seq(S) /\ Distinct(RemoveAt(s, k))
         /\ \A e : Contains(RemoveAt(s, k), e) <=> Contains(s, e) /\ e # s[k]
<1> DEFINE t == RemoveAt(s, k)
<1>1. /\ t \in Seq(S) /\ Len(t) = Len(s) - 1 /\ Len(s) \in Nat
      /\ \A i \in 1..(Len(s) - 1) : t[i] = IF i < k THEN s[i] ELSE s[i + 1]
  <2> DEFINE a == SubSeq(s, 1, k - 1)
             b == SubSeq(s, k + 1, Len(s))
  <2>1. /\ a \in Seq(S) /\ Len(a) = k - 1 /\ Len(s) \in Nat
        /\ \A i \in 1..(k - 1) : a[i] = s[i]
    OBVIOUS
  <2>2. b \in Seq(S) /\ Len(b) = Len(s) - k
    OBVIOUS
  <2>3. \A i \in 1..(Len(s) - k) : b[i] = s[i + k]
    OBVIOUS
  <2>4. t = a \o b
    BY DEF RemoveAt
  <2> HIDE DEF a, b, t
  <2>5. t \in Seq(S) /\ Len(t) = Len(s) - 1
    BY <2>1, <2>2, <2>4
  <2>6. ASSUME NEW i \in 1..(Len(s) - 1) PROVE t[i] = IF i < k THEN s[i] ELSE s[i + 1]
    <3>1. CASE i < k
      BY <2>1, <2>2, <2>4, <3>1
    <3>2. CASE ~(i < k)
      <4>1. i - (k - 1) \in 1..(Len(s) - k) /\ t[i] = b[i - (k - 1)]
        BY <2>1, <2>2, <2>4, <3>2
      <4>2. b[i - (k - 1)] = s[(i - (k - 1)) + k]
        BY <2>3, <4>1
      <4> QED BY <3>2, <4>1, <4>2
    <3> QED BY <3>1, <3>2
  <2> QED BY <2>1, <2>5, <2>6
<1> HIDE DEF t
<1>2. Distinct(t)
  BY <1>1 DEF Distinct
<1>3. ASSUME NEW e PROVE Contains(t, e) <=> Contains(s, e) /\ e # s[k]
  <2>1. ASSUME Contains(t, e) PROVE Contains(s, e) /\ e # s[k]
    <3>1. PICK i \in 1..Len(t) : t[i] = e
      BY <2>1 DEF Contains
    <3>2. PICK j \in 1..Len(s) : s[j] = e /\ j # k
      BY <1>1, <3>1
    <3> QED BY <1>1, <3>2 DEF Contains, Distinct
  <2>2. ASSUME Contains(s, e), e # s[k] PROVE Contains(t, e)
    <3>1. PICK i \in 1..Len(s) : s[i] = e /\ i # k
      BY <2>2 DEF Contains
    <3>2. CASE i < k
      BY <1>1, <3>1, <3>2 DEF Contains
    <3>3. CASE i > k
      <4>1. i - 1 \in 1..Len(t) /\ t[i - 1] = e
        BY <1>1, <3>1, <3>3
      <4> QED BY <4>1 DEF Contains
    <3> QED BY <3>1, <3>2, <3>3
  <2> QED BY <2>1, <2>2
<1> QED BY <1>1, <1>2, <1>3 DEF t

LEMMA ConcatList ==
  ASSUME NEW S, NEW s \in Seq(S), NEW t \in Seq(S)
  PROVE  /\ s \o t \in Seq(S)
         /\ \A e : Contains(s \o t, e) <=> Contains(s, e) \/ Contains(t, e)
         /\ Distinct(s) /\ Distinct(t) /\ (\A e \in S : ~(Contains(s, e) /\ Contains(t, e))) => Distinct(s \o t)
<1>1. /\ s \o t \in Seq(S) /\ Len(s \o t) = Len(s) + Len(t) /\ Len(s) \in Nat /\ Len(t) \in Nat
      /\ \A i \in 1..Len(s \o t) : (s \o t)[i] = IF i <= Len(s) THEN s[i] ELSE t[i - Len(s)]
  OBVIOUS
<1>2. ASSUME NEW e PROVE Contains(s \o t, e) <=> Contains(s, e) \/ Contains(t, e)
  <2>1. Contains(s \o t, e) => Contains(s, e) \/ Contains(t, e)
    BY <1>1 DEF Contains
  <2>2. Contains(s, e) => Contains(s \o t, e)
    BY <1>1 DEF Contains
  <2>3. ASSUME Contains(t, e) PROVE Contains(s \o t, e)
    <3>1. PICK i \in 1..Len(t) : t[i] = e
      BY <2>3 DEF Contains
    <3>2. Len(s) + i \in 1..Len(s \o t) /\ (s \o t)[Len(s) + i] = e
      BY <1>1, <3>1
    <3> QED BY <3>2 DEF Contains
  <2> QED BY <2>1, <2>2, <2>3
<1>3. ASSUME Distinct(s), Distinct(t), \A e \in S : ~(Contains(s, e) /\ Contains(t, e))
      PROVE  Distinct(s \o t)
  <2> SUFFICES ASSUME NEW i \in 1..Len(s \o t), NEW j \in 1..Len(s \o t), (s \o t)[i] = (s \o t)[j], i <= j
               PROVE  i = j
    BY <1>1 DEF Distinct
  <2>1. CASE i <= Len(s) /\ j <= Len(s)
    BY <1>1, <1>3, <2>1 DEF Distinct
  <2>2. CASE i > Len(s) /\ j > Len(s)
    <3>1. i - Len(s) \in 1..Len(t) /\ j - Len(s) \in 1..Len(t) /\ t[i - Len(s)] = t[j - Len(s)]
      BY <1>1, <2>2
    <3>2. i - Len(s) = j - Len(s)
      BY <1>3, <3>1 DEF Distinct
    <3> QED BY <1>1, <3>2
  <2>3. CASE i <= Len(s) /\ j > Len(s)
    <3>1. i \in 1..Len(s) /\ j - Len(s) \in 1..Len(t) /\ s[i] = t[j - Len(s)] /\ s[i] \in S
      BY <1>1, <2>3
    <3> QED BY <1>3, <3>1 DEF Contains
  <2> QED BY <1>1, <2>1, <2>2, <2>3
<1> QED BY <1>1, <1>2, <1>3

LEMMA ConsList ==
  ASSUME NEW S, NEW s \in Seq(S), Distinct(s), NEW e \in S, ~Contains(s, e)
  PROVE  /\ <<e>> \o s \in Seq(S) /\ Distinct(<<e>> \o s)
         /\ \A g : Contains(<<e>> \o s, g) <=> Contains(s, g) \/ g = e
<1>1. <<e>> \in Seq(S) /\ Distinct(<<e>>) /\ \A g : Contains(<<e>>, g) <=> g = e
  BY DEF Distinct, Contains
<1> DEFINE t == <<e>>
<1> HIDE DEF t
<1>2. t \in Seq(S) /\ Distinct(t) /\ \A g : Contains(t, g) <=> g = e
  BY <1>1 DEF t
<1>3. /\ t \o s \in Seq(S)
      /\ \A g : Contains(t \o s, g) <=> Contains(t, g) \/ Contains(s, g)
      /\ Distinct(t) /\ Distinct(s) /\ (\A g \in S : ~(Contains(t, g) /\ Contains(s, g))) => Distinct(t \o s)
  BY <1>2, ConcatList
<1> QED BY <1>2, <1>3, Zenon DEF t

LEMMA AscendingList ==
  ASSUME NEW S \in SUBSET Nat, NEW max \in Nat, NEW s \in Ascending(S, max)
  PROVE  /\ s \in Seq(S) /\ Distinct(s) /\ DOMAIN s = 1..Len(s)
         /\ \A n : Contains(s, n) <=> n \in S
<1>1. PICK m \in 0..max : s \in [1..m -> S]
  BY DEF Ascending, SeqOf
<1>2. s \in Seq(S) /\ Len(s) = m /\ DOMAIN s = 1..Len(s) /\ \A i \in 1..Len(s) : s[i] \in S
  BY <1>1
<1>3. \A i, j \in 1..Len(s) : i < j => s[i] < s[j]
  BY <1>2 DEF Ascending
<1>4. Distinct(s)
  <2> SUFFICES ASSUME NEW i \in 1..Len(s), NEW j \in 1..Len(s), s[i] = s[j], i # j PROVE FALSE
    BY DEF Distinct
  <2>1. s[i] \in Nat /\ s[j] \in Nat
    BY <1>2
  <2>2. i < j \/ j < i
    BY <1>2
  <2> QED BY <1>3, <2>1, <2>2
<1>5. ASSUME NEW n PROVE Contains(s, n) <=> n \in S
  <2>1. n \in S => Contains(s, n)
    BY Zenon DEF Ascending
  <2> QED BY <1>2, <2>1 DEF Contains
<1> QED BY <1>2, <1>4, <1>5

LEMMA MapList ==
  ASSUME NEW S, NEW T, NEW s \in Seq(S), Distinct(s), NEW m \in [S -> T],
         \A x, y \in S : m[x] = m[y] => x = y,
         NEW t \in Seq(T), Len(t) = Len(s), \A i \in 1..Len(s) : t[i] = m[s[i]]
  PROVE  Distinct(t) /\ \A e : Contains(t, e) <=> \E x \in S : Contains(s, x) /\ m[x] = e
<1>1. Len(s) \in Nat /\ \A i \in 1..Len(s) : s[i] \in S
  OBVIOUS
<1>2. Distinct(t)
  BY <1>1 DEF Distinct
<1>3. ASSUME NEW e PROVE Contains(t, e) <=> \E x \in S : Contains(s, x) /\ m[x] = e
  BY <1>1 DEF Contains
<1> QED BY <1>2, <1>3

-----------------------------------------------------------------------------
(* The inductive invariant.                                                *)

(* A descriptor is open for one file, and a file is open once.             *)
FilesInv ==
  /\ \A fd \in Fd : file_of[fd] # NoFile => file_of[fd] \in created
  /\ \A fd, e \in Fd : file_of[fd] = file_of[e] /\ file_of[fd] # NoFile => fd = e

HandleTypes == \A h \in Handle : handle[h].page # NoPage => handle[h].frame \in Frame

(* The callers that have pinned the page in frame f.                       *)
Holders(f) == {h \in Handle : handle[h].page # NoPage /\ page_table[handle[h].page] = f}

(* page_table_ and id_ are inverse, and hold only pages of open files.     *)
MapInv ==
  /\ \A p \in PageId : page_table[p] # NoFrame => frames[page_table[p]].id = p /\ Allocated(p)
  /\ \A f \in Frame : frames[f].id # NoPage => page_table[frames[f].id] = f

PinInv ==
  /\ \A f \in Frame : frames[f].pin = Cardinality(Holders(f))
  /\ \A h \in Handle : handle[h].page # NoPage => page_table[handle[h].page] = handle[h].frame

(* A free frame holds no page; an evictable one holds one nobody uses.     *)
ListInv ==
  /\ Distinct(free_list) /\ Distinct(LRUlist)
  /\ \A f \in Frame : Contains(free_list, f) => frames[f].id = NoPage
  /\ \A f \in Frame : Contains(LRUlist, f) => frames[f].id # NoPage /\ frames[f].pin = 0

PoolInv == MapInv /\ PinInv /\ ListInv

AllListed == \A f \in Frame : frames[f].pin = 0 => Contains(free_list, f) \/ Contains(LRUlist, f)

(* A clean frame that no holder has written is the page on disk, and a     *)
(* page that is not in the pool has been written there.                    *)
CleanInv ==
  \A f \in Frame :
    (/\ frames[f].id # NoPage /\ ~frames[f].dirty
     /\ \A h \in Handle : ~(handle[h].page = frames[f].id /\ handle[h].wrote))
    => disk[Place(frames[f].id)] = frames[f].data

OnDiskInv == \A p \in PageId : Allocated(p) /\ page_table[p] = NoFrame => disk[Place(p)] # Absent

DiskInv == AllListed /\ CleanInv /\ OnDiskInv

IInv == TypeOK /\ FilesInv /\ HandleTypes /\ (TablesKept => PoolInv) /\ (Intact => DiskInv)

-----------------------------------------------------------------------------
(* An unpinned frame, and a free one, is in nobody's hands.                *)
LEMMA NoHolder ==
  ASSUME TypeOK, PoolInv, NEW f \in Frame
  PROVE  /\ frames[f].pin = 0 <=> Holders(f) = {}
         /\ frames[f].id = NoPage => Holders(f) = {}
<1>1. IsFiniteSet(Holders(f))
  BY PoolConstants, FS_Subset DEF Holders
<1>2. frames[f].pin = Cardinality(Holders(f))
  BY DEF PoolInv, PinInv
<1>3. frames[f].id = NoPage => Holders(f) = {}
  <2> SUFFICES ASSUME frames[f].id = NoPage, NEW h \in Handle,
                      handle[h].page # NoPage, page_table[handle[h].page] = f
               PROVE  FALSE
    BY DEF Holders
  <2>1. handle[h].page \in PageId
    BY DEF TypeOK
  <2>2. f # NoFrame
    BY PoolConstants DEF Frame
  <2>3. frames[f].id = handle[h].page
    BY <2>1, <2>2 DEF PoolInv, MapInv
  <2> QED BY <2>3
<1> QED BY <1>1, <1>2, <1>3, FS_EmptySet

(* find_victim_page takes a frame out of its list.                         *)
LEMMA VictimTypes ==
  ASSUME TypeOK, HasVictim, find_victim_page
  PROVE  Victim \in Frame /\ free_list' \in Seq(Frame) /\ LRUlist' \in Seq(Frame)
<1>1. CASE free_list # <<>>
  <2>1. Victim = Head(free_list) /\ free_list' = Tail(free_list) /\ LRUlist' = LRUlist
    BY <1>1 DEF Victim, find_victim_page
  <2> QED BY <1>1, <2>1 DEF TypeOK
<1>2. CASE free_list = <<>>
  <2>1. LRUlist # <<>> /\ Victim = Last(LRUlist) /\ LRUlist' = Front(LRUlist) /\ free_list' = free_list
    BY <1>2 DEF HasVictim, Victim, find_victim_page
  <2> QED BY <2>1 DEF TypeOK, Last, Front
<1> QED BY <1>1, <1>2

Without(f) ==
  /\ Distinct(free_list') /\ Distinct(LRUlist')
  /\ \A g \in Frame : Contains(free_list', g) <=> Contains(free_list, g) /\ g # f
  /\ \A g \in Frame : Contains(LRUlist', g) <=> Contains(LRUlist, g) /\ g # f

LEMMA VictimFacts ==
  ASSUME TypeOK, PoolInv, HasVictim, find_victim_page
  PROVE  Victim \in Frame /\ frames[Victim].pin = 0 /\ Holders(Victim) = {} /\ Without(Victim)
<1>0. Victim \in Frame /\ free_list \in Seq(Frame) /\ LRUlist \in Seq(Frame) /\ ListInv
  BY VictimTypes DEF TypeOK, PoolInv
<1>1. CASE free_list # <<>>
  <2>1. Victim = Head(free_list) /\ free_list' = Tail(free_list) /\ LRUlist' = LRUlist
    BY <1>1 DEF Victim, find_victim_page
  <2>2. /\ Contains(free_list, Victim) /\ Distinct(free_list')
        /\ \A e : Contains(free_list', e) <=> Contains(free_list, e) /\ e # Victim
    BY <1>0, <1>1, <2>1, TailList DEF ListInv
  <2>3. frames[Victim].id = NoPage /\ ~Contains(LRUlist, Victim)
    BY <1>0, <2>2 DEF ListInv
  <2>4. Holders(Victim) = {} /\ frames[Victim].pin = 0
    BY <1>0, <2>3, NoHolder
  <2> QED BY <1>0, <2>1, <2>2, <2>3, <2>4 DEF Without, ListInv
<1>2. CASE free_list = <<>>
  <2>1. LRUlist # <<>> /\ Victim = Last(LRUlist) /\ LRUlist' = Front(LRUlist) /\ free_list' = free_list
    BY <1>2 DEF HasVictim, Victim, find_victim_page
  <2>2. /\ Contains(LRUlist, Victim) /\ Distinct(LRUlist')
        /\ \A e : Contains(LRUlist', e) <=> Contains(LRUlist, e) /\ e # Victim
    BY <1>0, <2>1, FrontList DEF ListInv
  <2>3. frames[Victim].pin = 0 /\ ~Contains(free_list, Victim)
    BY <1>0, <2>2 DEF ListInv
  <2>4. Holders(Victim) = {}
    BY <1>0, <2>3, NoHolder
  <2> QED BY <1>0, <2>1, <2>2, <2>3, <2>4 DEF Without, ListInv
<1> QED BY <1>1, <1>2

LEMMA PinTypes ==
  ASSUME NEW f, LRUlist \in Seq(Frame), pin(f)
  PROVE  LRUlist' \in Seq(Frame)
<1>1. CASE Contains(LRUlist, f)
  <2> DEFINE k == CHOOSE i \in DOMAIN LRUlist : LRUlist[i] = f
  <2>1. \E i \in DOMAIN LRUlist : LRUlist[i] = f
    BY <1>1 DEF Contains
  <2>2. k \in 1..Len(LRUlist) /\ LRUlist' = RemoveAt(LRUlist, k)
    BY <1>1, <2>1 DEF pin
  <2> HIDE DEF k
  <2>3. SubSeq(LRUlist, 1, k - 1) \in Seq(Frame) /\ SubSeq(LRUlist, k + 1, Len(LRUlist)) \in Seq(Frame)
    BY <2>2
  <2> QED BY <2>2, <2>3 DEF RemoveAt
<1>2. CASE ~Contains(LRUlist, f)
  BY <1>2 DEF pin
<1> QED BY <1>1, <1>2

(* pin() takes a frame that holds a page out of the LRU list.              *)
LEMMA PinFacts ==
  ASSUME TypeOK, PoolInv, NEW f \in Frame, frames[f].id # NoPage, pin(f), free_list' = free_list
  PROVE  LRUlist' \in Seq(Frame) /\ Without(f)
<1>0. LRUlist \in Seq(Frame) /\ ListInv /\ ~Contains(free_list, f)
  BY DEF TypeOK, PoolInv, ListInv
<1>1. CASE Contains(LRUlist, f)
  <2> DEFINE k == CHOOSE i \in DOMAIN LRUlist : LRUlist[i] = f
  <2>1. \E i \in DOMAIN LRUlist : LRUlist[i] = f
    BY <1>0, <1>1 DEF Contains
  <2>2. k \in 1..Len(LRUlist) /\ LRUlist[k] = f
    BY <1>0, <2>1
  <2>3. LRUlist' = RemoveAt(LRUlist, k)
    BY <1>1 DEF pin
  <2> HIDE DEF k
  <2>4. /\ LRUlist' \in Seq(Frame) /\ Distinct(LRUlist')
        /\ \A e : Contains(LRUlist', e) <=> Contains(LRUlist, e) /\ e # f
    BY <1>0, <2>2, <2>3, RemoveAtList DEF ListInv
  <2> QED BY <1>0, <2>4 DEF Without, ListInv
<1>2. CASE ~Contains(LRUlist, f)
  <2>1. LRUlist' = LRUlist
    BY <1>2 DEF pin
  <2> QED BY <1>0, <1>2, <2>1 DEF Without, ListInv
<1> QED BY <1>1, <1>2

-----------------------------------------------------------------------------
(* update_page on the victim.                                              *)
Takes(p, d, pins) == HasVictim /\ find_victim_page /\ update_page(Victim, p, d, pins)

LEMMA UpdateTypes ==
  ASSUME TypeOK, NEW p \in PageId, NEW d \in Content, NEW pins \in Nat, Takes(p, d, pins)
  PROVE  /\ frames' \in [Frame -> [id: PageId \cup {NoPage}, data: Content, dirty: BOOLEAN, pin: Nat]]
         /\ page_table' \in [PageId -> Frame \cup {NoFrame}]
         /\ free_list' \in Seq(Frame) /\ LRUlist' \in Seq(Frame)
         /\ disk' \in [File \X PageNo -> Content \cup {Absent}]
<1>1. Victim \in Frame /\ free_list' \in Seq(Frame) /\ LRUlist' \in Seq(Frame)
  BY VictimTypes DEF Takes
<1>2. frames' \in [Frame -> [id: PageId \cup {NoPage}, data: Content, dirty: BOOLEAN, pin: Nat]]
  BY <1>1 DEF TypeOK, Takes, update_page
<1>3. page_table' \in [PageId -> Frame \cup {NoFrame}]
  BY <1>1 DEF TypeOK, Takes, update_page, Remapped
<1>4. disk' \in [File \X PageNo -> Content \cup {Absent}]
  <2>1. disk' = WrittenBack(Victim) /\ frames[Victim].data \in Content
    BY <1>1 DEF Takes, update_page, TypeOK
  <2> QED BY <2>1 DEF WrittenBack, write_page, TypeOK
<1> QED BY <1>1, <1>2, <1>3, <1>4

LEMMA UpdateMap ==
  ASSUME TypeOK, HandleTypes, PoolInv, NEW p \in PageId, NEW d \in Content, NEW pins \in Nat, Takes(p, d, pins),
         page_table[p] = NoFrame
  PROVE  /\ Victim \in Frame /\ Holders(Victim) = {} /\ Without(Victim)
         /\ frames'[Victim] = [id |-> p, data |-> d, dirty |-> FALSE, pin |-> pins]
         /\ \A f \in Frame \ {Victim} : frames'[f] = frames[f]
         /\ page_table'[p] = Victim
         /\ \A q \in PageId \ {p} : page_table'[q] = IF q = frames[Victim].id THEN NoFrame ELSE page_table[q]
         /\ \A q \in PageId : page_table'[q] # NoFrame =>
              frames'[page_table'[q]].id = q /\ (q = p \/ page_table[q] # NoFrame)
         /\ \A f \in Frame : frames'[f].id # NoPage => page_table'[frames'[f].id] = f
         /\ \A h \in Handle : handle[h].page # NoPage => /\ handle[h].page # p
                                                        /\ page_table'[handle[h].page] = page_table[handle[h].page]
<1> DEFINE v == Victim
<1>1. v \in Frame /\ Holders(v) = {} /\ Without(v) /\ frames[v].pin = 0
  BY VictimFacts DEF Takes
<1> HIDE DEF v
<1>2. /\ frames'[v] = [id |-> p, data |-> d, dirty |-> FALSE, pin |-> pins]
      /\ \A f \in Frame \ {v} : frames'[f] = frames[f]
  BY <1>1 DEF Takes, update_page, TypeOK, v
<1>3. /\ page_table'[p] = v
      /\ \A q \in PageId \ {p} : page_table'[q] = IF q = frames[v].id THEN NoFrame ELSE page_table[q]
  BY <1>1 DEF Takes, update_page, Remapped, v
<1>4. MapInv /\ PinInv /\ NoFrame \notin Frame /\ NoPage \notin PageId
  BY PoolConstants DEF PoolInv, Frame, PageId, Fd, PageNo
<1>5. \A q \in PageId : page_table'[q] # NoFrame =>
        frames'[page_table'[q]].id = q /\ (q = p \/ page_table[q] # NoFrame)
  <2> SUFFICES ASSUME NEW q \in PageId, page_table'[q] # NoFrame, q # p
               PROVE  frames'[page_table'[q]].id = q /\ page_table[q] # NoFrame
    BY <1>2, <1>3
  <2>1. page_table'[q] = page_table[q] /\ q # frames[v].id
    BY <1>3
  <2>2. frames[page_table[q]].id = q /\ page_table[q] \in Frame
    BY <1>4, <2>1 DEF MapInv, TypeOK
  <2> QED BY <1>2, <2>1, <2>2
<1>6. ASSUME NEW f \in Frame, frames'[f].id # NoPage PROVE page_table'[frames'[f].id] = f
  <2>1. CASE f = v
    BY <1>2, <1>3, <2>1
  <2>2. CASE f # v
    <3>1. frames'[f].id = frames[f].id /\ frames[f].id \in PageId /\ page_table[frames[f].id] = f
      BY <1>2, <1>4, <1>6, <2>2 DEF MapInv, TypeOK
    <3>2. frames[f].id # p
      BY <1>4, <3>1
    <3>3. frames[f].id # frames[v].id
      BY <1>1, <1>4, <2>2, <3>1 DEF MapInv
    <3> QED BY <1>3, <3>1, <3>2, <3>3
  <2> QED BY <2>1, <2>2
<1>7. ASSUME NEW h \in Handle, handle[h].page # NoPage
      PROVE  handle[h].page # p /\ page_table'[handle[h].page] = page_table[handle[h].page]
  <2> DEFINE q == handle[h].page
  <2>1. q \in PageId /\ page_table[q] \in Frame
    BY <1>4, <1>7 DEF PinInv, TypeOK, HandleTypes
  <2>2. page_table[q] # v /\ q # p
    BY <1>1, <1>4, <1>7, <2>1 DEF Holders
  <2>3. q # frames[v].id
    BY <1>1, <1>4, <2>1, <2>2 DEF MapInv
  <2> QED BY <1>3, <2>1, <2>2, <2>3
<1> QED BY <1>1, <1>2, <1>3, <1>5, <1>6, <1>7 DEF v

(* The callers H, who held nothing, now hold page p in the victim's frame. *)
Given(H, p) ==
  /\ \A h \in H : handle[h].page = NoPage /\ handle'[h].page = p /\ handle'[h].frame = Victim
  /\ \A h \in Handle \ H : handle'[h] = handle[h]

LEMMA TakesPool ==
  ASSUME TypeOK, HandleTypes, PoolInv, NEW p \in PageId, NEW d \in Content, NEW H \in SUBSET Handle,
         Cardinality(H) \in Nat, Takes(p, d, Cardinality(H)), Given(H, p), page_table[p] = NoFrame,
         \A q \in PageId : Allocated(q) \/ q = p => Allocated(q)'
  PROVE  PoolInv'
<1> DEFINE v == Victim
<1>1. /\ v \in Frame /\ Holders(v) = {} /\ Without(v)
      /\ frames'[v] = [id |-> p, data |-> d, dirty |-> FALSE, pin |-> Cardinality(H)]
      /\ \A f \in Frame \ {v} : frames'[f] = frames[f]
      /\ page_table'[p] = v
      /\ \A q \in PageId : page_table'[q] # NoFrame =>
              frames'[page_table'[q]].id = q /\ (q = p \/ page_table[q] # NoFrame)
      /\ \A f \in Frame : frames'[f].id # NoPage => page_table'[frames'[f].id] = f
      /\ \A h \in Handle : handle[h].page # NoPage => page_table'[handle[h].page] = page_table[handle[h].page]
  BY UpdateMap
<1>2. \A h \in H : handle[h].page = NoPage /\ handle'[h].page = p /\ handle'[h].frame = v
  BY DEF Given
<1>3. MapInv /\ PinInv /\ ListInv /\ NoPage \notin PageId
  BY PoolConstants DEF PoolInv, PageId, Fd, PageNo
<1> HIDE DEF v
<1>4. MapInv'
  <2>1. \A q \in PageId : page_table'[q] # NoFrame => Allocated(q)'
    BY <1>1, <1>3 DEF MapInv
  <2> QED BY <1>1, <2>1 DEF MapInv
<1>5. \A h \in Handle : handle'[h].page # NoPage => page_table'[handle'[h].page] = handle'[h].frame
  BY <1>1, <1>2, <1>3 DEF PinInv, Given
<1>6. ASSUME NEW f \in Frame PROVE frames'[f].pin = Cardinality(Holders(f))'
  <2>1. CASE f = v
    <3>1. \A h \in Handle \ H : ~(handle'[h].page # NoPage /\ page_table'[handle'[h].page] = v)
      BY <1>1 DEF Holders, Given
    <3>2. \A h \in H : handle'[h].page # NoPage /\ page_table'[handle'[h].page] = v
      BY <1>1, <1>2, <1>3
    <3>3. Holders(f)' = H
      BY <2>1, <3>1, <3>2 DEF Holders
    <3> QED BY <1>1, <2>1, <3>3
  <2>2. CASE f # v
    <3>1. Holders(f)' = Holders(f)
      BY <1>1, <1>2, <2>2 DEF Holders, Given
    <3> QED BY <1>1, <1>3, <2>2, <3>1 DEF PinInv
  <2> QED BY <2>1, <2>2
<1>7. ListInv'
  BY <1>1, <1>3 DEF ListInv, Without
<1> QED BY <1>4, <1>5, <1>6, <1>7 DEF PoolInv, PinInv

LEMMA PlaceApart ==
  ASSUME TypeOK, FilesInv, NEW p \in PageId, NEW q \in PageId, Allocated(p), Allocated(q)
  PROVE  Place(p) \in File \X PageNo /\ (Place(p) = Place(q) => p = q)
<1>1. p[1] \in Fd /\ q[1] \in Fd /\ p = <<p[1], p[2]>> /\ q = <<q[1], q[2]>> /\ p[2] \in PageNo
  BY DEF PageId
<1>2. file_of[p[1]] \in File
  BY <1>1 DEF TypeOK, Allocated
<1> QED BY <1>1, <1>2 DEF FilesInv, Place, Allocated

(* What find_victim_page and update_page write: the victim's page, which   *)
(* if clean is on disk already.                                            *)
LEMMA WrittenBackFacts ==
  ASSUME TypeOK, FilesInv, PoolInv, DiskInv, NEW v \in Frame, Holders(v) = {},
         NEW q \in PageId, Allocated(q)
  PROVE  WrittenBack(v)[Place(q)] = IF q = frames[v].id THEN frames[v].data ELSE disk[Place(q)]
<1>1. MapInv /\ NoPage \notin PageId /\ NoFrame \notin Frame
  BY PoolConstants DEF PoolInv, PageId, Fd, PageNo, Frame
<1>2. CASE q # frames[v].id
  <2>1. CASE frames[v].id # NoPage
    <3>1. frames[v].id \in PageId /\ Allocated(frames[v].id)
      BY <1>1, <2>1 DEF MapInv, TypeOK
    <3>2. Place(q) # Place(frames[v].id) /\ Place(q) \in File \X PageNo
      BY <1>2, <3>1, PlaceApart
    <3> QED BY <1>2, <3>2 DEF WrittenBack, write_page, TypeOK
  <2>2. CASE frames[v].id = NoPage
    BY <1>2, <2>2 DEF WrittenBack
  <2> QED BY <2>1, <2>2
<1>3. CASE q = frames[v].id
  <2>1. frames[v].id # NoPage /\ page_table[q] = v
    BY <1>1, <1>3 DEF MapInv
  <2>2. Place(q) \in File \X PageNo
    BY PlaceApart
  <2>3. CASE frames[v].dirty
    BY <1>3, <2>1, <2>2, <2>3 DEF WrittenBack, write_page, TypeOK
  <2>4. CASE ~frames[v].dirty
    <3>1. \A h \in Handle : handle[h].page # frames[v].id
      BY <1>3, <2>1 DEF Holders
    <3>2. disk[Place(q)] = frames[v].data
      BY <1>3, <2>1, <2>4, <3>1 DEF DiskInv, CleanInv
    <3> QED BY <1>3, <2>4, <3>2 DEF WrittenBack
  <2> QED BY <2>3, <2>4
<1> QED BY <1>2, <1>3

LEMMA TakesDisk ==
  ASSUME TypeOK, HandleTypes, FilesInv, PoolInv, DiskInv,
         NEW p \in PageId, NEW d \in Content, NEW H \in SUBSET Handle,
         Cardinality(H) \in Nat \ {0}, Takes(p, d, Cardinality(H)), Given(H, p), page_table[p] = NoFrame,
         UNCHANGED file_of, \A q \in PageId : Allocated(q)' <=> Allocated(q) \/ q = p,
         d = disk'[Place(p)] \/ \E h \in H : handle'[h].wrote
  PROVE  DiskInv'
<1> DEFINE v == Victim
<1>1. /\ v \in Frame /\ Holders(v) = {} /\ Without(v)
      /\ frames'[v] = [id |-> p, data |-> d, dirty |-> FALSE, pin |-> Cardinality(H)]
      /\ \A f \in Frame \ {v} : frames'[f] = frames[f]
      /\ page_table'[p] = v
      /\ \A q \in PageId \ {p} : page_table'[q] = IF q = frames[v].id THEN NoFrame ELSE page_table[q]
      /\ \A f \in Frame : frames'[f].id # NoPage => page_table'[frames'[f].id] = f
  BY UpdateMap
<1>2. \A h \in H : handle[h].page = NoPage /\ handle'[h].page = p /\ handle'[h].frame = v
  BY DEF Given
<1>3. MapInv /\ PinInv /\ ListInv /\ NoFrame \notin Frame
  BY PoolConstants DEF PoolInv, Frame
<1>4. disk' = WrittenBack(v)
  BY DEF Takes, update_page
<1> HIDE DEF v
<1>5. \A q \in PageId : Place(q)' = Place(q)
  BY DEF Place
<1>6. ASSUME NEW q \in PageId, Allocated(q), q # frames[v].id PROVE disk'[Place(q)] = disk[Place(q)]
  BY <1>1, <1>4, <1>6, WrittenBackFacts
<1>7. ASSUME frames[v].id # NoPage PROVE disk'[Place(frames[v].id)] = frames[v].data
  <2>1. frames[v].id \in PageId /\ Allocated(frames[v].id)
    BY <1>1, <1>3, <1>7 DEF MapInv, TypeOK
  <2> QED BY <1>1, <1>4, <2>1, WrittenBackFacts
<1>8. AllListed'
  BY <1>1 DEF AllListed, DiskInv, Without
<1>9. CleanInv'
  <2> SUFFICES ASSUME NEW f \in Frame, frames'[f].id # NoPage, ~frames'[f].dirty,
                      \A h \in Handle : ~(handle'[h].page = frames'[f].id /\ handle'[h].wrote)
               PROVE  disk'[Place(frames'[f].id)] = frames'[f].data
    BY DEF CleanInv, Place
  <2>1. CASE f = v
    BY <1>1, <1>2, <2>1
  <2>2. CASE f # v
    <3>1. frames'[f] = frames[f] /\ frames[f].id \in PageId
      BY <1>1, <2>2 DEF TypeOK
    <3>2. page_table[frames[f].id] = f /\ Allocated(frames[f].id) /\ frames[f].id # frames[v].id
      BY <1>1, <1>3, <2>2, <3>1 DEF MapInv
    <3>3. \A h \in Handle : ~(handle[h].page = frames[f].id /\ handle[h].wrote)
      BY <1>2, <3>1 DEF Given
    <3>4. disk[Place(frames[f].id)] = frames[f].data
      BY <3>1, <3>3 DEF DiskInv, CleanInv
    <3> QED BY <1>6, <3>1, <3>2, <3>4
  <2> QED BY <2>1, <2>2
<1>10. OnDiskInv'
  <2> SUFFICES ASSUME NEW q \in PageId, Allocated(q)', page_table'[q] = NoFrame PROVE disk'[Place(q)] # Absent
    BY <1>5 DEF OnDiskInv
  <2>1. q # p /\ Allocated(q)
    BY <1>1, <1>3
  <2>2. CASE q = frames[v].id
    <3>1. frames[v].data \in Content /\ Absent \notin Content
      BY <1>1, PoolConstants DEF TypeOK, Content
    <3>2. NoPage \notin PageId
      BY PoolConstants DEF PageId, Fd, PageNo
    <3> QED BY <1>7, <2>2, <3>1, <3>2
  <2>3. CASE q # frames[v].id
    BY <1>1, <1>6, <2>1, <2>3 DEF DiskInv, OnDiskInv
  <2> QED BY <2>2, <2>3
<1> QED BY <1>8, <1>9, <1>10 DEF DiskInv

-----------------------------------------------------------------------------
(* One step per action.                                                    *)

LEMMA KeptStep ==
  ASSUME UNCHANGED <<file_of, created>>
  PROVE  (FilesInv => FilesInv') /\ (TablesKept' <=> TablesKept)
BY DEF FilesInv, TablesKept

LEMMA FetchMissStep ==
  ASSUME IInv, NEW h \in Handle, NEW p \in PageId, FetchMiss(h, p)
  PROVE  IInv'
<1> DEFINE d == WrittenBack(Victim)[Place(p)]
<1>1. /\ handle[h].page = NoPage /\ Allocated(p) /\ page_table[p] = NoFrame /\ d # Absent
      /\ handle' = [handle EXCEPT ![h] = [page |-> p, frame |-> Victim, wrote |-> FALSE]]
      /\ UNCHANGED <<file_of, fd2pageno, created, errors>>
      /\ Takes(p, d, 1)
  BY DEF FetchMiss, Takes, files
<1>2. TypeOK /\ FilesInv /\ HandleTypes
  BY DEF IInv
<1>3. Victim \in Frame
  BY <1>1, <1>2, VictimTypes DEF Takes
<1>4. d \in Content /\ d = disk'[Place(p)]
  <2>1. Place(p) \in File \X PageNo
    BY <1>1, <1>2, PlaceApart
  <2>2. disk' = WrittenBack(Victim)
    BY <1>1 DEF Takes, update_page
  <2>3. disk' \in [File \X PageNo -> Content \cup {Absent}]
    BY <1>2, <1>3, <2>2 DEF WrittenBack, write_page, TypeOK
  <2> QED BY <1>1, <2>1, <2>2, <2>3
<1> HIDE DEF d
<1>5. TypeOK' /\ HandleTypes'
  <2>1. /\ frames' \in [Frame -> [id: PageId \cup {NoPage}, data: Content, dirty: BOOLEAN, pin: Nat]]
        /\ page_table' \in [PageId -> Frame \cup {NoFrame}]
        /\ free_list' \in Seq(Frame) /\ LRUlist' \in Seq(Frame)
        /\ disk' \in [File \X PageNo -> Content \cup {Absent}]
    BY <1>1, <1>2, <1>4, UpdateTypes
  <2>2. handle' \in [Handle -> [page: PageId \cup {NoPage}, frame: Frame \cup {NoFrame}, wrote: BOOLEAN]]
    BY <1>1, <1>2, <1>3 DEF TypeOK
  <2>3. HandleTypes'
    BY <1>1, <1>2, <1>3 DEF HandleTypes, TypeOK
  <2> QED BY <1>1, <1>2, <2>1, <2>2, <2>3 DEF TypeOK
<1>6. Cardinality({h}) = 1 /\ {h} \in SUBSET Handle
  BY FS_Singleton
<1>7. Given({h}, p)
  BY <1>1, <1>2 DEF Given, TypeOK
<1>8. \A q \in PageId : Allocated(q)' <=> Allocated(q) \/ q = p
  BY <1>1 DEF Allocated
<1>9. ASSUME TablesKept' PROVE PoolInv'
  <2>1. PoolInv
    BY <1>1, <1>9, KeptStep DEF IInv
  <2> QED BY <1>1, <1>2, <1>4, <1>6, <1>7, <1>8, <2>1, TakesPool
<1>10. ASSUME Intact' PROVE DiskInv'
  <2>1. PoolInv /\ DiskInv
    BY <1>1, <1>10, KeptStep DEF IInv, Intact
  <2> QED BY <1>1, <1>2, <1>4, <1>6, <1>7, <1>8, <2>1, TakesDisk
<1> QED BY <1>1, <1>2, <1>5, <1>9, <1>10, KeptStep DEF IInv

LEMMA FetchReadFailsStep ==
  ASSUME IInv, NEW h \in Handle, NEW p \in PageId, FetchReadFails(h, p)
  PROVE  IInv' /\ ~Intact'
<1> DEFINE d == WrittenBack(Victim)[Place(p)]
<1>1. /\ Allocated(p) /\ page_table[p] = NoFrame
      /\ errors < MaxErrors \/ d = Absent
      /\ errors' = IF d = Absent THEN errors ELSE errors + 1
      /\ UNCHANGED <<file_of, fd2pageno, created, handle>>
      /\ Takes(p, Zero, 0)
  BY DEF FetchReadFails, Takes, files
<1>2. TypeOK /\ FilesInv /\ HandleTypes /\ Zero \in Content
  BY DEF IInv, Content
<1>3. TypeOK' /\ HandleTypes'
  <2>1. /\ frames' \in [Frame -> [id: PageId \cup {NoPage}, data: Content, dirty: BOOLEAN, pin: Nat]]
        /\ page_table' \in [PageId -> Frame \cup {NoFrame}]
        /\ free_list' \in Seq(Frame) /\ LRUlist' \in Seq(Frame)
        /\ disk' \in [File \X PageNo -> Content \cup {Absent}]
    BY <1>1, <1>2, UpdateTypes
  <2>2. errors' \in 0..MaxErrors
    BY <1>1, <1>2, PoolConstants DEF TypeOK
  <2> QED BY <1>1, <1>2, <2>1, <2>2 DEF TypeOK, HandleTypes
<1>4. Cardinality({}) = 0 /\ {} \in SUBSET Handle /\ Given({}, p)
  BY <1>1, FS_EmptySet DEF Given
<1>5. \A q \in PageId : Allocated(q) \/ q = p => Allocated(q)'
  BY <1>1 DEF Allocated
<1>6. ASSUME TablesKept' PROVE PoolInv'
  <2>1. PoolInv
    BY <1>1, <1>6, KeptStep DEF IInv
  <2> DEFINE H == {}
  <2>2. H \in SUBSET Handle /\ Cardinality(H) \in Nat /\ Takes(p, Zero, Cardinality(H)) /\ Given(H, p)
    BY <1>1, <1>4
  <2> HIDE DEF H
  <2> QED BY <1>1, <1>2, <1>5, <2>1, <2>2, TakesPool
<1>7. ~Intact'
  <2> SUFFICES ASSUME Intact' PROVE FALSE
    OBVIOUS
  <2>1. errors = 0 /\ d = Absent /\ PoolInv /\ DiskInv
    BY <1>1, <1>2, KeptStep DEF IInv, Intact, TypeOK
  <2>2. Victim \in Frame /\ Holders(Victim) = {}
    BY <1>1, <1>2, <2>1, VictimFacts DEF Takes
  <2>3. p # frames[Victim].id
    BY <1>1, <2>1, <2>2, PoolConstants DEF PoolInv, MapInv, Frame, PageId, Fd, PageNo
  <2>4. d = disk[Place(p)]
    BY <1>1, <1>2, <2>1, <2>2, <2>3, WrittenBackFacts
  <2> QED BY <1>1, <2>1, <2>4 DEF DiskInv, OnDiskInv
<1> QED BY <1>1, <1>2, <1>3, <1>6, <1>7, KeptStep DEF IInv

LEMMA WriteBackFailsStep ==
  ASSUME IInv, NEW h \in Handle, WriteBackFails(h)
  PROVE  IInv' /\ ~Intact'
<1>1. /\ errors < MaxErrors /\ errors' = errors + 1 /\ HasVictim /\ find_victim_page
      /\ UNCHANGED <<frames, page_table, disk, file_of, created, handle>>
  BY DEF WriteBackFails
<1>2. TypeOK /\ FilesInv /\ HandleTypes
  BY DEF IInv
<1>3. fd2pageno' \in [Fd -> 0..NumPages] /\ \A fd \in Fd : fd2pageno[fd] <= fd2pageno'[fd]
  <2>1. \A fd \in Fd : fd2pageno[fd] \in Nat /\ fd2pageno[fd] <= fd2pageno[fd]
    BY <1>2 DEF TypeOK
  <2>2. CASE UNCHANGED fd2pageno
    BY <1>2, <2>1, <2>2 DEF TypeOK
  <2>3. ASSUME NEW fd \in Fd, fd2pageno[fd] < NumPages, fd2pageno' = [fd2pageno EXCEPT ![fd] = @ + 1]
        PROVE  fd2pageno' \in [Fd -> 0..NumPages] /\ \A e \in Fd : fd2pageno[e] <= fd2pageno'[e]
    <3>1. fd2pageno[fd] + 1 \in 0..NumPages /\ fd2pageno[fd] <= fd2pageno[fd] + 1
      BY <2>1, <2>3, PoolConstants
    <3>2. \A e \in Fd : fd2pageno'[e] = IF e = fd THEN fd2pageno[fd] + 1 ELSE fd2pageno[e]
      BY <1>2, <2>3 DEF TypeOK
    <3> QED BY <1>2, <2>1, <2>3, <3>1, <3>2 DEF TypeOK
  <2> QED BY <2>2, <2>3 DEF WriteBackFails
<1>4. TypeOK' /\ HandleTypes'
  <2>1. errors' \in 0..MaxErrors
    BY <1>1, <1>2, PoolConstants DEF TypeOK
  <2> QED BY <1>1, <1>2, <1>3, <2>1, VictimTypes DEF TypeOK, HandleTypes
<1>5. ~Intact'
  BY <1>1, <1>2 DEF Intact, TypeOK
<1>6. ASSUME TablesKept' PROVE PoolInv'
  <2>1. PoolInv
    BY <1>1, <1>6, KeptStep DEF IInv
  <2>2. Without(Victim)
    BY <1>1, <1>2, <2>1, VictimFacts
  <2>3. \A q \in PageId : Allocated(q) => Allocated(q)'
    <3> SUFFICES ASSUME NEW q \in PageId, Allocated(q) PROVE Allocated(q)'
      OBVIOUS
    <3>1. q[1] \in Fd /\ q[2] \in Nat
      BY DEF PageId, PageNo
    <3>2. fd2pageno[q[1]] \in Nat /\ fd2pageno'[q[1]] \in Nat /\ fd2pageno[q[1]] <= fd2pageno'[q[1]]
      BY <1>2, <1>3, <3>1 DEF TypeOK
    <3> QED BY <1>1, <3>1, <3>2 DEF Allocated
  <2>4. MapInv'
    BY <1>1, <2>1, <2>3 DEF PoolInv, MapInv
  <2>5. PinInv'
    BY <1>1, <2>1 DEF PoolInv, PinInv, Holders
  <2>6. ListInv'
    BY <1>1, <2>1, <2>2 DEF PoolInv, ListInv, Without
  <2> QED BY <2>4, <2>5, <2>6 DEF PoolInv
<1> QED BY <1>1, <1>2, <1>4, <1>5, <1>6, KeptStep DEF IInv

LEMMA NewPageStep ==
  ASSUME IInv, NEW h \in Handle, NEW fd \in Fd, new_page(h, fd)
  PROVE  IInv'
<1> DEFINE p == <<fd, fd2pageno[fd]>>
<1>1. /\ handle[h].page = NoPage /\ file_of[fd] # NoFile /\ fd2pageno[fd] < NumPages
      /\ fd2pageno' = [fd2pageno EXCEPT ![fd] = @ + 1]
      /\ handle' = [handle EXCEPT ![h] = [page |-> p, frame |-> Victim, wrote |-> TRUE]]
      /\ UNCHANGED <<file_of, created, errors>>
      /\ Takes(p, Zero, 1)
  BY DEF new_page, Takes
<1>2. TypeOK /\ FilesInv /\ HandleTypes /\ Zero \in Content
  BY DEF IInv, Content
<1>3. Victim \in Frame
  BY <1>1, <1>2, VictimTypes DEF Takes
<1>4. p \in PageId /\ ~Allocated(p)
  BY <1>1, <1>2, PoolConstants DEF TypeOK, PageId, PageNo, Allocated
<1>5. \A q \in PageId : Allocated(q)' <=> Allocated(q) \/ q = p
  <2> SUFFICES ASSUME NEW q \in PageId PROVE Allocated(q)' <=> Allocated(q) \/ q = p
    OBVIOUS
  <2>1. q = <<q[1], q[2]>> /\ q[1] \in Fd /\ q[2] \in Nat
    BY DEF PageId, PageNo
  <2>2. /\ \A e \in Fd : fd2pageno[e] \in Nat
        /\ fd2pageno'[fd] = fd2pageno[fd] + 1 /\ \A e \in Fd \ {fd} : fd2pageno'[e] = fd2pageno[e]
    BY <1>1, <1>2 DEF TypeOK
  <2>3. CASE q[1] # fd
    BY <1>1, <2>1, <2>2, <2>3 DEF Allocated
  <2>4. CASE q[1] = fd
    BY <1>1, <2>1, <2>2, <2>4 DEF Allocated
  <2> QED BY <2>3, <2>4
<1>6. fd2pageno' \in [Fd -> 0..NumPages]
  BY <1>1, <1>2, PoolConstants DEF TypeOK
<1> HIDE DEF p
<1>7. TypeOK' /\ HandleTypes'
  <2>1. /\ frames' \in [Frame -> [id: PageId \cup {NoPage}, data: Content, dirty: BOOLEAN, pin: Nat]]
        /\ page_table' \in [PageId -> Frame \cup {NoFrame}]
        /\ free_list' \in Seq(Frame) /\ LRUlist' \in Seq(Frame)
        /\ disk' \in [File \X PageNo -> Content \cup {Absent}]
    BY <1>1, <1>2, <1>4, UpdateTypes
  <2>2. handle' \in [Handle -> [page: PageId \cup {NoPage}, frame: Frame \cup {NoFrame}, wrote: BOOLEAN]]
    BY <1>1, <1>2, <1>3, <1>4 DEF TypeOK
  <2>3. HandleTypes'
    BY <1>1, <1>2, <1>3 DEF HandleTypes, TypeOK
  <2> QED BY <1>1, <1>2, <1>6, <2>1, <2>2, <2>3 DEF TypeOK
<1>8. Cardinality({h}) = 1 /\ {h} \in SUBSET Handle
  BY FS_Singleton
<1>9. Given({h}, p) /\ \E g \in {h} : handle'[g].wrote
  BY <1>1, <1>2 DEF Given, TypeOK
<1>10. PoolInv => page_table[p] = NoFrame
  BY <1>4 DEF PoolInv, MapInv
<1>11. ASSUME TablesKept' PROVE PoolInv'
  <2>1. PoolInv
    BY <1>1, <1>11, KeptStep DEF IInv
  <2> QED BY <1>1, <1>2, <1>4, <1>5, <1>8, <1>9, <1>10, <2>1, TakesPool
<1>12. ASSUME Intact' PROVE DiskInv'
  <2>1. PoolInv /\ DiskInv
    BY <1>1, <1>12, KeptStep DEF IInv, Intact
  <2> QED BY <1>1, <1>2, <1>4, <1>5, <1>8, <1>9, <1>10, <2>1, TakesDisk
<1> QED BY <1>1, <1>2, <1>7, <1>11, <1>12, KeptStep DEF IInv

LEMMA FetchHitStep ==
  ASSUME IInv, NEW h \in Handle, NEW p \in PageId, FetchHit(h, p)
  PROVE  IInv'
<1> DEFINE f == page_table[p]
<1>1. /\ handle[h].page = NoPage /\ Allocated(p) /\ f # NoFrame /\ pin(f)
      /\ frames' = [frames EXCEPT ![f].pin = @ + 1]
      /\ handle' = [handle EXCEPT ![h] = [page |-> p, frame |-> f, wrote |-> FALSE]]
      /\ UNCHANGED <<page_table, free_list, disk, file_of, fd2pageno, created, errors>>
  BY DEF FetchHit, files
<1>2. TypeOK /\ FilesInv /\ HandleTypes /\ f \in Frame /\ page_table'[p] = f
  BY <1>1 DEF IInv, TypeOK
<1> HIDE DEF f
<1>3. /\ frames'[f] = [id |-> frames[f].id, data |-> frames[f].data, dirty |-> frames[f].dirty, pin |-> frames[f].pin + 1]
      /\ \A g \in Frame \ {f} : frames'[g] = frames[g]
      /\ frames' \in [Frame -> [id: PageId \cup {NoPage}, data: Content, dirty: BOOLEAN, pin: Nat]]
  <2>1. frames \in [Frame -> [id: PageId \cup {NoPage}, data: Content, dirty: BOOLEAN, pin: Nat]]
    BY <1>2 DEF TypeOK
  <2>2. frames' = [frames EXCEPT ![f].pin = @ + 1]
    BY <1>1
  <2>3. frames'[f] = [id |-> frames[f].id, data |-> frames[f].data, dirty |-> frames[f].dirty, pin |-> frames[f].pin + 1]
    BY <1>2, <2>1, <2>2
  <2>4. \A g \in Frame \ {f} : frames'[g] = frames[g]
    BY <2>1, <2>2
  <2> QED BY <1>2, <2>1, <2>2, <2>3, <2>4
<1>4. TypeOK' /\ HandleTypes'
  <2>1. frames' \in [Frame -> [id: PageId \cup {NoPage}, data: Content, dirty: BOOLEAN, pin: Nat]]
    BY <1>3
  <2>2. handle' \in [Handle -> [page: PageId \cup {NoPage}, frame: Frame \cup {NoFrame}, wrote: BOOLEAN]]
    BY <1>1, <1>2 DEF TypeOK
  <2>3. LRUlist' \in Seq(Frame)
    BY <1>1, <1>2, PinTypes DEF TypeOK
  <2>4. HandleTypes'
    BY <1>1, <1>2 DEF HandleTypes, TypeOK
  <2> QED BY <1>1, <1>2, <2>1, <2>2, <2>3, <2>4 DEF TypeOK
<1>5. /\ handle'[h] = [page |-> p, frame |-> f, wrote |-> FALSE]
      /\ \A g \in Handle \ {h} : handle'[g] = handle[g]
  BY <1>1, <1>2 DEF TypeOK
<1>6. ASSUME PoolInv PROVE PoolInv' /\ Without(f) /\ frames[f].id = p
  <2>1. MapInv /\ PinInv /\ ListInv /\ NoPage \notin PageId /\ frames[f].id = p
    BY <1>1, <1>6, PoolConstants DEF PoolInv, MapInv, PageId, Fd, PageNo, f
  <2>2. Without(f)
    BY <1>1, <1>2, <1>6, <2>1, PinFacts
  <2>3. MapInv'
    BY <1>1, <1>2, <1>3, <2>1 DEF MapInv, Allocated
  <2>4. \A g \in Handle : handle'[g].page # NoPage => page_table'[handle'[g].page] = handle'[g].frame
    BY <1>1, <1>2, <1>5, <2>1 DEF PinInv
  <2>5. ASSUME NEW g \in Frame PROVE frames'[g].pin = Cardinality(Holders(g))'
    <3>1. CASE g = f
      <4>1. Holders(g)' = Holders(g) \cup {h} /\ h \notin Holders(g)
        BY <1>1, <1>2, <1>5, <2>1, <3>1 DEF Holders
      <4>2. IsFiniteSet(Holders(g))
        BY PoolConstants, FS_Subset DEF Holders
      <4>3. Cardinality(Holders(g))' = Cardinality(Holders(g)) + 1
        BY <4>1, <4>2, FS_AddElement
      <4> QED BY <1>2, <1>3, <2>1, <3>1, <4>3 DEF PinInv
    <3>2. CASE g # f
      <4>1. Holders(g)' = Holders(g)
        BY <1>1, <1>2, <1>5, <2>1, <3>2 DEF Holders
      <4> QED BY <1>3, <2>1, <3>2, <4>1 DEF PinInv
    <3> QED BY <3>1, <3>2
  <2>6. ListInv'
    BY <1>2, <1>3, <2>1, <2>2 DEF ListInv, Without
  <2> QED BY <2>1, <2>2, <2>3, <2>4, <2>5, <2>6 DEF PoolInv, PinInv
<1>7. ASSUME PoolInv, DiskInv PROVE DiskInv'
  <2>1. \A g \in Frame : frames'[g].id = frames[g].id /\ frames'[g].dirty = frames[g].dirty /\ frames'[g].data = frames[g].data
    BY <1>2, <1>3
  <2>2. AllListed'
    <3>1. frames'[f].pin # 0
      BY <1>2, <1>3 DEF TypeOK
    <3> QED BY <1>3, <1>6, <1>7, <3>1 DEF AllListed, DiskInv, Without
  <2>3. CleanInv'
    <3> SUFFICES ASSUME NEW g \in Frame, frames[g].id # NoPage, ~frames[g].dirty,
                        \A e \in Handle : ~(handle'[e].page = frames[g].id /\ handle'[e].wrote)
                 PROVE  disk[Place(frames[g].id)] = frames[g].data
      BY <1>1, <2>1 DEF CleanInv, Place
    <3>1. \A e \in Handle : ~(handle[e].page = frames[g].id /\ handle[e].wrote)
      BY <1>1, <1>5
    <3> QED BY <1>7, <3>1 DEF DiskInv, CleanInv
  <2>4. OnDiskInv'
    BY <1>1, <1>7 DEF DiskInv, OnDiskInv, Allocated, Place
  <2> QED BY <2>2, <2>3, <2>4 DEF DiskInv
<1> QED BY <1>1, <1>2, <1>4, <1>6, <1>7, KeptStep DEF IInv, Intact

LEMMA WritePageStep ==
  ASSUME IInv, NEW h \in Handle, NEW d \in Data, WritePage(h, d)
  PROVE  IInv'
<1> DEFINE f == handle[h].frame
<1>1. /\ handle[h].page # NoPage /\ frames' = [frames EXCEPT ![f].data = d]
      /\ handle' = [handle EXCEPT ![h].wrote = TRUE]
      /\ UNCHANGED <<page_table, free_list, LRUlist, disk, file_of, fd2pageno, created, errors>>
  BY DEF WritePage, files
<1>2. TypeOK /\ FilesInv /\ HandleTypes /\ f \in Frame /\ d \in Content
  BY <1>1 DEF IInv, HandleTypes, Content
<1>3. /\ frames'[f] = [id |-> frames[f].id, data |-> d, dirty |-> frames[f].dirty, pin |-> frames[f].pin]
      /\ \A g \in Frame \ {f} : frames'[g] = frames[g]
  <2> HIDE DEF f
  <2> QED BY <1>1, <1>2 DEF TypeOK
<1>4. /\ handle'[h] = [page |-> handle[h].page, frame |-> f, wrote |-> TRUE]
      /\ \A g \in Handle \ {h} : handle'[g] = handle[g]
  BY <1>1, <1>2 DEF TypeOK
<1>5. TypeOK' /\ HandleTypes'
  <2>1. frames' \in [Frame -> [id: PageId \cup {NoPage}, data: Content, dirty: BOOLEAN, pin: Nat]]
    <3> HIDE DEF f
    <3> QED BY <1>1, <1>2 DEF TypeOK
  <2>2. handle' \in [Handle -> [page: PageId \cup {NoPage}, frame: Frame \cup {NoFrame}, wrote: BOOLEAN]]
    BY <1>1, <1>2 DEF TypeOK
  <2>3. HandleTypes'
    BY <1>2, <1>4 DEF HandleTypes
  <2> QED BY <1>1, <1>2, <2>1, <2>2, <2>3 DEF TypeOK
<1> HIDE DEF f
<1>6. /\ \A g \in Frame : frames'[g].id = frames[g].id /\ frames'[g].dirty = frames[g].dirty /\ frames'[g].pin = frames[g].pin
      /\ \A g \in Handle : handle'[g].page = handle[g].page /\ handle'[g].frame = handle[g].frame
  BY <1>2, <1>3, <1>4 DEF f
<1>7. ASSUME PoolInv PROVE PoolInv'
  <2>1. \A g : Holders(g)' = Holders(g)
    BY <1>1, <1>6 DEF Holders
  <2>2. MapInv'
    BY <1>1, <1>2, <1>6, <1>7 DEF PoolInv, MapInv, Allocated, TypeOK
  <2>3. PinInv'
    BY <1>1, <1>6, <1>7, <2>1 DEF PoolInv, PinInv
  <2>4. ListInv'
    BY <1>1, <1>6, <1>7 DEF PoolInv, ListInv
  <2> QED BY <2>2, <2>3, <2>4 DEF PoolInv
<1>8. ASSUME PoolInv, DiskInv PROVE DiskInv'
  <2>1. AllListed' /\ OnDiskInv'
    BY <1>1, <1>6, <1>8 DEF DiskInv, AllListed, OnDiskInv, Allocated, Place
  <2>2. CleanInv'
    <3> SUFFICES ASSUME NEW g \in Frame, frames[g].id # NoPage, ~frames[g].dirty,
                        \A e \in Handle : ~(handle'[e].page = frames[g].id /\ handle'[e].wrote)
                 PROVE  disk[Place(frames[g].id)] = frames'[g].data
      BY <1>1, <1>6 DEF CleanInv, Place
    <3>1. \A e \in Handle : ~(handle[e].page = frames[g].id /\ handle[e].wrote)
      BY <1>4
    <3>2. g # f
      <4>1. page_table[handle[h].page] = f /\ handle[h].page \in PageId
        BY <1>1, <1>2, <1>8 DEF PoolInv, PinInv, TypeOK, f
      <4>2. frames[f].id = handle[h].page
        BY <1>2, <1>8, <4>1, PoolConstants DEF PoolInv, MapInv, Frame
      <4> QED BY <1>4, <4>2
    <3> QED BY <1>3, <1>8, <3>1, <3>2 DEF DiskInv, CleanInv
  <2> QED BY <2>1, <2>2 DEF DiskInv
<1> QED BY <1>1, <1>2, <1>5, <1>7, <1>8, KeptStep DEF IInv, Intact

LEMMA UnpinPageStep ==
  ASSUME IInv, NEW h \in Handle, unpin_page(h)
  PROVE  IInv'
<1>1. /\ handle[h].page # NoPage /\ handle' = [handle EXCEPT ![h] = Idle]
      /\ UNCHANGED <<page_table, free_list, disk, file_of, fd2pageno, created, errors>>
  BY DEF unpin_page, files
<1>2. /\ TypeOK /\ FilesInv /\ HandleTypes /\ handle[h].page \in PageId /\ NoFrame \notin Frame /\ NoPage \notin PageId
      /\ page_table[handle[h].page] \in Frame \cup {NoFrame}
  BY <1>1, PoolConstants DEF IInv, TypeOK, Frame, PageId, Fd, PageNo
<1>3. /\ handle'[h] = Idle /\ \A g \in Handle \ {h} : handle'[g] = handle[g]
      /\ handle' \in [Handle -> [page: PageId \cup {NoPage}, frame: Frame \cup {NoFrame}, wrote: BOOLEAN]]
  BY <1>1, <1>2 DEF TypeOK, Idle
<1>4. HandleTypes'
  BY <1>2, <1>3 DEF HandleTypes, Idle
<1>5. PICK f \in Frame \cup {NoFrame} : f = page_table[handle[h].page]
  BY <1>2
<1>6. CASE f # NoFrame /\ frames[f].pin > 0
  <2>1. /\ frames' = [frames EXCEPT ![f].pin = @ - 1, ![f].dirty = @ \/ handle[h].wrote]
        /\ IF frames[f].pin = 1 THEN unpin(f) ELSE UNCHANGED LRUlist
    BY <1>5, <1>6 DEF unpin_page
  <2>2. /\ frames \in [Frame -> [id: PageId \cup {NoPage}, data: Content, dirty: BOOLEAN, pin: Nat]] /\ f \in Frame
        /\ frames[f].pin - 1 \in Nat /\ (frames[f].dirty \/ handle[h].wrote) \in BOOLEAN
    BY <1>2, <1>6 DEF TypeOK
  <2>3. frames'[f] = [id |-> frames[f].id, data |-> frames[f].data,
                      dirty |-> frames[f].dirty \/ handle[h].wrote, pin |-> frames[f].pin - 1]
    BY <2>1, <2>2
  <2>4. DOMAIN frames' = Frame /\ \A g \in Frame \ {f} : frames'[g] = frames[g]
    BY <2>1, <2>2
  <2>5. frames' \in [Frame -> [id: PageId \cup {NoPage}, data: Content, dirty: BOOLEAN, pin: Nat]]
    <3>1. frames'[f] \in [id: PageId \cup {NoPage}, data: Content, dirty: BOOLEAN, pin: Nat]
      BY <2>2, <2>3
    <3>2. \A g \in Frame : frames'[g] \in [id: PageId \cup {NoPage}, data: Content, dirty: BOOLEAN, pin: Nat]
      BY <2>2, <2>4, <3>1
    <3>3. frames' = [g \in Frame |-> frames'[g]]
      BY <2>1, <2>2
    <3> QED BY <3>2, <3>3
  <2>6. LRUlist' \in Seq(Frame)
    <3>1. <<f>> \in Seq(Frame) /\ LRUlist \in Seq(Frame)
      BY <1>2, <2>2 DEF TypeOK
    <3>2. <<f>> \o LRUlist \in Seq(Frame)
      BY <3>1
    <3>3. LRUlist' = LRUlist \/ LRUlist' = <<f>> \o LRUlist
      BY <2>1, Zenon DEF unpin
    <3> QED BY <3>1, <3>2, <3>3
  <2>7. TypeOK'
    BY <1>1, <1>2, <1>3, <2>5, <2>6 DEF TypeOK
  <2>8. ASSUME PoolInv
        PROVE  /\ PoolInv' /\ frames[f].id = handle[h].page
               /\ \A g \in Frame : Contains(LRUlist', g) <=> Contains(LRUlist, g) \/ (g = f /\ frames[f].pin = 1)
    <3>1. MapInv /\ PinInv /\ ListInv /\ frames[f].id = handle[h].page
      BY <1>2, <1>5, <1>6, <2>8 DEF PoolInv, MapInv
    <3>2. MapInv'
      <4>1. \A g \in Frame : frames'[g].id = frames[g].id
        BY <2>2, <2>3, <2>4
      <4>2. \A p \in PageId : Allocated(p)' <=> Allocated(p)
        BY <1>1 DEF Allocated
      <4> QED BY <1>1, <1>2, <3>1, <4>1, <4>2 DEF MapInv, TypeOK
    <3>3. \A g \in Handle : handle'[g].page # NoPage => page_table'[handle'[g].page] = handle'[g].frame
      BY <1>1, <1>3, <3>1 DEF PinInv, Idle
    <3>4. ASSUME NEW g \in Frame PROVE frames'[g].pin = Cardinality(Holders(g))'
      <4>1. CASE g = f
        <5>1. Holders(g)' = Holders(g) \ {h} /\ h \in Holders(g)
          BY <1>1, <1>2, <1>3, <1>5, <4>1 DEF Holders, Idle
        <5>2. IsFiniteSet(Holders(g))
          BY PoolConstants, FS_Subset DEF Holders
        <5>3. Cardinality(Holders(g))' = Cardinality(Holders(g)) - 1
          BY <5>1, <5>2, FS_RemoveElement
        <5> QED BY <2>3, <3>1, <4>1, <5>3 DEF PinInv
      <4>2. CASE g # f
        <5>1. Holders(g)' = Holders(g)
          BY <1>1, <1>3, <1>5, <4>2 DEF Holders, Idle
        <5> QED BY <2>4, <3>1, <4>2, <5>1 DEF PinInv
      <4> QED BY <4>1, <4>2
    <3>5. /\ Distinct(LRUlist')
          /\ \A g \in Frame : Contains(LRUlist', g) <=> Contains(LRUlist, g) \/ (g = f /\ frames[f].pin = 1)
      <4>1. CASE frames[f].pin = 1
        <5>1. LRUlist' = <<f>> \o LRUlist /\ ~Contains(LRUlist, f)
          BY <2>1, <2>2, <3>1, <4>1 DEF unpin, ListInv
        <5>2. /\ Distinct(<<f>> \o LRUlist)
              /\ \A g : Contains(<<f>> \o LRUlist, g) <=> Contains(LRUlist, g) \/ g = f
          BY <1>2, <2>2, <3>1, <5>1, ConsList DEF ListInv, TypeOK
        <5> QED BY <4>1, <5>1, <5>2
      <4>2. CASE frames[f].pin # 1
        BY <2>1, <3>1, <4>2 DEF ListInv
      <4> QED BY <4>1, <4>2
    <3>6. ListInv'
      <4>1. \A g \in Frame : Contains(free_list', g) => frames'[g].id = NoPage
        BY <1>1, <2>2, <2>3, <2>4, <3>1 DEF ListInv
      <4>2. ASSUME NEW g \in Frame, Contains(LRUlist', g) PROVE frames'[g].id # NoPage /\ frames'[g].pin = 0
        <5>1. CASE g = f
          <6>1. frames[f].pin = 1
            BY <1>6, <2>2, <3>1, <3>5, <4>2, <5>1 DEF ListInv
          <6> QED BY <1>1, <2>3, <3>1, <5>1, <6>1
        <5>2. CASE g # f
          BY <2>4, <3>1, <3>5, <4>2, <5>2 DEF ListInv
        <5> QED BY <5>1, <5>2
      <4> QED BY <1>1, <3>1, <3>5, <4>1, <4>2 DEF ListInv
    <3> QED BY <3>1, <3>2, <3>3, <3>4, <3>5, <3>6 DEF PoolInv, PinInv
  <2>9. ASSUME PoolInv, DiskInv PROVE DiskInv'
    <3>1. AllListed'
      <4> SUFFICES ASSUME NEW g \in Frame, frames'[g].pin = 0 PROVE Contains(free_list', g) \/ Contains(LRUlist', g)
        BY DEF AllListed
      <4>1. CASE g = f
        BY <2>2, <2>3, <2>8, <2>9, <4>1
      <4>2. CASE g # f
        BY <1>1, <2>4, <2>8, <2>9, <4>2 DEF DiskInv, AllListed
      <4> QED BY <4>1, <4>2
    <3>2. OnDiskInv'
      BY <1>1, <2>9 DEF DiskInv, OnDiskInv, Allocated, Place
    <3>3. CleanInv'
      <4> SUFFICES ASSUME NEW g \in Frame, frames'[g].id # NoPage, ~frames'[g].dirty,
                          \A e \in Handle : ~(handle'[e].page = frames'[g].id /\ handle'[e].wrote)
                   PROVE  disk[Place(frames'[g].id)] = frames'[g].data
        BY <1>1 DEF CleanInv, Place
      <4>1. frames'[g].id = frames[g].id /\ frames'[g].data = frames[g].data /\ ~frames[g].dirty
        BY <2>2, <2>3, <2>4
      <4>2. handle[h].page = frames[g].id => ~handle[h].wrote
        <5>1. handle[h].page = frames[g].id => g = f
          BY <1>1, <1>5, <2>9 DEF PoolInv, MapInv
        <5>2. frames'[f].dirty = (frames[f].dirty \/ handle[h].wrote)
          BY <2>3
        <5> QED BY <5>1, <5>2, Zenon
      <4>3. \A e \in Handle : ~(handle[e].page = frames[g].id /\ handle[e].wrote)
        BY <1>3, <4>1, <4>2
      <4> QED BY <2>9, <4>1, <4>3 DEF DiskInv, CleanInv
    <3> QED BY <3>1, <3>2, <3>3 DEF DiskInv
  <2> QED BY <1>1, <1>2, <1>4, <2>7, <2>8, <2>9, KeptStep DEF IInv, Intact
<1>7. CASE ~(f # NoFrame /\ frames[f].pin > 0)
  <2>1. UNCHANGED <<frames, LRUlist>>
    BY <1>5, <1>7 DEF unpin_page
  <2>2. TypeOK'
    BY <1>1, <1>2, <1>3, <2>1 DEF TypeOK
  <2>3. ~PoolInv
    <3> SUFFICES ASSUME PoolInv PROVE FALSE
      OBVIOUS
    <3>1. f \in Frame /\ h \in Holders(f)
      BY <1>1, <1>2, <1>5 DEF PoolInv, PinInv, HandleTypes, Holders
    <3>2. frames[f].pin # 0
      BY <1>2, <3>1, NoHolder
    <3> QED BY <1>2, <1>7, <3>1, <3>2 DEF TypeOK
  <2> QED BY <1>1, <1>2, <1>4, <2>2, <2>3, KeptStep DEF IInv, Intact
<1> QED BY <1>6, <1>7

(* What a caller sees of an allocated page.                                *)
View(p) == IF page_table[p] = NoFrame THEN disk[Place(p)] ELSE frames[page_table[p]].data

ViewsKept == \A q \in PageId : Allocated(q) => View(q)' = View(q)

(* A step that writes pages to their places and marks them clean.          *)
LEMMA Flushed ==
  ASSUME IInv, TypeOK', UNCHANGED <<page_table, free_list, LRUlist, file_of, fd2pageno, created, handle, errors>>,
         \A f \in Frame : /\ frames'[f].id = frames[f].id /\ frames'[f].data = frames[f].data
                          /\ frames'[f].pin = frames[f].pin,
         PoolInv /\ DiskInv =>
           /\ \A f \in Frame : frames[f].id # NoPage =>
                \/ disk'[Place(frames[f].id)] = frames[f].data
                \/ disk'[Place(frames[f].id)] = disk[Place(frames[f].id)] /\ frames'[f].dirty = frames[f].dirty
           /\ \A q \in PageId : Allocated(q) /\ page_table[q] = NoFrame => disk'[Place(q)] = disk[Place(q)]
  PROVE  IInv' /\ (PoolInv /\ DiskInv => ViewsKept)
<1>1. FilesInv /\ HandleTypes /\ TypeOK
  BY DEF IInv
<1>2. HandleTypes'
  BY <1>1 DEF HandleTypes
<1>3. /\ \A q \in PageId : (Allocated(q)' <=> Allocated(q)) /\ Place(q)' = Place(q)
      /\ \A f : Holders(f)' = Holders(f)
  BY DEF Allocated, Place, Holders
<1>4. ASSUME PoolInv PROVE PoolInv'
  <2>1. MapInv'
    BY <1>1, <1>3, <1>4 DEF PoolInv, MapInv, TypeOK
  <2>2. PinInv'
    BY <1>3, <1>4 DEF PoolInv, PinInv
  <2>3. ListInv'
    BY <1>4 DEF PoolInv, ListInv
  <2> QED BY <2>1, <2>2, <2>3 DEF PoolInv
<1>5. ASSUME PoolInv, DiskInv PROVE DiskInv'
  <2>1. AllListed'
    BY <1>5 DEF DiskInv, AllListed
  <2>2. OnDiskInv'
    BY <1>3, <1>5 DEF DiskInv, OnDiskInv
  <2>3. CleanInv'
    <3> SUFFICES ASSUME NEW f \in Frame, frames[f].id # NoPage, ~frames'[f].dirty,
                        \A h \in Handle : ~(handle[h].page = frames[f].id /\ handle[h].wrote)
                 PROVE  disk'[Place(frames[f].id)] = frames[f].data
      BY DEF CleanInv, Place
    <3> QED BY <1>5 DEF DiskInv, CleanInv
  <2> QED BY <2>1, <2>2, <2>3 DEF DiskInv
<1>6. ASSUME PoolInv, DiskInv PROVE ViewsKept
  <2> SUFFICES ASSUME NEW q \in PageId, Allocated(q) PROVE View(q)' = View(q)
    BY DEF ViewsKept
  <2>1. page_table[q] # NoFrame => page_table[q] \in Frame
    BY <1>1 DEF TypeOK
  <2> QED BY <1>3, <1>6, <2>1 DEF View
<1> QED BY <1>1, <1>2, <1>4, <1>5, <1>6, KeptStep DEF IInv, Intact

LEMMA FlushPageStep ==
  ASSUME IInv, NEW p \in PageId, flush_page(p)
  PROVE  IInv' /\ (PoolInv /\ DiskInv => ViewsKept)
<1>1. PICK f \in Frame : f = page_table[p]
  BY DEF IInv, TypeOK, flush_page
<1>2. /\ Allocated(p) /\ disk' = [disk EXCEPT ![Place(p)] = frames[f].data]
      /\ frames' = [frames EXCEPT ![f].dirty = FALSE]
      /\ UNCHANGED <<page_table, free_list, LRUlist, file_of, fd2pageno, created, handle, errors>>
  BY <1>1 DEF flush_page, files, write_page
<1>3. TypeOK /\ FilesInv /\ Place(p) \in File \X PageNo /\ NoFrame \notin Frame
  BY <1>2, PlaceApart, PoolConstants DEF IInv, Frame
<1>4. /\ frames'[f] = [id |-> frames[f].id, data |-> frames[f].data, dirty |-> FALSE, pin |-> frames[f].pin]
      /\ \A g \in Frame \ {f} : frames'[g] = frames[g]
      /\ frames' \in [Frame -> [id: PageId \cup {NoPage}, data: Content, dirty: BOOLEAN, pin: Nat]]
  <2>1. frames \in [Frame -> [id: PageId \cup {NoPage}, data: Content, dirty: BOOLEAN, pin: Nat]]
    BY <1>3 DEF TypeOK
  <2>2. frames' = [frames EXCEPT ![f].dirty = FALSE]
    BY <1>2
  <2>3. frames'[f] = [id |-> frames[f].id, data |-> frames[f].data, dirty |-> FALSE, pin |-> frames[f].pin]
    BY <2>1, <2>2
  <2>4. \A g \in Frame \ {f} : frames'[g] = frames[g]
    BY <2>1, <2>2
  <2> QED BY <2>1, <2>2, <2>3, <2>4
<1>5. TypeOK'
  <2>1. disk' \in [File \X PageNo -> Content \cup {Absent}]
    BY <1>2, <1>3 DEF TypeOK
  <2> QED BY <1>2, <1>3, <1>4, <2>1 DEF TypeOK
<1>6. \A g \in Frame : frames'[g].id = frames[g].id /\ frames'[g].data = frames[g].data /\ frames'[g].pin = frames[g].pin
  BY <1>4
<1>7. ASSUME PoolInv
      PROVE  /\ \A g \in Frame : frames[g].id # NoPage =>
                  \/ disk'[Place(frames[g].id)] = frames[g].data
                  \/ disk'[Place(frames[g].id)] = disk[Place(frames[g].id)] /\ frames'[g].dirty = frames[g].dirty
             /\ \A q \in PageId : Allocated(q) /\ page_table[q] = NoFrame => disk'[Place(q)] = disk[Place(q)]
  <2>1. frames[f].id = p /\ MapInv
    BY <1>1, <1>3, <1>7 DEF PoolInv, MapInv
  <2>2. disk'[Place(p)] = frames[f].data
    BY <1>2, <1>3 DEF TypeOK
  <2>3. \A q \in PageId : Allocated(q) /\ q # p => disk'[Place(q)] = disk[Place(q)]
    BY <1>2, <1>3, PlaceApart DEF TypeOK
  <2>4. \A g \in Frame \ {f} : frames[g].id # NoPage => frames[g].id \in PageId /\ frames[g].id # p /\ Allocated(frames[g].id)
    BY <1>1, <1>3, <2>1 DEF MapInv, TypeOK
  <2> QED BY <1>1, <1>3, <1>4, <2>1, <2>2, <2>3, <2>4
<1> QED BY <1>2, <1>5, <1>6, <1>7, Flushed

LEMMA LeastNat ==
  ASSUME NEW T, T \subseteq Nat, T # {}
  PROVE  \E x \in T : \A y \in T : x <= y
<1> DEFINE R == OpToRel(<, Nat)
<1>1. IsWellFoundedOn(OpToRel(<, Nat), Nat)
  BY NatLessThanWellFounded, Zenon
<1>2. \E x \in T : \A y \in T : ~(<<y, x>> \in OpToRel(<, Nat))
  BY <1>1, WFMin, Zenon
<1>3. \A x, y \in Nat : <<y, x>> \in OpToRel(<, Nat) <=> y < x
  BY DEF OpToRel
<1> HIDE DEF R
<1>4. \E x \in T : \A y \in T : ~(<<y, x>> \in R)
  BY <1>2, Zenon DEF R
<1>5. \A x, y \in Nat : <<y, x>> \in R <=> y < x
  BY <1>3, Zenon DEF R
<1>6. PICK x \in T : \A y \in T : ~(<<y, x>> \in R)
  BY <1>4
<1>7. x \in Nat /\ \A y \in T : y \in Nat /\ ~(y < x)
  BY <1>5, <1>6
<1>8. \A y \in T : x <= y
  BY <1>7
<1> QED BY <1>8

LEMMA HighestFrame ==
  ASSUME NEW S \in SUBSET Frame, S # {}
  PROVE  (CHOOSE f \in S : \A g \in S : g <= f) \in S
<1> DEFINE T == {PoolSize - f : f \in S}
<1>1. T \in SUBSET Nat /\ T # {}
  <2>1. \A f \in S : PoolSize - f \in Nat
    BY PoolConstants DEF Frame
  <2> QED BY <2>1
<1>2. PICK x \in T : \A y \in T : x <= y
  BY <1>1, LeastNat
<1>3. PICK f \in S : x = PoolSize - f
  BY <1>2
<1>4. \A g \in S : g <= f
  <2> SUFFICES ASSUME NEW g \in S PROVE g <= f
    OBVIOUS
  <2>1. PoolSize - f <= PoolSize - g
    BY <1>2, <1>3
  <2> QED BY <2>1, PoolConstants DEF Frame
<1> QED BY <1>4

(* Types of what flush_all_pages writes, and which pages it changes.       *)
LEMMA CleanedFields ==
  ASSUME TypeOK, NEW fd \in Fd, NEW f \in Frame
  PROVE  /\ Cleaned(fd)[f].id = frames[f].id /\ Cleaned(fd)[f].data = frames[f].data
         /\ Cleaned(fd)[f].pin = frames[f].pin
         /\ f \notin FramesOf(fd) => Cleaned(fd)[f] = frames[f]
<1>1. Cleaned(fd)[f] = IF f \in FramesOf(fd) THEN [frames[f] EXCEPT !.dirty = FALSE] ELSE frames[f]
  BY DEF Cleaned
<1>2. frames[f] \in [id: PageId \cup {NoPage}, data: Content, dirty: BOOLEAN, pin: Nat]
  BY DEF TypeOK
<1> QED BY <1>1, <1>2

LEMMA FlushedTypes ==
  ASSUME TypeOK, NEW fd \in Fd
  PROVE  /\ FlushedDisk(fd) \in [File \X PageNo -> Content \cup {Absent}]
         /\ Cleaned(fd) \in [Frame -> [id: PageId \cup {NoPage}, data: Content, dirty: BOOLEAN, pin: Nat]]
<1>1. ASSUME NEW q \in File \X PageNo PROVE FlushedDisk(fd)[q] \in Content \cup {Absent}
  <2> DEFINE copies == {f \in FramesOf(fd) : Place(frames[f].id) = q}
  <2>1. FlushedDisk(fd)[q] = IF copies = {} THEN disk[q] ELSE frames[CHOOSE f \in copies : \A g \in copies : g <= f].data
    BY DEF FlushedDisk
  <2>2. copies \in SUBSET Frame
    BY DEF FramesOf
  <2> HIDE DEF copies
  <2>3. copies # {} => (CHOOSE f \in copies : \A g \in copies : g <= f) \in Frame
    BY <2>2, HighestFrame
  <2> QED BY <2>1, <2>3 DEF TypeOK
<1>2. FlushedDisk(fd) \in [File \X PageNo -> Content \cup {Absent}]
  BY <1>1 DEF FlushedDisk
<1>3. ASSUME NEW f \in Frame
      PROVE  Cleaned(fd)[f] \in [id: PageId \cup {NoPage}, data: Content, dirty: BOOLEAN, pin: Nat]
  <2>1. Cleaned(fd)[f] = IF f \in FramesOf(fd) THEN [frames[f] EXCEPT !.dirty = FALSE] ELSE frames[f]
    BY DEF Cleaned
  <2>2. frames[f] \in [id: PageId \cup {NoPage}, data: Content, dirty: BOOLEAN, pin: Nat]
    BY DEF TypeOK
  <2> QED BY <2>1, <2>2
<1>4. Cleaned(fd) = [f \in Frame |-> Cleaned(fd)[f]]
  BY DEF Cleaned
<1> QED BY <1>2, <1>3, <1>4

LEMMA FlushAllPagesStep ==
  ASSUME IInv, NEW fd \in Fd, flush_all_pages(fd)
  PROVE  IInv' /\ (PoolInv /\ DiskInv => ViewsKept)
<1>1. /\ disk' = FlushedDisk(fd) /\ frames' = Cleaned(fd)
      /\ UNCHANGED <<page_table, free_list, LRUlist, file_of, fd2pageno, created, handle, errors>>
  BY DEF flush_all_pages, files
<1>2. TypeOK /\ FilesInv /\ NoFrame \notin Frame /\ NoPage \notin PageId
  BY PoolConstants DEF IInv, Frame, PageId, Fd, PageNo
<1>3. TypeOK'
  BY <1>1, <1>2, FlushedTypes DEF TypeOK
<1>4. ASSUME PoolInv, NEW q \in PageId, Allocated(q)
      PROVE  disk'[Place(q)] = IF q[1] = fd /\ page_table[q] # NoFrame THEN frames[page_table[q]].data ELSE disk[Place(q)]
  <2> DEFINE copies == {f \in FramesOf(fd) : Place(frames[f].id) = Place(q)}
  <2>1. /\ Place(q) \in File \X PageNo
        /\ FlushedDisk(fd)[Place(q)] = IF copies = {} THEN disk[Place(q)]
                                       ELSE frames[CHOOSE f \in copies : \A g \in copies : g <= f].data
    BY <1>2, <1>4, PlaceApart DEF FlushedDisk
  <2>2. ASSUME NEW f \in copies PROVE q[1] = fd /\ f = page_table[q] /\ f # NoFrame
    <3>1. f \in Frame /\ frames[f].id \in PageId /\ frames[f].id[1] = fd
      BY <1>2 DEF FramesOf, TypeOK
    <3>2. page_table[frames[f].id] = f /\ Allocated(frames[f].id)
      BY <1>2, <1>4, <3>1 DEF PoolInv, MapInv
    <3>3. frames[f].id = q
      BY <1>2, <1>4, <3>1, <3>2, PlaceApart
    <3> QED BY <1>2, <3>1, <3>2, <3>3
  <2>3. ASSUME q[1] = fd, page_table[q] # NoFrame PROVE page_table[q] \in copies
    <3>1. page_table[q] \in Frame /\ frames[page_table[q]].id = q
      BY <1>2, <1>4, <2>3 DEF PoolInv, MapInv, TypeOK
    <3> QED BY <1>2, <2>3, <3>1 DEF FramesOf
  <2>4. copies \in SUBSET Frame
    BY DEF FramesOf
  <2> HIDE DEF copies
  <2>5. CASE q[1] = fd /\ page_table[q] # NoFrame
    <3>1. (CHOOSE f \in copies : \A g \in copies : g <= f) \in copies
      BY <2>3, <2>4, <2>5, HighestFrame
    <3> QED BY <1>1, <2>1, <2>2, <2>3, <2>5, <3>1
  <2>6. CASE ~(q[1] = fd /\ page_table[q] # NoFrame)
    BY <1>1, <2>1, <2>2, <2>6
  <2> QED BY <2>5, <2>6
<1>5. ASSUME PoolInv
      PROVE  /\ \A g \in Frame : frames[g].id # NoPage =>
                  \/ disk'[Place(frames[g].id)] = frames[g].data
                  \/ disk'[Place(frames[g].id)] = disk[Place(frames[g].id)] /\ frames'[g].dirty = frames[g].dirty
             /\ \A q \in PageId : Allocated(q) /\ page_table[q] = NoFrame => disk'[Place(q)] = disk[Place(q)]
  <2>1. ASSUME NEW g \in Frame, frames[g].id # NoPage
        PROVE  \/ disk'[Place(frames[g].id)] = frames[g].data
               \/ disk'[Place(frames[g].id)] = disk[Place(frames[g].id)] /\ frames'[g].dirty = frames[g].dirty
    <3>1. frames[g].id \in PageId /\ page_table[frames[g].id] = g /\ Allocated(frames[g].id)
      BY <1>2, <1>5, <2>1 DEF PoolInv, MapInv, TypeOK
    <3>2. CASE frames[g].id[1] = fd
      BY <1>2, <1>4, <1>5, <3>1, <3>2
    <3>3. CASE frames[g].id[1] # fd
      <4>1. Cleaned(fd)[g] = frames[g]
        <5>1. g \notin FramesOf(fd)
          BY <3>3 DEF FramesOf
        <5> QED BY <1>2, <5>1, CleanedFields
      <4> QED BY <1>1, <1>4, <1>5, <3>1, <3>3, <4>1
    <3> QED BY <3>2, <3>3
  <2> QED BY <1>4, <1>5, <2>1
<1>6. \A f \in Frame : /\ frames'[f].id = frames[f].id /\ frames'[f].data = frames[f].data
                       /\ frames'[f].pin = frames[f].pin
  BY <1>1, <1>2, CleanedFields
<1> QED BY <1>1, <1>3, <1>5, <1>6, Flushed

LEMMA CreateFileStep ==
  ASSUME IInv, NEW file \in File, CreateFile(file)
  PROVE  IInv'
<1>1. PICK fd \in Fd :
        /\ file \notin created /\ file_of[fd] = NoFile /\ created' = created \cup {file}
        /\ file_of' = [file_of EXCEPT ![fd] = file] /\ fd2pageno' = [fd2pageno EXCEPT ![fd] = 0]
        /\ UNCHANGED <<frames, page_table, free_list, LRUlist, disk, handle, errors>>
  BY DEF CreateFile
<1>2. TypeOK /\ FilesInv /\ HandleTypes /\ NoFile \notin File
  BY PoolConstants DEF IInv, File
<1>3. /\ file_of'[fd] = file /\ fd2pageno'[fd] = 0
      /\ \A e \in Fd \ {fd} : file_of'[e] = file_of[e] /\ fd2pageno'[e] = fd2pageno[e]
  BY <1>1, <1>2 DEF TypeOK
<1>4. TypeOK' /\ HandleTypes'
  <2>1. fd2pageno' \in [Fd -> 0..NumPages]
    BY <1>1, <1>2, PoolConstants DEF TypeOK
  <2> QED BY <1>1, <1>2, <2>1 DEF TypeOK, HandleTypes
<1>5. FilesInv'
  BY <1>1, <1>2, <1>3 DEF FilesInv
<1>6. TablesKept' => TablesKept
  <2> SUFFICES ASSUME TablesKept', NEW f \in TableFile \cap created PROVE \E e \in Fd : file_of[e] = f
    BY DEF TablesKept
  <2>1. PICK e \in Fd : file_of'[e] = f
    BY <1>1 DEF TablesKept
  <2>2. e # fd
    BY <1>1, <1>3, <2>1
  <2> QED BY <1>3, <2>1, <2>2
<1>7. \A q \in PageId : Allocated(q)' <=> Allocated(q) /\ q[1] # fd
  <2> SUFFICES ASSUME NEW q \in PageId PROVE Allocated(q)' <=> Allocated(q) /\ q[1] # fd
    OBVIOUS
  <2>1. q[1] \in Fd /\ q[2] \in Nat
    BY DEF PageId, PageNo
  <2> QED BY <1>3, <2>1 DEF Allocated
<1>8. \A q \in PageId : Allocated(q) => q[1] # fd /\ Place(q)' = Place(q)
  <2> SUFFICES ASSUME NEW q \in PageId, Allocated(q) PROVE q[1] # fd /\ Place(q)' = Place(q)
    OBVIOUS
  <2>1. q[1] \in Fd /\ q[1] # fd
    BY <1>1 DEF PageId, Allocated
  <2> QED BY <1>3, <2>1 DEF Place
<1>9. ASSUME PoolInv PROVE PoolInv'
  <2>1. MapInv'
    BY <1>1, <1>7, <1>8, <1>9 DEF PoolInv, MapInv
  <2> QED BY <1>1, <1>9, <2>1 DEF PoolInv, PinInv, ListInv, Holders
<1>10. ASSUME PoolInv, DiskInv PROVE DiskInv'
  <2>1. AllListed'
    BY <1>1, <1>10 DEF DiskInv, AllListed
  <2>2. \A f \in Frame : frames[f].id # NoPage => Place(frames[f].id)' = Place(frames[f].id)
    <3> SUFFICES ASSUME NEW f \in Frame, frames[f].id # NoPage PROVE Place(frames[f].id)' = Place(frames[f].id)
      OBVIOUS
    <3>1. frames[f].id \in PageId /\ page_table[frames[f].id] = f /\ f # NoFrame
      BY <1>2, <1>10, PoolConstants DEF PoolInv, MapInv, TypeOK, Frame
    <3>2. Allocated(frames[f].id)
      BY <1>10, <3>1 DEF PoolInv, MapInv
    <3>3. frames[f].id[1] \in Fd \ {fd}
      BY <1>8, <3>1, <3>2 DEF PageId
    <3> QED BY <1>1, <1>3, <3>3 DEF Place
  <2>3. CleanInv'
    <3> SUFFICES ASSUME NEW f \in Frame, frames[f].id # NoPage, ~frames[f].dirty,
                        \A h \in Handle : ~(handle[h].page = frames[f].id /\ handle[h].wrote)
                 PROVE  disk[Place(frames[f].id)] = frames[f].data
      BY <1>1, <2>2 DEF CleanInv
    <3> QED BY <1>10 DEF DiskInv, CleanInv
  <2>4. OnDiskInv'
    BY <1>1, <1>7, <1>8, <1>10 DEF DiskInv, OnDiskInv
  <2> QED BY <2>1, <2>3, <2>4 DEF DiskInv
<1> QED BY <1>1, <1>2, <1>4, <1>5, <1>6, <1>9, <1>10 DEF IInv, Intact

LEMMA Unlinked ==
  ASSUME IInv, NEW fd \in Fd, file_of[fd] # NoFile, Unlink(fd)
  PROVE  /\ disk' \in [File \X PageNo -> Content \cup {Absent}] /\ file_of' \in [Fd -> File \cup {NoFile}]
         /\ UNCHANGED <<fd2pageno, created, handle, errors>> /\ FilesInv' /\ HandleTypes'
         /\ file_of'[fd] = NoFile /\ \A e \in Fd \ {fd} : file_of'[e] = file_of[e] /\ file_of[e] # file_of[fd]
         /\ \A q \in PageId : Allocated(q)' <=> Allocated(q) /\ q[1] # fd
         /\ \A q \in PageId : Allocated(q) /\ q[1] # fd => Place(q)' = Place(q) /\ disk'[Place(q)] = disk[Place(q)]
         /\ TablesKept' => TablesKept /\ file_of[fd] \notin TableFile
<1>1. TypeOK /\ FilesInv /\ HandleTypes /\ NoFile \notin File /\ TableFile \subseteq File
  BY PoolConstants DEF IInv, File
<1>2. /\ disk' = [q \in File \X PageNo |-> IF q[1] = file_of[fd] THEN Absent ELSE disk[q]]
      /\ file_of' = [file_of EXCEPT ![fd] = NoFile]
      /\ UNCHANGED <<fd2pageno, created, handle, errors>>
  BY DEF Unlink
<1>3. file_of'[fd] = NoFile /\ \A e \in Fd \ {fd} : file_of'[e] = file_of[e] /\ file_of[e] # file_of[fd]
  BY <1>1, <1>2 DEF TypeOK, FilesInv
<1>4. disk' \in [File \X PageNo -> Content \cup {Absent}] /\ file_of' \in [Fd -> File \cup {NoFile}]
  BY <1>1, <1>2 DEF TypeOK
<1>5. FilesInv' /\ HandleTypes'
  BY <1>1, <1>2, <1>3 DEF FilesInv, HandleTypes
<1>6. \A q \in PageId : Allocated(q)' <=> Allocated(q) /\ q[1] # fd
  <2> SUFFICES ASSUME NEW q \in PageId PROVE Allocated(q)' <=> Allocated(q) /\ q[1] # fd
    OBVIOUS
  <2>1. q[1] \in Fd
    BY DEF PageId
  <2> QED BY <1>2, <1>3, <2>1 DEF Allocated
<1>7. ASSUME NEW q \in PageId, Allocated(q), q[1] # fd
      PROVE  Place(q)' = Place(q) /\ disk'[Place(q)] = disk[Place(q)]
  <2>1. q[1] \in Fd \ {fd} /\ Place(q) \in File \X PageNo
    BY <1>1, <1>7, PlaceApart DEF PageId
  <2>2. Place(q)' = Place(q) /\ Place(q)[1] # file_of[fd]
    BY <1>3, <2>1 DEF Place
  <2> QED BY <1>2, <2>1, <2>2
<1>8. ASSUME TablesKept' PROVE TablesKept /\ file_of[fd] \notin TableFile
  <2>1. ASSUME NEW f \in TableFile \cap created PROVE \E e \in Fd : file_of[e] = f /\ e # fd
    <3>1. PICK e \in Fd : file_of'[e] = f
      BY <1>2, <1>8 DEF TablesKept
    <3> QED BY <1>1, <1>3, <3>1
  <2>2. file_of[fd] \in created
    BY <1>1 DEF FilesInv
  <2> QED BY <1>3, <2>1, <2>2 DEF TablesKept
<1> QED BY <1>2, <1>3, <1>4, <1>5, <1>6, <1>7, <1>8

LEMMA DropTableStep ==
  ASSUME IInv, NEW fd \in Fd, DropTable(fd)
  PROVE  IInv' /\ ~Intact'
<1>1. file_of[fd] \in TableFile /\ frames' = Cleaned(fd) /\ Unlink(fd) /\ UNCHANGED <<page_table, free_list, LRUlist>>
  BY DEF DropTable
<1>2. TypeOK /\ file_of[fd] # NoFile
  BY <1>1, PoolConstants DEF IInv
<1>3. TypeOK' /\ FilesInv' /\ HandleTypes' /\ ~TablesKept'
  BY <1>1, <1>2, Unlinked, FlushedTypes DEF TypeOK
<1> QED BY <1>3 DEF IInv, Intact

(* close_index: the lists after every pooled page of the file is deleted.  *)
LEMMA DeletedTypes ==
  ASSUME TypeOK, NEW fd \in Fd,
         NEW pages \in Ascending(Pooled(fd), NumPages),
         NEW S \in SUBSET DOMAIN LRUlist, NEW kept \in Ascending(S, Len(LRUlist))
  PROVE  /\ free_list \o [i \in DOMAIN pages |-> page_table[<<fd, pages[i]>>]] \in Seq(Frame)
         /\ [i \in DOMAIN kept |-> LRUlist[kept[i]]] \in Seq(Frame)
         /\ pages \in Seq(Pooled(fd)) /\ Distinct(pages) /\ DOMAIN pages = 1..Len(pages)
         /\ \A n : Contains(pages, n) <=> n \in Pooled(fd)
         /\ kept \in Seq(S) /\ Distinct(kept) /\ DOMAIN kept = 1..Len(kept)
         /\ \A i : Contains(kept, i) <=> i \in S
<1> DEFINE P == Pooled(fd)
<1>1. /\ P \in SUBSET Nat /\ NumPages \in Nat
      /\ \A n \in P : <<fd, n>> \in PageId /\ page_table[<<fd, n>>] \in Frame
  BY PoolConstants DEF Pooled, PageNo, PageId, TypeOK
<1>2. free_list \in Seq(Frame) /\ LRUlist \in Seq(Frame) /\ Len(LRUlist) \in Nat
  BY DEF TypeOK
<1>3. S \in SUBSET Nat /\ \A i \in S : LRUlist[i] \in Frame
  BY <1>2
<1>4. pages \in Ascending(P, NumPages)
  OBVIOUS
<1> HIDE DEF P
<1>5. /\ pages \in Seq(P) /\ Distinct(pages) /\ DOMAIN pages = 1..Len(pages)
      /\ \A n : Contains(pages, n) <=> n \in P
  BY <1>1, <1>4, AscendingList
<1>6. /\ kept \in Seq(S) /\ Distinct(kept) /\ DOMAIN kept = 1..Len(kept)
      /\ \A i : Contains(kept, i) <=> i \in S
  BY <1>2, <1>3, AscendingList
<1>7. [i \in 1..Len(pages) |-> page_table[<<fd, pages[i]>>]] \in Seq(Frame)
  <2>1. Len(pages) \in Nat /\ \A i \in 1..Len(pages) : pages[i] \in P
    BY <1>5
  <2>2. \A i \in 1..Len(pages) : page_table[<<fd, pages[i]>>] \in Frame
    BY <1>1, <2>1
  <2> QED BY <2>1, <2>2
<1>8. [i \in 1..Len(kept) |-> LRUlist[kept[i]]] \in Seq(Frame)
  <2>1. Len(kept) \in Nat /\ \A i \in 1..Len(kept) : kept[i] \in S
    BY <1>6
  <2>2. \A i \in 1..Len(kept) : LRUlist[kept[i]] \in Frame
    BY <1>3, <2>1
  <2> QED BY <2>1, <2>2
<1>9. free_list \o [i \in 1..Len(pages) |-> page_table[<<fd, pages[i]>>]] \in Seq(Frame)
  BY <1>2, <1>7
<1> QED BY <1>5, <1>6, <1>8, <1>9 DEF P

(* Nobody holds a page of the file, so all its pages in the pool go.       *)
LEMMA PooledAll ==
  ASSUME TypeOK, PoolInv, NEW fd \in Fd, Unused(fd)
  PROVE  /\ \A n \in PageNo : n \in Pooled(fd) <=> page_table[<<fd, n>>] # NoFrame
         /\ \A f \in Frame : f \in FramesOf(fd) <=> \E n \in Pooled(fd) : f = page_table[<<fd, n>>]
<1>1. MapInv /\ NoPage \notin PageId /\ NoFrame \notin Frame
  BY PoolConstants DEF PoolInv, PageId, Fd, PageNo, Frame
<1>2. ASSUME NEW n \in PageNo, page_table[<<fd, n>>] # NoFrame PROVE n \in Pooled(fd)
  <2>1. <<fd, n>> \in PageId
    BY DEF PageId
  <2>2. PICK g \in Frame : g = page_table[<<fd, n>>]
    BY <1>2, <2>1 DEF TypeOK
  <2>3. frames[g].id = <<fd, n>> /\ n < fd2pageno[fd]
    BY <1>1, <1>2, <2>1, <2>2 DEF MapInv, Allocated
  <2>4. Holders(g) = {}
    <3> SUFFICES ASSUME NEW h \in Handle, handle[h].page # NoPage, page_table[handle[h].page] = g PROVE FALSE
      BY DEF Holders
    <3>1. handle[h].page \in PageId
      BY DEF TypeOK
    <3>2. frames[g].id = handle[h].page
      BY <1>1, <3>1 DEF MapInv
    <3> QED BY <2>3, <3>2 DEF Unused
  <2>5. frames[g].pin = 0
    BY <2>4, NoHolder
  <2> QED BY <2>2, <2>3, <2>5, <1>2 DEF Pooled
<1>3. ASSUME NEW f \in FramesOf(fd) PROVE \E n \in Pooled(fd) : f = page_table[<<fd, n>>]
  <2>1. f \in Frame /\ frames[f].id \in PageId /\ frames[f].id[1] = fd
    BY DEF FramesOf, TypeOK
  <2>2. page_table[frames[f].id] = f
    BY <1>1, <2>1 DEF MapInv
  <2>3. PICK n \in PageNo : frames[f].id = <<fd, n>>
    BY <2>1 DEF PageId
  <2>4. n \in Pooled(fd)
    BY <1>1, <1>2, <2>1, <2>2, <2>3
  <2> QED BY <2>2, <2>3, <2>4
<1>4. ASSUME NEW n \in Pooled(fd) PROVE page_table[<<fd, n>>] \in FramesOf(fd)
  <2>1. n \in PageNo /\ <<fd, n>> \in PageId /\ page_table[<<fd, n>>] # NoFrame
    BY DEF Pooled, PageId
  <2>2. page_table[<<fd, n>>] \in Frame /\ frames[page_table[<<fd, n>>]].id = <<fd, n>>
    BY <1>1, <2>1 DEF MapInv, TypeOK
  <2> QED BY <1>1, <2>1, <2>2 DEF FramesOf
<1>5. \A n \in Pooled(fd) : n \in PageNo /\ page_table[<<fd, n>>] # NoFrame
  BY DEF Pooled
<1> QED BY <1>2, <1>3, <1>4, <1>5

LEMMA DeletedLists ==
  ASSUME TypeOK, PoolInv, NEW fd \in Fd, Unused(fd),
         NEW pages \in Ascending(Pooled(fd), NumPages),
         NEW kept \in Ascending({i \in DOMAIN LRUlist : LRUlist[i] \notin FramesOf(fd)}, Len(LRUlist)),
         free_list' = free_list \o [i \in DOMAIN pages |-> page_table[<<fd, pages[i]>>]],
         LRUlist' = [i \in DOMAIN kept |-> LRUlist[kept[i]]]
  PROVE  /\ Distinct(free_list') /\ Distinct(LRUlist')
         /\ \A f \in Frame : Contains(free_list', f) <=> Contains(free_list, f) \/ f \in FramesOf(fd)
         /\ \A f \in Frame : Contains(LRUlist', f) <=> Contains(LRUlist, f) /\ f \notin FramesOf(fd)
<1> DEFINE S == {i \in DOMAIN LRUlist : LRUlist[i] \notin FramesOf(fd)}
           P == Pooled(fd)
           m == [n \in P |-> page_table[<<fd, n>>]]
           k == [i \in S |-> LRUlist[i]]
<1>0. kept \in Ascending(S, Len(LRUlist)) /\ S \in SUBSET DOMAIN LRUlist
  OBVIOUS
<1>1. MapInv /\ ListInv /\ free_list \in Seq(Frame) /\ LRUlist \in Seq(Frame) /\ FramesOf(fd) \in SUBSET Frame
  BY DEF PoolInv, TypeOK, FramesOf
<1>2. /\ pages \in Seq(P) /\ Distinct(pages) /\ DOMAIN pages = 1..Len(pages)
      /\ \A n : Contains(pages, n) <=> n \in P
      /\ kept \in Seq(S) /\ Distinct(kept) /\ DOMAIN kept = 1..Len(kept)
      /\ \A i : Contains(kept, i) <=> i \in S
  <2> HIDE DEF S, P
  <2> QED BY <1>0, DeletedTypes DEF P
<1>3. m \in [P -> Frame] /\ \A x, y \in P : m[x] = m[y] => x = y
  <2>1. \A n \in P : <<fd, n>> \in PageId /\ m[n] = page_table[<<fd, n>>] /\ m[n] # NoFrame
    BY DEF Pooled, PageId
  <2>2. \A n \in P : m[n] \in Frame /\ frames[m[n]].id = <<fd, n>>
    BY <1>1, <2>1 DEF MapInv, TypeOK
  <2>3. \A x, y \in P : m[x] = m[y] => <<fd, x>> = <<fd, y>>
    BY <2>2
  <2> QED BY <2>2, <2>3
<1>4. k \in [S -> Frame] /\ \A x, y \in S : k[x] = k[y] => x = y
  <2>1. \A i \in S : i \in 1..Len(LRUlist)
    BY <1>1
  <2> HIDE DEF S
  <2>2. \A i \in S : LRUlist[i] \in Frame
    BY <1>1, <2>1
  <2> QED BY <1>1, <2>1, <2>2 DEF ListInv, Distinct
<1>5. \A f \in Frame : f \in FramesOf(fd) <=> \E n \in P : m[n] = f
  BY PooledAll
<1>6. \A f : (\E i \in S : k[i] = f) <=> Contains(LRUlist, f) /\ f \notin FramesOf(fd)
  <2>1. \A i : i \in S <=> i \in 1..Len(LRUlist) /\ LRUlist[i] \notin FramesOf(fd)
    BY <1>1
  <2>2. \A i \in S : k[i] = LRUlist[i]
    OBVIOUS
  <2> HIDE DEF S, k
  <2> QED BY <2>1, <2>2 DEF Contains
<1>7. /\ \A i \in 1..Len(pages) : pages[i] \in P /\ m[pages[i]] = page_table[<<fd, pages[i]>>]
      /\ \A i \in 1..Len(kept) : kept[i] \in S /\ k[kept[i]] = LRUlist[kept[i]]
  BY <1>2
<1> DEFINE a == [i \in 1..Len(pages) |-> m[pages[i]]]
           b == [i \in 1..Len(kept) |-> k[kept[i]]]
<1>8. free_list' = free_list \o a /\ LRUlist' = b
  <2>1. a = [i \in DOMAIN pages |-> page_table[<<fd, pages[i]>>]]
    BY <1>2, <1>7
  <2>2. b = [i \in DOMAIN kept |-> LRUlist[kept[i]]]
    BY <1>2, <1>7
  <2> QED BY <2>1, <2>2
<1>9. /\ a \in Seq(Frame) /\ Len(a) = Len(pages) /\ \A i \in 1..Len(pages) : a[i] = m[pages[i]]
      /\ b \in Seq(Frame) /\ Len(b) = Len(kept) /\ \A i \in 1..Len(kept) : b[i] = k[kept[i]]
  <2> HIDE DEF P, S, m, k
  <2>1. Len(pages) \in Nat /\ \A i \in 1..Len(pages) : m[pages[i]] \in Frame
    BY <1>2, <1>3, <1>7
  <2>2. Len(kept) \in Nat /\ \A i \in 1..Len(kept) : k[kept[i]] \in Frame
    BY <1>2, <1>4, <1>7
  <2> QED BY <2>1, <2>2
<1> HIDE DEF S, P, m, k, a, b
<1>10. /\ a \in Seq(Frame) /\ Distinct(a)
       /\ \A e : Contains(a, e) <=> \E x \in P : Contains(pages, x) /\ m[x] = e
  BY <1>2, <1>3, <1>9, MapList
<1>11. /\ b \in Seq(Frame) /\ Distinct(b)
       /\ \A e : Contains(b, e) <=> \E x \in S : Contains(kept, x) /\ k[x] = e
  BY <1>2, <1>4, <1>9, MapList
<1>12. \A f \in Frame : Contains(a, f) <=> f \in FramesOf(fd)
  BY <1>2, <1>5, <1>10
<1>13. \A f \in Frame : Contains(b, f) <=> Contains(LRUlist, f) /\ f \notin FramesOf(fd)
  BY <1>2, <1>6, <1>11
<1>14. \A f \in Frame : ~(Contains(free_list, f) /\ Contains(a, f))
  BY <1>1, <1>12 DEF ListInv, FramesOf
<1>15. Distinct(free_list \o a) /\ \A e : Contains(free_list \o a, e) <=> Contains(free_list, e) \/ Contains(a, e)
  BY <1>1, <1>10, <1>14, ConcatList DEF ListInv
<1>16. free_list' = free_list \o a /\ LRUlist' = b
  BY <1>8
<1>17. Distinct(free_list') /\ \A f \in Frame : Contains(free_list', f) <=> Contains(free_list, f) \/ f \in FramesOf(fd)
  <2> DEFINE c == free_list \o a
  <2>1. Distinct(c) /\ \A f \in Frame : Contains(c, f) <=> Contains(free_list, f) \/ f \in FramesOf(fd)
    BY <1>12, <1>15
  <2>2. free_list' = c
    BY <1>16
  <2> QED BY ONLY <2>1, <2>2, Zenon
<1>18. Distinct(LRUlist') /\ \A f \in Frame : Contains(LRUlist', f) <=> Contains(LRUlist, f) /\ f \notin FramesOf(fd)
  BY ONLY <1>11, <1>13, <1>16, Zenon
<1> QED BY <1>17, <1>18

LEMMA DropIndexStep ==
  ASSUME IInv, NEW fd \in Fd, DropIndex(fd)
  PROVE  /\ IInv'
         /\ PoolInv => /\ \A p \in PageId : p[1] # fd => page_table'[p] = page_table[p]
                       /\ \A f \in Frame \ FramesOf(fd) : frames'[f] = frames[f]
<1> DEFINE gone == {<<fd, n>> : n \in Pooled(fd)}
           freed == {page_table[p] : p \in gone}
           S == {i \in DOMAIN LRUlist : LRUlist[i] \notin freed}
<1>1. /\ file_of[fd] \in IndexFile /\ Unused(fd) /\ Unlink(fd)
      /\ page_table' = [p \in PageId |-> IF p \in gone THEN NoFrame ELSE page_table[p]]
      /\ frames' = [f \in Frame |-> IF f \in freed THEN FreshFrame ELSE Cleaned(fd)[f]]
  BY DEF DropIndex
<1>2. PICK pages \in Ascending(Pooled(fd), NumPages) :
        free_list' = free_list \o [i \in DOMAIN pages |-> page_table[<<fd, pages[i]>>]]
  BY DEF DropIndex
<1>3. PICK kept \in Ascending(S, Len(LRUlist)) : LRUlist' = [i \in DOMAIN kept |-> LRUlist[kept[i]]]
  BY DEF DropIndex
<1>4. /\ TypeOK /\ FilesInv /\ HandleTypes /\ file_of[fd] # NoFile
      /\ NoFrame \notin Frame /\ NoPage \notin PageId
  BY <1>1, PoolConstants DEF IInv, Frame, PageId, Fd, PageNo
<1>5. /\ disk' \in [File \X PageNo -> Content \cup {Absent}] /\ file_of' \in [Fd -> File \cup {NoFile}]
      /\ UNCHANGED <<fd2pageno, created, handle, errors>> /\ FilesInv' /\ HandleTypes'
      /\ \A q \in PageId : Allocated(q)' <=> Allocated(q) /\ q[1] # fd
      /\ \A q \in PageId : Allocated(q) /\ q[1] # fd => Place(q)' = Place(q) /\ disk'[Place(q)] = disk[Place(q)]
      /\ TablesKept' => TablesKept
  BY <1>1, <1>4, Unlinked
<1>6. TypeOK'
  <2>1. free_list' \in Seq(Frame) /\ LRUlist' \in Seq(Frame)
    <3>1. S \in SUBSET DOMAIN LRUlist
      OBVIOUS
    <3> HIDE DEF S
    <3> QED BY <1>2, <1>3, <1>4, <3>1, DeletedTypes
  <2>2. page_table' \in [PageId -> Frame \cup {NoFrame}]
    BY <1>1, <1>4 DEF TypeOK
  <2>3. frames' \in [Frame -> [id: PageId \cup {NoPage}, data: Content, dirty: BOOLEAN, pin: Nat]]
    <3>1. FreshFrame \in [id: PageId \cup {NoPage}, data: Content, dirty: BOOLEAN, pin: Nat]
      BY DEF FreshFrame, Content
    <3> HIDE DEF freed
    <3> QED BY <1>1, <1>4, <3>1, FlushedTypes
  <2> QED BY <1>4, <1>5, <2>1, <2>2, <2>3 DEF TypeOK
<1>7. ASSUME PoolInv
      PROVE  /\ freed = FramesOf(fd)
             /\ \A p \in PageId : page_table'[p] = IF p[1] = fd THEN NoFrame ELSE page_table[p]
             /\ \A f \in FramesOf(fd) : frames'[f] = FreshFrame
             /\ \A f \in Frame \ FramesOf(fd) : frames'[f] = frames[f]
             /\ Distinct(free_list') /\ Distinct(LRUlist')
             /\ \A f \in Frame : Contains(free_list', f) <=> Contains(free_list, f) \/ f \in FramesOf(fd)
             /\ \A f \in Frame : Contains(LRUlist', f) <=> Contains(LRUlist, f) /\ f \notin FramesOf(fd)
  <2>1. /\ \A n \in PageNo : n \in Pooled(fd) <=> page_table[<<fd, n>>] # NoFrame
        /\ \A f \in Frame : f \in FramesOf(fd) <=> \E n \in Pooled(fd) : f = page_table[<<fd, n>>]
    BY <1>1, <1>4, <1>7, PooledAll
  <2>2. \A n \in Pooled(fd) : n \in PageNo /\ <<fd, n>> \in PageId /\ page_table[<<fd, n>>] \in Frame
    BY <1>4 DEF Pooled, PageId, TypeOK
  <2>3. freed = FramesOf(fd)
    <3>1. \A f : f \in freed <=> \E n \in Pooled(fd) : f = page_table[<<fd, n>>]
      OBVIOUS
    <3>2. \A f \in FramesOf(fd) : f \in Frame
      BY DEF FramesOf
    <3>3. \A f \in freed : f \in Frame
      BY <2>2, <3>1
    <3> HIDE DEF freed
    <3> QED BY <2>1, <3>1, <3>2, <3>3
  <2>4. \A p \in PageId : page_table'[p] = IF p[1] = fd THEN NoFrame ELSE page_table[p]
    <3> SUFFICES ASSUME NEW p \in PageId
                 PROVE  page_table'[p] = IF p[1] = fd THEN NoFrame ELSE page_table[p]
      OBVIOUS
    <3>1. PICK n \in PageNo : p = <<p[1], n>>
      BY DEF PageId
    <3>2. p \in gone <=> p[1] = fd /\ n \in Pooled(fd)
      BY <3>1
    <3>3. page_table'[p] = IF p \in gone THEN NoFrame ELSE page_table[p]
      BY <1>1
    <3> HIDE DEF gone
    <3> QED BY <2>1, <3>1, <3>2, <3>3
  <2> HIDE DEF freed
  <2>5. /\ \A f \in FramesOf(fd) : frames'[f] = FreshFrame
        /\ \A f \in Frame \ FramesOf(fd) : frames'[f] = frames[f]
    <3>1. \A f \in FramesOf(fd) : f \in Frame
      BY DEF FramesOf
    <3> QED BY <1>1, <1>4, <2>3, <3>1, CleanedFields
  <2>6. kept \in Ascending({i \in DOMAIN LRUlist : LRUlist[i] \notin FramesOf(fd)}, Len(LRUlist))
    BY <1>3, <2>3
  <2>7. /\ Distinct(free_list') /\ Distinct(LRUlist')
        /\ \A f \in Frame : Contains(free_list', f) <=> Contains(free_list, f) \/ f \in FramesOf(fd)
        /\ \A f \in Frame : Contains(LRUlist', f) <=> Contains(LRUlist, f) /\ f \notin FramesOf(fd)
    BY <1>1, <1>2, <1>3, <1>4, <1>7, <2>6, DeletedLists
  <2> QED BY <2>3, <2>4, <2>5, <2>7
<1> HIDE DEF freed, gone, S
<1>8. ASSUME PoolInv PROVE PoolInv'
  <2>1. MapInv /\ PinInv /\ ListInv
    BY <1>8 DEF PoolInv
  <2>2. \A p \in PageId : page_table[p] # NoFrame =>
          page_table[p] \in Frame /\ (page_table[p] \in FramesOf(fd) <=> p[1] = fd)
    BY <1>4, <2>1 DEF MapInv, FramesOf, TypeOK
  <2>3. \A f \in Frame : f \in FramesOf(fd) <=> frames[f].id # NoPage /\ frames[f].id[1] = fd
    BY DEF FramesOf
  <2>4. \A f \in FramesOf(fd) : frames'[f].id = NoPage /\ frames'[f].pin = 0
    BY <1>7, <1>8 DEF FreshFrame
  <2>5. MapInv'
    <3>1. ASSUME NEW p \in PageId, page_table'[p] # NoFrame
          PROVE  frames'[page_table'[p]].id = p /\ Allocated(p)'
      <4>1. p[1] # fd /\ page_table'[p] = page_table[p]
        BY <1>7, <1>8, <3>1
      <4> QED BY <1>5, <1>7, <1>8, <2>1, <2>2, <3>1, <4>1 DEF MapInv
    <3>2. ASSUME NEW f \in Frame, frames'[f].id # NoPage PROVE page_table'[frames'[f].id] = f
      <4>1. f \notin FramesOf(fd) /\ frames'[f] = frames[f]
        BY <1>7, <1>8, <2>4, <3>2
      <4>2. frames[f].id \in PageId
        BY <1>4, <3>2, <4>1 DEF TypeOK
      <4> QED BY <1>7, <1>8, <2>1, <2>3, <3>2, <4>1, <4>2 DEF MapInv
    <3> QED BY <3>1, <3>2 DEF MapInv
  <2>6. \A h \in Handle : handle[h].page # NoPage =>
          handle[h].page \in PageId /\ page_table'[handle[h].page] = page_table[handle[h].page]
    BY <1>1, <1>4, <1>7, <1>8 DEF Unused, TypeOK
  <2>7. ASSUME NEW f \in Frame PROVE frames'[f].pin = Cardinality(Holders(f))'
    <3>1. Holders(f)' = Holders(f)
      BY <1>5, <2>6 DEF Holders
    <3>2. CASE f \in FramesOf(fd)
      <4>1. Holders(f) = {}
        <5> SUFFICES ASSUME NEW h \in Handle, handle[h].page # NoPage, page_table[handle[h].page] = f PROVE FALSE
          BY DEF Holders
        <5> QED BY <1>1, <1>4, <2>2, <2>6, <3>2 DEF Unused
      <4> QED BY <2>4, <3>1, <3>2, <4>1, FS_EmptySet
    <3>3. CASE f \notin FramesOf(fd)
      BY <1>7, <1>8, <2>1, <3>1, <3>3 DEF PinInv
    <3> QED BY <3>2, <3>3
  <2>8. PinInv'
    BY <1>5, <2>1, <2>6, <2>7 DEF PinInv
  <2>9. ListInv'
    BY <1>7, <1>8, <2>1, <2>4 DEF ListInv
  <2> QED BY <2>5, <2>8, <2>9 DEF PoolInv
<1>9. ASSUME PoolInv, DiskInv PROVE DiskInv'
  <2>1. AllListed'
    BY <1>7, <1>9 DEF DiskInv, AllListed
  <2>2. CleanInv'
    <3> SUFFICES ASSUME NEW f \in Frame, frames'[f].id # NoPage, ~frames'[f].dirty,
                        \A h \in Handle : ~(handle[h].page = frames'[f].id /\ handle[h].wrote)
                 PROVE  disk'[Place(frames[f].id)'] = frames'[f].data
      BY <1>5 DEF CleanInv, Place
    <3>1. f \notin FramesOf(fd) /\ frames'[f] = frames[f]
      BY <1>7, <1>9 DEF FreshFrame
    <3>2. frames[f].id \in PageId /\ frames[f].id[1] # fd /\ page_table[frames[f].id] = f
      BY <1>4, <1>9, <3>1 DEF TypeOK, FramesOf, PoolInv, MapInv
    <3>3. Allocated(frames[f].id)
      BY <1>4, <1>9, <3>2 DEF PoolInv, MapInv
    <3>4. disk[Place(frames[f].id)] = frames[f].data
      BY <1>9, <3>1 DEF DiskInv, CleanInv
    <3>5. PICK q \in PageId : q = frames[f].id
      BY <3>2
    <3>6. Place(q)' = Place(q) /\ disk'[Place(q)] = disk[Place(q)]
      BY <1>5, <3>2, <3>3, <3>5
    <3>7. Place(frames[f].id)' = Place(q)'
      BY <3>1, <3>5 DEF Place
    <3> QED BY <3>1, <3>4, <3>5, <3>6, <3>7
  <2>3. OnDiskInv'
    BY <1>5, <1>7, <1>9 DEF DiskInv, OnDiskInv
  <2> QED BY <2>1, <2>2, <2>3 DEF DiskInv
<1>10. IInv'
  BY <1>5, <1>6, <1>8, <1>9 DEF IInv, Intact
<1> QED BY <1>7, <1>10

-----------------------------------------------------------------------------
LEMMA InitInv == Init => IInv
<1> SUFFICES ASSUME Init PROVE IInv
  OBVIOUS
<1>1. PoolSize \in Nat /\ NumPages \in Nat /\ MaxErrors \in Nat /\ NoFile \notin File
  BY PoolConstants DEF File
<1>2. TypeOK
  <2>1. /\ frames \in [Frame -> [id: PageId \cup {NoPage}, data: Content, dirty: BOOLEAN, pin: Nat]]
        /\ handle \in [Handle -> [page: PageId \cup {NoPage}, frame: Frame \cup {NoFrame}, wrote: BOOLEAN]]
    BY DEF Init, FreshFrame, Idle, Content
  <2>2. free_list \in Seq(Frame) /\ LRUlist \in Seq(Frame)
    BY <1>1 DEF Init, Frame
  <2> QED BY <1>1, <2>1, <2>2 DEF Init, TypeOK
<1>3. FilesInv /\ HandleTypes
  BY DEF Init, FilesInv, HandleTypes, Idle
<1>4. /\ \A f \in Frame : frames[f].id = NoPage /\ frames[f].pin = 0
      /\ \A h \in Handle : handle[h].page = NoPage
      /\ \A p \in PageId : page_table[p] = NoFrame /\ ~Allocated(p)
  BY DEF Init, FreshFrame, Idle, Allocated, PageId
<1>5. /\ Distinct(free_list) /\ Distinct(LRUlist)
      /\ \A f \in Frame : Contains(free_list, f) /\ ~Contains(LRUlist, f)
  <2>1. Len(free_list) = PoolSize /\ \A i \in 1..PoolSize : free_list[i] = i
    BY <1>1 DEF Init, Frame
  <2>2. Len(LRUlist) = 0
    BY DEF Init
  <2> QED BY <1>1, <2>1, <2>2 DEF Distinct, Contains, Frame
<1>6. PoolInv
  <2>1. \A f \in Frame : Holders(f) = {}
    BY <1>4 DEF Holders
  <2> QED BY <1>4, <1>5, <2>1, FS_EmptySet DEF PoolInv, MapInv, PinInv, ListInv
<1>7. DiskInv
  BY <1>4, <1>5 DEF DiskInv, AllListed, CleanInv, OnDiskInv
<1> QED BY <1>2, <1>3, <1>6, <1>7 DEF IInv

LEMMA StepInv == IInv /\ [Next]_vars => IInv'
<1> SUFFICES ASSUME IInv, [Next]_vars PROVE IInv'
  OBVIOUS
<1>1. ASSUME NEW h \in Handle, NEW p \in PageId, FetchHit(h, p) \/ FetchMiss(h, p) \/ FetchReadFails(h, p)
      PROVE  IInv'
  BY <1>1, FetchHitStep, FetchMissStep, FetchReadFailsStep
<1>2. ASSUME NEW h \in Handle, NEW fd \in Fd, new_page(h, fd) PROVE IInv'
  BY <1>2, NewPageStep
<1>3. ASSUME NEW h \in Handle, NEW d \in Data, WritePage(h, d) PROVE IInv'
  BY <1>3, WritePageStep
<1>4. ASSUME NEW h \in Handle, unpin_page(h) \/ WriteBackFails(h) PROVE IInv'
  BY <1>4, UnpinPageStep, WriteBackFailsStep
<1>5. ASSUME NEW p \in PageId, flush_page(p) PROVE IInv'
  BY <1>5, FlushPageStep
<1>6. ASSUME NEW fd \in Fd, flush_all_pages(fd) \/ DropTable(fd) \/ DropIndex(fd) PROVE IInv'
  BY <1>6, FlushAllPagesStep, DropTableStep, DropIndexStep
<1>7. ASSUME NEW file \in File, CreateFile(file) PROVE IInv'
  BY <1>7, CreateFileStep
<1>8. CASE UNCHANGED vars
  BY <1>8 DEF vars, IInv, TypeOK, FilesInv, HandleTypes, TablesKept, Intact, PoolInv, MapInv, PinInv, ListInv,
              DiskInv, AllListed, CleanInv, OnDiskInv, Holders, Allocated, Place
<1> QED BY <1>1, <1>2, <1>3, <1>4, <1>5, <1>6, <1>7, <1>8, Zenon DEF Next

(* Every reachable state of the buffer pool satisfies the invariant.       *)
THEOREM PoolInvariant == Spec => []IInv
BY InitInv, StepInv, PTL DEF Spec

(* page_table_ and id_ are inverse, pin_count_ counts the holders, and a   *)
(* clean frame nobody has written is the page on disk, in every run of     *)
(* fetch_page, new_page, unpin_page, flush and close                       *)
(* (buffer_pool_manager.cpp), as long as no table has been dropped, and    *)
(* for the last no read or write has failed.                               *)
THEOREM PoolExactAlways == Spec => []PoolExact
<1>1. IInv => PoolExact
  <2> SUFFICES ASSUME IInv PROVE PoolExact
    OBVIOUS
  <2>1. PageTableExact
    BY DEF IInv, PoolInv, MapInv, PageTableExact
  <2>2. PinsMatch
    BY DEF IInv, PoolInv, PinInv, PinsMatch, Holders
  <2>3. CleanIsDurable
    BY DEF IInv, DiskInv, CleanInv, CleanIsDurable
  <2> QED BY <2>1, <2>2, <2>3 DEF IInv, PoolExact
<1> QED BY <1>1, PoolInvariant, PTL

(* Every frame is free, evictable or pinned, and in no list twice: no      *)
(* frame is lost by find_victim_page, pin, unpin or delete_page.           *)
THEOREM FramesAccountedAlways == Spec => []FramesAccounted
<1>1. IInv => FramesAccounted
  <2> SUFFICES ASSUME IInv, Intact
               PROVE  LET places == free_list \o LRUlist
                      IN  /\ \A f \in Frame : (frames[f].pin = 0) <=> Contains(places, f)
                          /\ \A i, j \in DOMAIN places : places[i] = places[j] => i = j
    BY DEF FramesAccounted
  <2>1. TypeOK /\ PoolInv /\ ListInv /\ AllListed
    BY DEF IInv, Intact, DiskInv, PoolInv
  <2>2. free_list \in Seq(Frame) /\ LRUlist \in Seq(Frame) /\ Distinct(free_list) /\ Distinct(LRUlist)
    BY <2>1 DEF TypeOK, ListInv
  <2>3. \A f \in Frame : ~(Contains(free_list, f) /\ Contains(LRUlist, f))
    BY <2>1 DEF ListInv
  <2>4. PICK places \in Seq(Frame) : places = free_list \o LRUlist
    <3>1. free_list \o LRUlist \in Seq(Frame)
      BY <2>2
    <3> QED BY <3>1, Zenon
  <2>5. Distinct(places) /\ \A f : Contains(places, f) <=> Contains(free_list, f) \/ Contains(LRUlist, f)
    BY <2>2, <2>3, <2>4, ConcatList
  <2>6. \A i, j \in DOMAIN places : places[i] = places[j] => i = j
    BY <2>5 DEF Distinct
  <2>7. \A f \in Frame : Contains(free_list, f) => frames[f].pin = 0
    BY <2>1, NoHolder DEF ListInv
  <2>8. \A f \in Frame : (frames[f].pin = 0) <=> Contains(places, f)
    BY <2>1, <2>5, <2>7 DEF ListInv, AllListed
  <2> QED BY <2>4, <2>6, <2>8
<1> QED BY <1>1, PoolInvariant, PTL

-----------------------------------------------------------------------------
(* The refinement.                                                         *)

SeenExact ==
  /\ \A p \in PageId : Allocated(p) => Seen(Place(p)) = View(p)
  /\ \A q : (\A p \in PageId : ~(Place(p) = q /\ Allocated(p))) => Seen(q) = Absent

LEMMA SeenFacts == TypeOK /\ FilesInv => SeenExact
<1> SUFFICES ASSUME TypeOK, FilesInv PROVE SeenExact
  OBVIOUS
<1>1. ASSUME NEW p \in PageId, Allocated(p) PROVE Seen(Place(p)) = View(p)
  <2> DEFINE names == {n \in PageId : Place(n) = Place(p) /\ Allocated(n)}
  <2>1. names = {p}
    BY <1>1, PlaceApart
  <2>2. (CHOOSE n \in names : TRUE) = p
    BY <2>1
  <2>3. Seen(Place(p)) = IF names = {} THEN Absent
                         ELSE IF page_table[CHOOSE n \in names : TRUE] = NoFrame THEN disk[Place(p)]
                         ELSE frames[page_table[CHOOSE n \in names : TRUE]].data
    BY DEF Seen
  <2> HIDE DEF names
  <2> QED BY <2>1, <2>2, <2>3 DEF View
<1>2. ASSUME NEW q, \A p \in PageId : ~(Place(p) = q /\ Allocated(p)) PROVE Seen(q) = Absent
  <2>1. {n \in PageId : Place(n) = q /\ Allocated(n)} = {}
    BY <1>2
  <2> QED BY <2>1 DEF Seen
<1> QED BY <1>1, <1>2 DEF SeenExact

LEMMA SeenFactsNext == (TypeOK /\ FilesInv => SeenExact)'
BY SeenFacts, PTL

LEMMA ContentAt ==
  ASSUME TypeOK, FilesInv, SeenExact
  PROVE  /\ \A p \in PageId : Allocated(p) => Place(p) \in File \X PageNo /\ StoreContent[Place(p)] = View(p)
         /\ \A q \in File \X PageNo : (\A p \in PageId : ~(Place(p) = q /\ Allocated(p))) => StoreContent[q] = Absent
<1>1. \A p \in PageId : Allocated(p) => Place(p) \in File \X PageNo
  BY PlaceApart
<1>2. \A q \in File \X PageNo : StoreContent[q] = Seen(q)
  BY DEF StoreContent
<1> QED BY <1>1, <1>2 DEF SeenExact

(* The same for the primed state.                                          *)
LEMMA ContentAtNext ==
  (TypeOK /\ FilesInv =>
     /\ \A p \in PageId : Allocated(p) => Place(p) \in File \X PageNo /\ StoreContent[Place(p)] = View(p)
     /\ \A q \in File \X PageNo :
          (\A p \in PageId : ~(Place(p) = q /\ Allocated(p))) => StoreContent[q] = Absent)'
<1>1. TypeOK /\ FilesInv =>
        /\ \A p \in PageId : Allocated(p) => Place(p) \in File \X PageNo /\ StoreContent[Place(p)] = View(p)
        /\ \A q \in File \X PageNo :
             (\A p \in PageId : ~(Place(p) = q /\ Allocated(p))) => StoreContent[q] = Absent
  BY SeenFacts, ContentAt
<1> QED BY <1>1, PTL

(* A step that changes no page a caller can see.                           *)
LEMMA SameContent ==
  ASSUME IInv, IInv', \A q \in PageId : Allocated(q)' <=> Allocated(q),
         \A q \in PageId : Allocated(q) => Place(q)' = Place(q), ViewsKept
  PROVE  StoreContent' = StoreContent
<1>1. TypeOK /\ FilesInv /\ TypeOK' /\ FilesInv'
  BY DEF IInv
<1>2. /\ \A p \in PageId : Allocated(p) => Place(p) \in File \X PageNo /\ StoreContent[Place(p)] = View(p)
      /\ \A q \in File \X PageNo : (\A p \in PageId : ~(Place(p) = q /\ Allocated(p))) => StoreContent[q] = Absent
  BY <1>1, SeenFacts, ContentAt
<1>3. /\ \A p \in PageId : Allocated(p)' => StoreContent'[Place(p)'] = View(p)'
      /\ \A q \in File \X PageNo : (\A p \in PageId : ~(Place(p)' = q /\ Allocated(p)')) => StoreContent'[q] = Absent
  BY <1>1, ContentAtNext
<1>4. ASSUME NEW q \in File \X PageNo PROVE StoreContent'[q] = StoreContent[q]
  <2>1. CASE \E p \in PageId : Place(p) = q /\ Allocated(p)
    <3>1. PICK p \in PageId : Place(p) = q /\ Allocated(p)
      BY <2>1
    <3> QED BY <1>2, <1>3, <3>1 DEF ViewsKept
  <2>2. CASE ~\E p \in PageId : Place(p) = q /\ Allocated(p)
    BY <1>2, <1>3, <2>2
  <2> QED BY <2>1, <2>2
<1>5. /\ StoreContent = [q \in File \X PageNo |-> StoreContent[q]]
      /\ StoreContent' = [q \in File \X PageNo |-> StoreContent'[q]]
  BY DEF StoreContent
<1> QED BY <1>4, <1>5

(* What the callers hold, in terms of the store.                           *)
LEMMA HeldPages ==
  ASSUME IInv, Intact
  PROVE  /\ PoolInv /\ DiskInv /\ NoPage \notin PageId /\ NoPage \notin File \X PageNo
         /\ \A h \in Handle : handle[h].page # NoPage =>
              handle[h].page \in PageId /\ Allocated(handle[h].page) /\ Place(handle[h].page) \in File \X PageNo
         /\ \A h \in Handle : StoreHeld[h] = IF handle[h].page = NoPage THEN NoPage ELSE Place(handle[h].page)
<1>1. TypeOK /\ FilesInv /\ HandleTypes /\ PoolInv /\ DiskInv /\ MapInv /\ PinInv
  BY DEF IInv, Intact, PoolInv
<1>2. NoPage \notin PageId /\ NoPage \notin File \X PageNo /\ NoFrame \notin Frame
  BY PoolConstants DEF PageId, Fd, PageNo, File, Frame
<1>3. ASSUME NEW h \in Handle, handle[h].page # NoPage
      PROVE  handle[h].page \in PageId /\ Allocated(handle[h].page) /\ Place(handle[h].page) \in File \X PageNo
  <2>1. handle[h].page \in PageId /\ page_table[handle[h].page] # NoFrame
    BY <1>1, <1>2, <1>3 DEF TypeOK, HandleTypes, PinInv
  <2>2. Allocated(handle[h].page)
    BY <1>1, <2>1 DEF MapInv
  <2> QED BY <1>1, <2>1, <2>2, PlaceApart
<1> QED BY <1>1, <1>2, <1>3 DEF StoreHeld

LEMMA SameHeld ==
  ASSUME IInv, Intact, UNCHANGED handle, \A q \in PageId : Allocated(q) => Place(q)' = Place(q)
  PROVE  StoreHeld' = StoreHeld
<1>1. \A h \in Handle : handle[h].page # NoPage => Place(handle[h].page)' = Place(handle[h].page)
  <2> SUFFICES ASSUME NEW h \in Handle, handle[h].page # NoPage PROVE Place(handle[h].page)' = Place(handle[h].page)
    OBVIOUS
  <2>1. PICK q \in PageId : q = handle[h].page /\ Allocated(q)
    BY HeldPages
  <2>2. Place(q)' = Place(q)
    BY <2>1
  <2> QED BY <2>1, <2>2 DEF Place
<1> QED BY <1>1 DEF StoreHeld

(* Steps of the pool that a caller cannot see.                             *)
LEMMA QuietStep ==
  ASSUME IInv, IInv', Intact, UNCHANGED handle, \A q \in PageId : Allocated(q)' <=> Allocated(q),
         \A q \in PageId : Allocated(q) => Place(q)' = Place(q), ViewsKept
  PROVE  UNCHANGED <<StoreContent, StoreHeld>>
BY SameContent, SameHeld

LEMMA FlushRefines ==
  ASSUME IInv, Intact', \/ \E p \in PageId : flush_page(p)
                        \/ \E fd \in Fd : flush_all_pages(fd)
  PROVE  UNCHANGED <<StoreContent, StoreHeld>>
<1>1. UNCHANGED <<file_of, fd2pageno, created, handle, errors>>
  BY DEF flush_page, flush_all_pages, files
<1>2. Intact /\ PoolInv /\ DiskInv
  BY <1>1, KeptStep DEF Intact, IInv
<1>3. \A q \in PageId : (Allocated(q)' <=> Allocated(q)) /\ Place(q)' = Place(q)
  BY <1>1 DEF Allocated, Place
<1>4. IInv' /\ ViewsKept
  BY <1>2, FlushPageStep, FlushAllPagesStep
<1> QED BY <1>1, <1>2, <1>3, <1>4, QuietStep

LEMMA CreateFileRefines ==
  ASSUME IInv, Intact', NEW file \in File, CreateFile(file)
  PROVE  UNCHANGED <<StoreContent, StoreHeld>>
<1>1. PICK fd \in Fd :
        /\ file \notin created /\ file_of[fd] = NoFile /\ created' = created \cup {file}
        /\ file_of' = [file_of EXCEPT ![fd] = file] /\ fd2pageno' = [fd2pageno EXCEPT ![fd] = 0]
        /\ UNCHANGED <<frames, page_table, free_list, LRUlist, disk, handle, errors>>
  BY DEF CreateFile
<1>2. TypeOK /\ IInv'
  BY CreateFileStep DEF IInv
<1>3. /\ file_of'[fd] = file /\ fd2pageno'[fd] = 0
      /\ \A e \in Fd \ {fd} : file_of'[e] = file_of[e] /\ fd2pageno'[e] = fd2pageno[e]
  BY <1>1, <1>2 DEF TypeOK
<1>4. Intact
  <2> SUFFICES ASSUME NEW f \in TableFile \cap created PROVE \E e \in Fd : file_of[e] = f
    BY <1>1 DEF Intact, TablesKept
  <2>1. PICK e \in Fd : file_of'[e] = f
    BY <1>1 DEF Intact, TablesKept
  <2> QED BY <1>1, <1>3, <2>1
<1>5. \A q \in PageId : Allocated(q)' <=> Allocated(q)
  <2> SUFFICES ASSUME NEW q \in PageId PROVE Allocated(q)' <=> Allocated(q)
    OBVIOUS
  <2>1. q[1] \in Fd /\ q[2] \in Nat
    BY DEF PageId, PageNo
  <2> QED BY <1>1, <1>3, <2>1 DEF Allocated
<1>6. \A q \in PageId : Allocated(q) => Place(q)' = Place(q)
  BY <1>1, <1>3 DEF Place, Allocated, PageId
<1>7. ViewsKept
  BY <1>1, <1>6 DEF ViewsKept, View
<1> QED BY <1>1, <1>2, <1>4, <1>5, <1>6, <1>7, QuietStep

LEMMA HeldTaken ==
  ASSUME NEW h \in Handle, NEW p \in PageId, NoPage \notin PageId, UNCHANGED file_of, handle[h].page = NoPage,
         handle'[h].page = p, \A g \in Handle \ {h} : handle'[g] = handle[g]
  PROVE  StoreHeld[h] = NoPage /\ StoreHeld' = [StoreHeld EXCEPT ![h] = Place(p)]
<1>1. StoreHeld' = [g \in Handle |-> IF handle'[g].page = NoPage THEN NoPage ELSE Place(handle'[g].page)]
  BY DEF StoreHeld, Place
<1>2. StoreHeld = [g \in Handle |-> IF handle[g].page = NoPage THEN NoPage ELSE Place(handle[g].page)]
  BY DEF StoreHeld
<1> QED BY <1>1, <1>2

LEMMA FetchHitRefines ==
  ASSUME IInv, Intact', NEW h \in Handle, NEW p \in PageId, FetchHit(h, p)
  PROVE  Store!Take(h, Place(p)) /\ Place(p) \in Store!Page
<1>1. PICK f \in Frame : f = page_table[p]
  BY DEF FetchHit, IInv, TypeOK
<1>2. /\ handle[h].page = NoPage /\ Allocated(p)
      /\ frames' = [frames EXCEPT ![f].pin = @ + 1]
      /\ handle' = [handle EXCEPT ![h] = [page |-> p, frame |-> f, wrote |-> FALSE]]
      /\ UNCHANGED <<page_table, free_list, disk, file_of, fd2pageno, created, errors>>
  BY <1>1 DEF FetchHit, files
<1>3. /\ IInv' /\ Intact /\ TypeOK /\ FilesInv /\ NoPage \notin PageId /\ NoFrame \notin Frame
      /\ Absent \notin Content
  BY <1>2, FetchHitStep, KeptStep, PoolConstants DEF IInv, Intact, PageId, Fd, PageNo, Frame, Content
<1>4. \A q \in PageId : (Allocated(q)' <=> Allocated(q)) /\ Place(q)' = Place(q)
  BY <1>2 DEF Allocated, Place
<1>5. \A g \in Frame : frames'[g].data = frames[g].data
  BY <1>2, <1>3 DEF TypeOK
<1>6. ViewsKept
  <2> SUFFICES ASSUME NEW q \in PageId, Allocated(q) PROVE View(q)' = View(q)
    BY DEF ViewsKept
  <2>1. page_table[q] # NoFrame => page_table[q] \in Frame
    BY <1>3 DEF TypeOK
  <2> QED BY <1>2, <1>4, <1>5, <2>1 DEF View
<1>7. StoreContent' = StoreContent
  BY <1>3, <1>4, <1>6, SameContent
<1>8. Place(p) \in File \X PageNo /\ StoreContent[Place(p)] # Absent
  <2>1. Place(p) \in File \X PageNo /\ StoreContent[Place(p)] = View(p)
    BY <1>2, <1>3, SeenFacts, ContentAt
  <2>2. View(p) \in Content
    BY <1>1, <1>3 DEF View, TypeOK
  <2> QED BY <1>3, <2>1, <2>2
<1>9. StoreHeld[h] = NoPage /\ StoreHeld' = [StoreHeld EXCEPT ![h] = Place(p)]
  <2>1. handle'[h].page = p /\ \A g \in Handle \ {h} : handle'[g] = handle[g]
    BY <1>2, <1>3 DEF TypeOK
  <2> QED BY <1>2, <1>3, <2>1, HeldTaken
<1> QED BY <1>7, <1>8, <1>9 DEF Store!Take, Store!Page

(* Giving the victim's frame to p changes no other page.                   *)
LEMMA TakesViews ==
  ASSUME TypeOK, HandleTypes, FilesInv, PoolInv, DiskInv, NEW p \in PageId, NEW d \in Content, NEW pins \in Nat,
         Takes(p, d, pins), page_table[p] = NoFrame, UNCHANGED file_of
  PROVE  View(p)' = d /\ \A q \in PageId : Allocated(q) /\ q # p => View(q)' = View(q)
<1>1. PICK v \in Frame : v = Victim
  BY UpdateMap
<1>2. /\ Holders(v) = {}
      /\ frames'[v] = [id |-> p, data |-> d, dirty |-> FALSE, pin |-> pins]
      /\ \A f \in Frame \ {v} : frames'[f] = frames[f]
      /\ page_table'[p] = v
      /\ \A q \in PageId \ {p} : page_table'[q] = IF q = frames[v].id THEN NoFrame ELSE page_table[q]
  BY <1>1, UpdateMap
<1>3. MapInv /\ NoFrame \notin Frame /\ NoPage \notin PageId /\ disk' = WrittenBack(v)
  BY <1>1, PoolConstants DEF PoolInv, Frame, PageId, Fd, PageNo, Takes, update_page
<1>4. View(p)' = d
  BY <1>2, <1>3 DEF View
<1>5. ASSUME NEW q \in PageId, Allocated(q), q # p PROVE View(q)' = View(q)
  <2>1. Place(q)' = Place(q) /\ page_table[q] \in Frame \cup {NoFrame}
    BY DEF Place, TypeOK
  <2>2. disk'[Place(q)] = IF q = frames[v].id THEN frames[v].data ELSE disk[Place(q)]
    BY <1>2, <1>3, <1>5, WrittenBackFacts
  <2>3. View(q)' = IF page_table'[q] = NoFrame THEN disk'[Place(q)] ELSE frames'[page_table'[q]].data
    BY <2>1 DEF View
  <2>4. CASE q = frames[v].id
    <3>1. page_table[q] = v
      BY <1>3, <2>4 DEF MapInv
    <3>2. page_table'[q] = NoFrame
      BY <1>2, <1>5, <2>4
    <3> QED BY <1>3, <2>2, <2>3, <2>4, <3>1, <3>2 DEF View
  <2>5. CASE q # frames[v].id
    <3>1. page_table'[q] = page_table[q]
      BY <1>2, <1>5, <2>5
    <3>2. page_table[q] # v
      BY <1>3, <2>5 DEF MapInv
    <3> QED BY <1>2, <2>1, <2>2, <2>3, <2>5, <3>1, <3>2 DEF View
  <2> QED BY <2>4, <2>5
<1> QED BY <1>4, <1>5

LEMMA FetchMissRefines ==
  ASSUME IInv, Intact', NEW h \in Handle, NEW p \in PageId, FetchMiss(h, p)
  PROVE  Store!Take(h, Place(p)) /\ Place(p) \in Store!Page
<1> DEFINE d == WrittenBack(Victim)[Place(p)]
<1>1. /\ handle[h].page = NoPage /\ Allocated(p) /\ page_table[p] = NoFrame /\ d # Absent
      /\ handle' = [handle EXCEPT ![h] = [page |-> p, frame |-> Victim, wrote |-> FALSE]]
      /\ UNCHANGED <<file_of, fd2pageno, created, errors>>
      /\ Takes(p, d, 1)
  BY DEF FetchMiss, Takes, files
<1>2. Intact /\ IInv' /\ TypeOK /\ FilesInv /\ HandleTypes /\ NoPage \notin PageId /\ NoFrame \notin Frame
  BY <1>1, FetchMissStep, KeptStep, PoolConstants DEF IInv, Intact, PageId, Fd, PageNo, Frame
<1>3. PoolInv /\ DiskInv
  BY <1>2 DEF IInv, Intact
<1>4. Victim \in Frame /\ Holders(Victim) = {}
  BY <1>1, <1>2, <1>3, VictimFacts DEF Takes
<1>5. Place(p) \in File \X PageNo /\ d = View(p) /\ d \in Content
  <2>1. Place(p) \in File \X PageNo
    BY <1>1, <1>2, PlaceApart
  <2>2. p # frames[Victim].id
    BY <1>1, <1>2, <1>3, <1>4 DEF PoolInv, MapInv
  <2>3. d = disk[Place(p)]
    BY <1>1, <1>2, <1>3, <1>4, <2>2, WrittenBackFacts
  <2> QED BY <1>1, <1>2, <2>1, <2>3 DEF View, TypeOK
<1> HIDE DEF d
<1>6. \A q \in PageId : (Allocated(q)' <=> Allocated(q)) /\ Place(q)' = Place(q)
  BY <1>1 DEF Allocated, Place
<1>7. ViewsKept
  <2>1. View(p)' = d /\ \A q \in PageId : Allocated(q) /\ q # p => View(q)' = View(q)
    BY <1>1, <1>2, <1>3, <1>5, TakesViews
  <2> QED BY <1>5, <2>1 DEF ViewsKept
<1>8. StoreContent' = StoreContent
  BY <1>2, <1>6, <1>7, SameContent
<1>9. StoreContent[Place(p)] # Absent
  BY <1>1, <1>2, <1>5, SeenFacts, ContentAt
<1>10. StoreHeld[h] = NoPage /\ StoreHeld' = [StoreHeld EXCEPT ![h] = Place(p)]
  <2>1. handle'[h].page = p /\ \A g \in Handle \ {h} : handle'[g] = handle[g]
    BY <1>1, <1>2 DEF TypeOK
  <2> QED BY <1>1, <1>2, <2>1, HeldTaken
<1> QED BY <1>5, <1>8, <1>9, <1>10 DEF Store!Take, Store!Page

LEMMA NewPageRefines ==
  ASSUME IInv, Intact', NEW h \in Handle, NEW fd \in Fd, new_page(h, fd)
  PROVE  \E q \in Store!Page : Store!Create(h, q)
<1>0. PICK p \in PageId : p = <<fd, fd2pageno[fd]>>
  BY PoolConstants DEF new_page, IInv, TypeOK, PageId, PageNo
<1>1. /\ handle[h].page = NoPage /\ file_of[fd] # NoFile /\ fd2pageno[fd] < NumPages
      /\ fd2pageno' = [fd2pageno EXCEPT ![fd] = @ + 1]
      /\ handle' = [handle EXCEPT ![h] = [page |-> p, frame |-> Victim, wrote |-> TRUE]]
      /\ UNCHANGED <<file_of, created, errors>>
      /\ Takes(p, Zero, 1)
  BY <1>0 DEF new_page, Takes
<1>2. /\ Intact /\ IInv' /\ TypeOK /\ FilesInv /\ HandleTypes /\ NoPage \notin PageId /\ NoFrame \notin Frame
      /\ Zero \in Content /\ TypeOK' /\ FilesInv'
  BY <1>1, NewPageStep, KeptStep, PoolConstants DEF IInv, Intact, PageId, Fd, PageNo, Frame, Content
<1>3. PoolInv /\ DiskInv
  BY <1>2 DEF IInv, Intact
<1>4. ~Allocated(p) /\ p[1] = fd /\ Place(p) \in File \X PageNo
  BY <1>0, <1>1, <1>2, PoolConstants DEF TypeOK, PageId, PageNo, Allocated, Place
<1>5. \A q \in PageId : Allocated(q)' <=> Allocated(q) \/ q = p
  <2> SUFFICES ASSUME NEW q \in PageId PROVE Allocated(q)' <=> Allocated(q) \/ q = p
    OBVIOUS
  <2>1. q = <<q[1], q[2]>> /\ q[1] \in Fd /\ q[2] \in Nat
    BY DEF PageId, PageNo
  <2>2. /\ \A e \in Fd : fd2pageno[e] \in Nat
        /\ fd2pageno'[fd] = fd2pageno[fd] + 1 /\ \A e \in Fd \ {fd} : fd2pageno'[e] = fd2pageno[e]
    BY <1>1, <1>2 DEF TypeOK
  <2>3. CASE q[1] # fd
    BY <1>0, <1>1, <2>1, <2>2, <2>3 DEF Allocated
  <2>4. CASE q[1] = fd
    BY <1>0, <1>1, <2>1, <2>2, <2>4 DEF Allocated
  <2> QED BY <2>3, <2>4
<1>6. \A r \in PageId : Place(r) = Place(p) => r = p
  <2> SUFFICES ASSUME NEW r \in PageId, Place(r) = Place(p) PROVE r = p
    OBVIOUS
  <2>1. r[1] \in Fd /\ r = <<r[1], r[2]>> /\ file_of[r[1]] = file_of[fd] /\ r[2] = fd2pageno[fd]
    BY <1>0 DEF Place, PageId
  <2> QED BY <1>0, <1>1, <1>2, <2>1 DEF FilesInv
<1>7. page_table[p] = NoFrame
  BY <1>3, <1>4 DEF PoolInv, MapInv
<1>8. View(p)' = Zero /\ \A q \in PageId : Allocated(q) /\ q # p => View(q)' = View(q)
  BY <1>1, <1>2, <1>3, <1>4, <1>7, TakesViews
<1>9. \A q \in PageId : Place(q)' = Place(q)
  BY <1>1 DEF Place
<1>10. /\ \A r \in PageId : Allocated(r) => StoreContent[Place(r)] = View(r)
       /\ \A q \in File \X PageNo : (\A r \in PageId : ~(Place(r) = q /\ Allocated(r))) => StoreContent[q] = Absent
  BY <1>2, SeenFacts, ContentAt
<1>11. /\ \A r \in PageId : Allocated(r)' => StoreContent'[Place(r)'] = View(r)'
       /\ \A q \in File \X PageNo : (\A r \in PageId : ~(Place(r)' = q /\ Allocated(r)')) => StoreContent'[q] = Absent
  BY <1>2, ContentAtNext
<1>12. StoreContent[Place(p)] = Absent
  BY <1>4, <1>6, <1>10
<1>13. ASSUME NEW q \in File \X PageNo
       PROVE  StoreContent'[q] = IF q = Place(p) THEN Zero ELSE StoreContent[q]
  <2>1. CASE q = Place(p)
    BY <1>4, <1>5, <1>8, <1>9, <1>11, <2>1
  <2>2. ASSUME q # Place(p), NEW r \in PageId, Place(r) = q, Allocated(r) PROVE StoreContent'[q] = StoreContent[q]
    BY <1>5, <1>8, <1>9, <1>10, <1>11, <2>2
  <2>3. ASSUME q # Place(p), \A r \in PageId : ~(Place(r) = q /\ Allocated(r)) PROVE StoreContent'[q] = StoreContent[q]
    BY <1>5, <1>9, <1>10, <1>11, <2>3
  <2> QED BY <2>1, <2>2, <2>3
<1>14. StoreContent' = [StoreContent EXCEPT ![Place(p)] = Zero]
  <2>1. /\ DOMAIN StoreContent = File \X PageNo
        /\ StoreContent' = [q \in File \X PageNo |-> StoreContent'[q]]
        /\ StoreContent = [q \in File \X PageNo |-> StoreContent[q]]
    BY DEF StoreContent
  <2> QED BY <1>4, <1>13, <2>1
<1>15. StoreHeld[h] = NoPage /\ StoreHeld' = [StoreHeld EXCEPT ![h] = Place(p)]
  <2>1. handle'[h].page = p /\ \A g \in Handle \ {h} : handle'[g] = handle[g]
    BY <1>1, <1>2 DEF TypeOK
  <2> QED BY <1>1, <1>2, <1>4, <2>1, HeldTaken
<1> QED BY <1>4, <1>12, <1>14, <1>15 DEF Store!Create, Store!Page

LEMMA WritePageRefines ==
  ASSUME IInv, Intact', NEW h \in Handle, NEW d \in Data, WritePage(h, d)
  PROVE  Store!Write(h, d)
<1>1. PICK f : f = handle[h].frame
  OBVIOUS
<1>2. /\ handle[h].page # NoPage /\ frames' = [frames EXCEPT ![f].data = d]
      /\ handle' = [handle EXCEPT ![h].wrote = TRUE]
      /\ UNCHANGED <<page_table, free_list, LRUlist, disk, file_of, fd2pageno, created, errors>>
  BY <1>1 DEF WritePage, files
<1>3. Intact /\ IInv' /\ TypeOK /\ FilesInv /\ HandleTypes /\ TypeOK' /\ FilesInv'
  BY <1>2, WritePageStep, KeptStep DEF IInv, Intact
<1>4. PICK p \in PageId : p = handle[h].page /\ Allocated(p) /\ Place(p) \in File \X PageNo
  BY <1>2, <1>3, HeldPages
<1>5. /\ f \in Frame /\ page_table[p] = f /\ NoFrame \notin Frame
      /\ \A q \in PageId : page_table[q] # NoFrame => frames[page_table[q]].id = q
  BY <1>1, <1>2, <1>3, <1>4, PoolConstants DEF HandleTypes, IInv, Intact, PoolInv, PinInv, MapInv, Frame
<1>6. frames'[f].data = d /\ \A g \in Frame \ {f} : frames'[g] = frames[g]
  BY <1>2, <1>3, <1>5 DEF TypeOK
<1>7. \A q \in PageId : (Allocated(q)' <=> Allocated(q)) /\ Place(q)' = Place(q)
  BY <1>2 DEF Allocated, Place
<1>8. View(p)' = d /\ \A q \in PageId \ {p} : View(q)' = View(q)
  <2>1. \A q \in PageId \ {p} : page_table[q] \in (Frame \ {f}) \cup {NoFrame}
    BY <1>3, <1>5 DEF TypeOK
  <2> QED BY <1>2, <1>5, <1>6, <1>7, <2>1 DEF View
<1>9. /\ \A r \in PageId : Allocated(r) => StoreContent[Place(r)] = View(r)
      /\ \A q \in File \X PageNo : (\A r \in PageId : ~(Place(r) = q /\ Allocated(r))) => StoreContent[q] = Absent
  BY <1>3, SeenFacts, ContentAt
<1>10. /\ \A r \in PageId : Allocated(r)' => StoreContent'[Place(r)'] = View(r)'
       /\ \A q \in File \X PageNo : (\A r \in PageId : ~(Place(r)' = q /\ Allocated(r)')) => StoreContent'[q] = Absent
  BY <1>3, ContentAtNext
<1>11. ASSUME NEW q \in File \X PageNo
       PROVE  StoreContent'[q] = IF q = Place(p) THEN d ELSE StoreContent[q]
  <2>1. CASE q = Place(p)
    BY <1>4, <1>7, <1>8, <1>10, <2>1
  <2>2. ASSUME q # Place(p), NEW r \in PageId, Place(r) = q, Allocated(r) PROVE StoreContent'[q] = StoreContent[q]
    BY <1>7, <1>8, <1>9, <1>10, <2>2
  <2>3. ASSUME \A r \in PageId : ~(Place(r) = q /\ Allocated(r)) PROVE StoreContent'[q] = StoreContent[q]
    BY <1>7, <1>9, <1>10, <2>3
  <2> QED BY <2>1, <2>2, <2>3
<1>12. StoreContent' = [StoreContent EXCEPT ![Place(p)] = d]
  <2>1. /\ StoreContent' = [q \in File \X PageNo |-> StoreContent'[q]]
        /\ StoreContent = [q \in File \X PageNo |-> StoreContent[q]]
    BY DEF StoreContent
  <2> QED BY <1>4, <1>11, <2>1
<1>13. StoreHeld' = StoreHeld
  <2>1. \A g \in Handle : handle'[g].page = handle[g].page
    BY <1>2, <1>3 DEF TypeOK
  <2> QED BY <1>2, <2>1 DEF StoreHeld, Place
<1>14. StoreHeld[h] = Place(p) /\ StoreHeld[h] # NoPage
  BY <1>2, <1>3, <1>4, HeldPages
<1> QED BY <1>12, <1>13, <1>14 DEF Store!Write

LEMMA UnpinPageRefines ==
  ASSUME IInv, Intact', NEW h \in Handle, unpin_page(h)
  PROVE  Store!Return(h)
<1>1. /\ handle[h].page # NoPage /\ handle' = [handle EXCEPT ![h] = Idle]
      /\ UNCHANGED <<page_table, free_list, disk, file_of, fd2pageno, created, errors>>
  BY DEF unpin_page, files
<1>2. Intact /\ IInv' /\ TypeOK
  BY <1>1, UnpinPageStep, KeptStep DEF IInv, Intact
<1>3. \A g \in Frame : frames'[g].data = frames[g].data
  <2>1. CASE UNCHANGED frames
    BY <2>1
  <2>2. ASSUME NEW f, frames' = [frames EXCEPT ![f].pin = @ - 1, ![f].dirty = @ \/ handle[h].wrote]
        PROVE  \A g \in Frame : frames'[g].data = frames[g].data
    <3>1. frames \in [Frame -> [id: PageId \cup {NoPage}, data: Content, dirty: BOOLEAN, pin: Nat]]
      BY <1>2 DEF TypeOK
    <3> QED BY <2>2, <3>1
  <2> QED BY <2>1, <2>2, Zenon DEF unpin_page
<1>4. \A q \in PageId : (Allocated(q)' <=> Allocated(q)) /\ Place(q)' = Place(q)
  BY <1>1 DEF Allocated, Place
<1>5. ViewsKept
  <2>1. \A q \in PageId : page_table[q] \in Frame \cup {NoFrame}
    BY <1>2 DEF TypeOK
  <2> QED BY <1>1, <1>3, <1>4, <2>1 DEF View, ViewsKept
<1>6. StoreContent' = StoreContent
  BY <1>2, <1>4, <1>5, SameContent
<1>7. StoreHeld[h] # NoPage
  BY <1>1, <1>2, HeldPages
<1>8. StoreHeld' = [StoreHeld EXCEPT ![h] = NoPage]
  <2>1. handle'[h].page = NoPage /\ \A g \in Handle \ {h} : handle'[g] = handle[g]
    BY <1>1, <1>2 DEF TypeOK, Idle
  <2>2. StoreHeld' = [g \in Handle |-> IF handle'[g].page = NoPage THEN NoPage ELSE Place(handle'[g].page)]
    BY <1>1 DEF StoreHeld, Place
  <2>3. StoreHeld = [g \in Handle |-> IF handle[g].page = NoPage THEN NoPage ELSE Place(handle[g].page)]
    BY DEF StoreHeld
  <2> QED BY <2>1, <2>2, <2>3
<1> QED BY <1>6, <1>7, <1>8 DEF Store!Return

LEMMA DropIndexRefines ==
  ASSUME IInv, Intact', NEW fd \in Fd, DropIndex(fd)
  PROVE  \E file \in File : Store!Drop(file)
<1>1. PICK file \in File : file = file_of[fd] /\ file # NoFile
  BY PoolConstants DEF DropIndex, File
<1>2. Unused(fd) /\ Unlink(fd)
  BY DEF DropIndex
<1>3. TypeOK /\ FilesInv /\ IInv' /\ TypeOK' /\ FilesInv' /\ NoFrame \notin Frame
  BY DropIndexStep, PoolConstants DEF IInv, Frame
<1>4. /\ UNCHANGED <<fd2pageno, created, handle, errors>>
      /\ file_of'[fd] = NoFile /\ \A e \in Fd \ {fd} : file_of'[e] = file_of[e] /\ file_of[e] # file
      /\ \A q \in PageId : Allocated(q)' <=> Allocated(q) /\ q[1] # fd
      /\ \A q \in PageId : Allocated(q) /\ q[1] # fd => Place(q)' = Place(q) /\ disk'[Place(q)] = disk[Place(q)]
      /\ TablesKept' => TablesKept
  BY <1>1, <1>2, Unlinked
<1>5. Intact /\ PoolInv
  BY <1>4 DEF Intact, IInv
<1>6. /\ \A p \in PageId : p[1] # fd => page_table'[p] = page_table[p]
      /\ \A f \in Frame \ FramesOf(fd) : frames'[f] = frames[f]
  BY <1>5, DropIndexStep
<1>7. ASSUME NEW q \in PageId, Allocated(q), q[1] # fd PROVE View(q)' = View(q)
  <2>1. page_table[q] # NoFrame => page_table[q] \in Frame /\ frames[page_table[q]].id = q
    BY <1>3, <1>5 DEF PoolInv, MapInv, TypeOK
  <2>2. page_table[q] # NoFrame => page_table[q] \in Frame \ FramesOf(fd)
    BY <1>7, <2>1 DEF FramesOf
  <2> QED BY <1>4, <1>6, <1>7, <2>2 DEF View
<1>8. /\ \A r \in PageId : Allocated(r) => StoreContent[Place(r)] = View(r)
      /\ \A q \in File \X PageNo : (\A r \in PageId : ~(Place(r) = q /\ Allocated(r))) => StoreContent[q] = Absent
  BY <1>3, SeenFacts, ContentAt
<1>9. /\ \A r \in PageId : Allocated(r)' => StoreContent'[Place(r)'] = View(r)'
      /\ \A q \in File \X PageNo : (\A r \in PageId : ~(Place(r)' = q /\ Allocated(r)')) => StoreContent'[q] = Absent
  BY <1>3, ContentAtNext
<1>10. \A r \in PageId : Allocated(r) => (Place(r)[1] = file <=> r[1] = fd)
  BY <1>1, <1>4 DEF Place, PageId
<1>11. ASSUME NEW q \in File \X PageNo
       PROVE  StoreContent'[q] = IF q[1] = file THEN Absent ELSE StoreContent[q]
  <2>1. CASE q[1] = file
    BY <1>4, <1>9, <1>10, <2>1
  <2>2. ASSUME q[1] # file, NEW r \in PageId, Place(r) = q, Allocated(r) PROVE StoreContent'[q] = StoreContent[q]
    BY <1>4, <1>7, <1>8, <1>9, <1>10, <2>2
  <2>3. ASSUME \A r \in PageId : ~(Place(r) = q /\ Allocated(r)) PROVE StoreContent'[q] = StoreContent[q]
    BY <1>4, <1>8, <1>9, <2>3
  <2> QED BY <2>1, <2>2, <2>3
<1>12. StoreContent' = [q \in File \X PageNo |-> IF q[1] = file THEN Absent ELSE StoreContent[q]]
  <2>1. StoreContent' = [q \in File \X PageNo |-> StoreContent'[q]]
    BY DEF StoreContent
  <2> QED BY <1>11, <2>1
<1>13. \A h \in Handle : handle[h].page # NoPage =>
         handle[h].page \in PageId /\ handle[h].page[1] # fd /\ Allocated(handle[h].page)
  BY <1>2, <1>5, HeldPages DEF Unused
<1>14. StoreHeld' = StoreHeld
  <2>1. \A h \in Handle : handle[h].page # NoPage => Place(handle[h].page)' = Place(handle[h].page)
    <3> SUFFICES ASSUME NEW h \in Handle, handle[h].page # NoPage PROVE Place(handle[h].page)' = Place(handle[h].page)
      OBVIOUS
    <3>1. PICK q \in PageId : q = handle[h].page /\ q[1] # fd /\ Allocated(q)
      BY <1>13
    <3> QED BY <1>4, <3>1 DEF Place
  <2> QED BY <1>4, <2>1 DEF StoreHeld
<1>15. \A h \in Handle : StoreHeld[h] # NoPage => StoreHeld[h][1] # file
  BY <1>5, <1>10, <1>13, HeldPages
<1> QED BY <1>1, <1>12, <1>14, <1>15 DEF Store!Drop, Store!Page

LEMMA StoreStep ==
  ASSUME IInv, Next, Intact'
  PROVE  Store!Next \/ UNCHANGED <<StoreContent, StoreHeld>>
<1>1. ASSUME NEW h \in Handle, NEW p \in PageId, FetchHit(h, p) \/ FetchMiss(h, p)
      PROVE  Store!Next
  BY <1>1, FetchHitRefines, FetchMissRefines DEF Store!Next
<1>2. ASSUME NEW h \in Handle, NEW p \in PageId, FetchReadFails(h, p) PROVE FALSE
  BY <1>2, FetchReadFailsStep
<1>3. ASSUME NEW h \in Handle, NEW fd \in Fd, new_page(h, fd) PROVE Store!Next
  BY <1>3, NewPageRefines DEF Store!Next
<1>4. ASSUME NEW h \in Handle, NEW d \in Data, WritePage(h, d) PROVE Store!Next
  BY <1>4, WritePageRefines DEF Store!Next
<1>5. ASSUME NEW h \in Handle, unpin_page(h) PROVE Store!Next
  BY <1>5, UnpinPageRefines DEF Store!Next
<1>6. ASSUME NEW h \in Handle, WriteBackFails(h) PROVE FALSE
  BY <1>6, WriteBackFailsStep
<1>7. ASSUME \/ \E p \in PageId : flush_page(p)
             \/ \E fd \in Fd : flush_all_pages(fd)
      PROVE  UNCHANGED <<StoreContent, StoreHeld>>
  BY <1>7, FlushRefines
<1>8. ASSUME NEW fd \in Fd, DropTable(fd) PROVE FALSE
  BY <1>8, DropTableStep
<1>9. ASSUME NEW fd \in Fd, DropIndex(fd) PROVE Store!Next
  BY <1>9, DropIndexRefines DEF Store!Next
<1>10. ASSUME NEW file \in File, CreateFile(file) PROVE UNCHANGED <<StoreContent, StoreHeld>>
  BY <1>10, CreateFileRefines
<1> QED BY <1>1, <1>2, <1>3, <1>4, <1>5, <1>6, <1>7, <1>8, <1>9, <1>10, Zenon DEF Next

LEMMA StoreInit == Init => Store!Init
<1> SUFFICES ASSUME Init PROVE Store!Init
  OBVIOUS
<1>1. StoreHeld = [h \in Handle |-> NoPage]
  BY DEF Init, StoreHeld, Idle
<1>2. \A p \in PageId : ~Allocated(p)
  BY DEF Init, Allocated, PageId
<1>3. SeenExact
  BY InitInv, SeenFacts DEF IInv
<1>4. \A q \in File \X PageNo : Seen(q) = Absent
  BY <1>2, <1>3 DEF SeenExact
<1> QED BY <1>1, <1>4 DEF StoreContent, Store!Init, Store!Page

(* The pool implements PageStore while it is Intact: fetching, evicting,   *)
(* flushing, closing an index and reusing its descriptor never change what *)
(* a page contains, whatever the sizes and however the callers interleave. *)
THEOREM ImplementsPageStoreAlways == Spec => ImplementsPageStore
<1>1. IInv /\ [Next]_vars => [Intact' => Store!Next \/ UNCHANGED <<StoreContent, StoreHeld>>]_vars
  BY StoreStep
<1> QED BY <1>1, StoreInit, PoolInvariant, PTL DEF Spec, ImplementsPageStore
=============================================================================
