----------------------------- MODULE BufferPool -----------------------------
(***************************************************************************)
(* The buffer pool (storage/buffer_pool_manager.{h,cpp}) with its LRU      *)
(* replacer (replacer/lru_replacer.cpp), the page I/O of                   *)
(* storage/disk_manager.cpp and the life of the files above it: a table or *)
(* an index is created, used and dropped (rm_manager.h, ix_manager.h,      *)
(* drop_table and drop_index of sm_manager.cpp).                           *)
(*                                                                         *)
(* Every operation runs under latch_ and is one step.  A handle is one     *)
(* pinned page in the hands of a caller: it pins with fetch_page or        *)
(* new_page, may write the page, and unpins with is_dirty iff it wrote.    *)
(* PageIds name the page by file descriptor, and the operating system      *)
(* hands out the lowest free descriptor again.                             *)
(***************************************************************************)
EXTENDS Naturals, Sequences, SequencesExt, FiniteSets

CONSTANTS
  PoolSize,             \* pool_size_: frames
  TableFile, IndexFile, \* files; each is created at most once
  NumFds,               \* bound: file descriptors
  NumPages,             \* bound: pages per file
  Handle,               \* callers
  Data,                 \* page contents
  Zero,                 \* a page after reset_memory()
  Absent,               \* beyond the end of the file
  NoFile, NoPage, NoFrame,
  MaxErrors             \* bound: failing read() and write() calls

ASSUME PoolConstants ==
  /\ {PoolSize, NumFds, NumPages} \subseteq Nat \ {0} /\ MaxErrors \in Nat
  /\ TableFile \cap IndexFile = {} /\ NoFile \notin TableFile \cup IndexFile
  /\ {Zero, Absent} \cap Data = {} /\ Zero # Absent
  /\ IsFiniteSet(Handle) /\ NoFrame \notin 1..PoolSize
  /\ NoPage \notin ((1..NumFds) \cup TableFile \cup IndexFile) \X (0..(NumPages - 1))

VARIABLES
  frames,      \* pages_: id_, data_, is_dirty_, pin_count_
  page_table,  \* page_table_
  free_list,   \* free_list_
  LRUlist,     \* LRUlist_: front is the most recently unpinned frame
  disk,        \* the files
  file_of,     \* fd2path_
  fd2pageno,   \* fd2pageno_: next page number of each descriptor
  created,     \* files that exist or have existed
  handle,      \* what each caller has pinned: the page, its frame, whether it wrote
  errors       \* failing calls so far

vars == <<frames, page_table, free_list, LRUlist, disk, file_of, fd2pageno, created, handle, errors>>
files == <<file_of, fd2pageno, created>>

File == TableFile \cup IndexFile
Frame == 1..PoolSize
Fd == 1..NumFds
PageNo == 0..(NumPages - 1)
PageId == Fd \X PageNo
Content == Data \cup {Zero}

Idle == [page |-> NoPage, frame |-> NoFrame, wrote |-> FALSE]
FreshFrame == [id |-> NoPage, data |-> Zero, dirty |-> FALSE, pin |-> 0]

Init ==
  /\ frames = [f \in Frame |-> FreshFrame]
  /\ page_table = [p \in PageId |-> NoFrame]
  /\ free_list = [i \in Frame |-> i]
  /\ LRUlist = <<>>
  /\ disk = [q \in File \X PageNo |-> Absent]
  /\ file_of = [fd \in Fd |-> NoFile]
  /\ fd2pageno = [fd \in Fd |-> 0]
  /\ created = {}
  /\ handle = [h \in Handle |-> Idle]
  /\ errors = 0

-----------------------------------------------------------------------------
(* Replacer and disk.                                                      *)

pin(f) == LRUlist' = IF Contains(LRUlist, f) THEN RemoveAt(LRUlist, CHOOSE i \in DOMAIN LRUlist : LRUlist[i] = f)
                                             ELSE LRUlist
unpin(f) == LRUlist' = IF Contains(LRUlist, f) THEN LRUlist ELSE <<f>> \o LRUlist

(* The place in the files a PageId stands for.                             *)
Place(p) == <<file_of[p[1]], p[2]>>

write_page(p, d) == [disk EXCEPT ![Place(p)] = d]

(* find_victim_page: the first free frame, else the least recently         *)
(* unpinned one.                                                           *)
HasVictim == free_list # <<>> \/ LRUlist # <<>>
Victim == IF free_list # <<>> THEN Head(free_list) ELSE Last(LRUlist)
find_victim_page ==
  IF free_list # <<>> THEN free_list' = Tail(free_list) /\ UNCHANGED LRUlist
                      ELSE LRUlist' = Front(LRUlist) /\ UNCHANGED free_list

(* Mutant: a dirty victim is dropped.                                     *)
WrittenBack_Never(f) == disk

(* update_page: write a dirty page back, then give the frame to p.         *)
WrittenBack(f) ==
  IF frames[f].id # NoPage /\ frames[f].dirty THEN write_page(frames[f].id, frames[f].data)
                                              ELSE disk
(* Mutant: the victim's old mapping stays in page_table_.                 *)
Remapped_KeepOld(f, p) == [page_table EXCEPT ![p] = f]

Remapped(f, p) ==
  [q \in PageId |-> IF q = p THEN f ELSE IF q = frames[f].id THEN NoFrame ELSE page_table[q]]

(* Mutant: the caller's pin is lost.                                      *)
update_page_Unpinned(f, p, d, pins) ==
  /\ disk' = WrittenBack(f)
  /\ page_table' = Remapped(f, p)
  /\ frames' = [frames EXCEPT ![f] = [id |-> p, data |-> d, dirty |-> FALSE, pin |-> 0]]

update_page(f, p, d, pins) ==
  /\ disk' = WrittenBack(f)
  /\ page_table' = Remapped(f, p)
  /\ frames' = [frames EXCEPT ![f] = [id |-> p, data |-> d, dirty |-> FALSE, pin |-> pins]]

-----------------------------------------------------------------------------
(* A page of an open file that has been allocated.                         *)
Allocated(p) == file_of[p[1]] # NoFile /\ p[2] < fd2pageno[p[1]]

(* Mutant: a hit leaves the frame in the LRU list.                        *)
FetchHit_NoPin(h, p) ==
  LET f == page_table[p] IN
  /\ handle[h].page = NoPage /\ Allocated(p) /\ f # NoFrame
  /\ frames' = [frames EXCEPT ![f].pin = @ + 1]
  /\ handle' = [handle EXCEPT ![h] = [page |-> p, frame |-> f, wrote |-> FALSE]]
  /\ UNCHANGED <<page_table, free_list, LRUlist, disk, files, errors>>

FetchHit(h, p) ==
  LET f == page_table[p] IN
  /\ handle[h].page = NoPage /\ Allocated(p) /\ f # NoFrame
  /\ frames' = [frames EXCEPT ![f].pin = @ + 1]
  /\ pin(f)
  /\ handle' = [handle EXCEPT ![h] = [page |-> p, frame |-> f, wrote |-> FALSE]]
  /\ UNCHANGED <<page_table, free_list, disk, files, errors>>

(* The new frame is pinned and so in no list.  Without a victim fetch_page *)
(* returns nullptr and nothing changes.                                    *)
FetchMiss(h, p) ==
  /\ handle[h].page = NoPage /\ Allocated(p) /\ page_table[p] = NoFrame /\ HasVictim
  /\ find_victim_page
  /\ WrittenBack(Victim)[Place(p)] # Absent
  /\ update_page(Victim, p, WrittenBack(Victim)[Place(p)], 1)
  /\ handle' = [handle EXCEPT ![h] = [page |-> p, frame |-> Victim, wrote |-> FALSE]]
  /\ UNCHANGED <<files, errors>>

(* read_page throws (an I/O error, or the page is beyond the end of the    *)
(* file): the frame already belongs to p, is zeroed, and is in no list.    *)
FetchReadFails(h, p) ==
  /\ handle[h].page = NoPage /\ Allocated(p) /\ page_table[p] = NoFrame /\ HasVictim
  /\ errors < MaxErrors \/ WrittenBack(Victim)[Place(p)] = Absent
  /\ errors' = IF WrittenBack(Victim)[Place(p)] = Absent THEN errors ELSE errors + 1
  /\ find_victim_page
  /\ update_page(Victim, p, Zero, 0)
  /\ UNCHANGED <<files, handle>>

(* write_page throws in update_page, called by fetch_page or by new_page,  *)
(* which has already allocated the page number: the victim has left its    *)
(* list, nothing else has happened.                                        *)
WriteBackFails(h) ==
  /\ errors < MaxErrors /\ handle[h].page = NoPage
  /\ HasVictim /\ frames[Victim].id # NoPage /\ frames[Victim].dirty
  /\ \/ \E p \in PageId : Allocated(p) /\ page_table[p] = NoFrame /\ UNCHANGED fd2pageno
     \/ \E fd \in Fd :
          /\ file_of[fd] # NoFile /\ fd2pageno[fd] < NumPages
          /\ fd2pageno' = [fd2pageno EXCEPT ![fd] = @ + 1]
  /\ errors' = errors + 1
  /\ find_victim_page
  /\ UNCHANGED <<frames, page_table, disk, file_of, created, handle>>

(* new_page.  Its callers initialise the page and unpin it dirty.          *)
new_page(h, fd) ==
  LET p == <<fd, fd2pageno[fd]>> IN
  /\ handle[h].page = NoPage /\ file_of[fd] # NoFile /\ fd2pageno[fd] < NumPages /\ HasVictim
  /\ find_victim_page
  /\ fd2pageno' = [fd2pageno EXCEPT ![fd] = @ + 1]
  /\ update_page(Victim, p, Zero, 1)
  /\ handle' = [handle EXCEPT ![h] = [page |-> p, frame |-> Victim, wrote |-> TRUE]]
  /\ UNCHANGED <<file_of, created, errors>>

(* A caller writes through its Page pointer, without any latch.            *)
WritePage(h, d) ==
  /\ handle[h].page # NoPage
  /\ frames' = [frames EXCEPT ![handle[h].frame].data = d]
  /\ handle' = [handle EXCEPT ![h].wrote = TRUE]
  /\ UNCHANGED <<page_table, free_list, LRUlist, disk, files, errors>>

(* Mutant: is_dirty_ = is_dirty, which forgets an earlier writer.         *)
unpin_page_Assign(h) ==
  LET f == page_table[handle[h].page] IN
  /\ handle[h].page # NoPage
  /\ f # NoFrame /\ frames[f].pin > 0
  /\ frames' = [frames EXCEPT ![f].pin = @ - 1, ![f].dirty = handle[h].wrote]
  /\ IF frames[f].pin = 1 THEN unpin(f) ELSE UNCHANGED LRUlist
  /\ handle' = [handle EXCEPT ![h] = Idle]
  /\ UNCHANGED <<page_table, free_list, disk, files, errors>>

(* The page is looked up again; one that is not there, or not pinned, is   *)
(* left alone (unpin_page returns false, which no caller looks at).        *)
unpin_page(h) ==
  LET f == page_table[handle[h].page] IN
  /\ handle[h].page # NoPage
  /\ handle' = [handle EXCEPT ![h] = Idle]
  /\ IF f # NoFrame /\ frames[f].pin > 0
       THEN /\ frames' = [frames EXCEPT ![f].pin = @ - 1, ![f].dirty = @ \/ handle[h].wrote]
            /\ IF frames[f].pin = 1 THEN unpin(f) ELSE UNCHANGED LRUlist
       ELSE UNCHANGED <<frames, LRUlist>>
  /\ UNCHANGED <<page_table, free_list, disk, files, errors>>

flush_page(p) ==
  LET f == page_table[p] IN
  /\ Allocated(p) /\ f # NoFrame
  /\ disk' = write_page(p, frames[f].data)
  /\ frames' = [frames EXCEPT ![f].dirty = FALSE]
  /\ UNCHANGED <<page_table, free_list, LRUlist, files, handle, errors>>

(* Frames holding a page of fd; where two hold the same page the one with  *)
(* the higher number is written last.                                      *)
FramesOf(fd) == {f \in Frame : frames[f].id # NoPage /\ frames[f].id[1] = fd}
FlushedDisk(fd) ==
  [q \in File \X PageNo |->
     LET copies == {f \in FramesOf(fd) : Place(frames[f].id) = q}
     IN  IF copies = {} THEN disk[q]
         ELSE frames[CHOOSE f \in copies : \A g \in copies : g <= f].data]
Cleaned(fd) ==
  [f \in Frame |-> IF f \in FramesOf(fd) THEN [frames[f] EXCEPT !.dirty = FALSE] ELSE frames[f]]

flush_all_pages(fd) ==
  /\ file_of[fd] # NoFile
  /\ disk' = FlushedDisk(fd)
  /\ frames' = Cleaned(fd)
  /\ UNCHANGED <<page_table, free_list, LRUlist, files, handle, errors>>

-----------------------------------------------------------------------------
(* create_table / create_index: the lowest free descriptor is the new one. *)
CreateFile(file) ==
  \E fd \in Fd :
    /\ file \notin created /\ file_of[fd] = NoFile
    /\ \A e \in Fd : e < fd => file_of[e] # NoFile
    /\ created' = created \cup {file}
    /\ file_of' = [file_of EXCEPT ![fd] = file]
    /\ fd2pageno' = [fd2pageno EXCEPT ![fd] = 0]
    /\ UNCHANGED <<frames, page_table, free_list, LRUlist, disk, handle, errors>>

(* The file is closed and unlinked once no statement uses it.              *)
Unused(fd) == \A h \in Handle : handle[h].page # NoPage => handle[h].page[1] # fd
Unlink(fd) ==
  /\ disk' = [q \in File \X PageNo |-> IF q[1] = file_of[fd] THEN Absent ELSE disk[q]]
  /\ file_of' = [file_of EXCEPT ![fd] = NoFile]
  /\ UNCHANGED <<fd2pageno, created, handle, errors>>

(* drop_table: close_file flushes the pages and leaves them in the pool.   *)
DropTable(fd) ==
  /\ file_of[fd] \in TableFile /\ Unused(fd)
  /\ frames' = Cleaned(fd)
  /\ Unlink(fd)
  /\ UNCHANGED <<page_table, free_list, LRUlist>>

(* drop_index: close_index flushes, then delete_page()s every page of the  *)
(* file, in page order, because the descriptor may be used again.  (It     *)
(* counts them by num_pages_, which is the file's page counter until the   *)
(* tree releases a node.)                                                  *)
Pooled(fd) == {n \in PageNo : /\ n < fd2pageno[fd] /\ page_table[<<fd, n>>] # NoFrame
                              /\ frames[page_table[<<fd, n>>]].pin = 0}

(* The members of a set of numbers in ascending order.                     *)
Ascending(S, max) == {s \in SeqOf(S, max) : /\ \A n \in S : Contains(s, n)
                                            /\ \A i, j \in DOMAIN s : i < j => s[i] < s[j]}

DropIndex(fd) ==
  LET gone == {<<fd, n>> : n \in Pooled(fd)}
      freed == {page_table[p] : p \in gone}
  IN
  /\ file_of[fd] \in IndexFile /\ Unused(fd)
  /\ page_table' = [p \in PageId |-> IF p \in gone THEN NoFrame ELSE page_table[p]]
  /\ frames' = [f \in Frame |-> IF f \in freed THEN FreshFrame ELSE Cleaned(fd)[f]]
  /\ \E pages \in Ascending(Pooled(fd), NumPages) :
       free_list' = free_list \o [i \in DOMAIN pages |-> page_table[<<fd, pages[i]>>]]
  /\ \E kept \in Ascending({i \in DOMAIN LRUlist : LRUlist[i] \notin freed}, Len(LRUlist)) :
       LRUlist' = [i \in DOMAIN kept |-> LRUlist[kept[i]]]
  /\ Unlink(fd)

-----------------------------------------------------------------------------
Next ==
  \/ \E h \in Handle :
       \/ \E p \in PageId : FetchHit(h, p) \/ FetchMiss(h, p) \/ FetchReadFails(h, p)
       \/ \E fd \in Fd : new_page(h, fd)
       \/ \E d \in Data : WritePage(h, d)
       \/ unpin_page(h)
       \/ WriteBackFails(h)
  \/ \E p \in PageId : flush_page(p)
  \/ \E fd \in Fd : flush_all_pages(fd) \/ DropTable(fd) \/ DropIndex(fd)
  \/ \E file \in File : CreateFile(file)

Spec == Init /\ [][Next]_vars

-----------------------------------------------------------------------------
TypeOK ==
  /\ frames \in [Frame -> [id: PageId \cup {NoPage}, data: Content, dirty: BOOLEAN, pin: Nat]]
  /\ page_table \in [PageId -> Frame \cup {NoFrame}]
  /\ free_list \in Seq(Frame) /\ LRUlist \in Seq(Frame)
  /\ disk \in [File \X PageNo -> Content \cup {Absent}]
  /\ file_of \in [Fd -> File \cup {NoFile}]
  /\ fd2pageno \in [Fd -> 0..NumPages]
  /\ created \subseteq File
  /\ handle \in [Handle -> [page: PageId \cup {NoPage}, frame: Frame \cup {NoFrame},
                         wrote: BOOLEAN]]
  /\ errors \in 0..MaxErrors

(* No table has been dropped: its pages would stay in the pool under a     *)
(* descriptor that is used again.                                          *)
TablesKept == \A f \in TableFile \cap created : \E fd \in Fd : file_of[fd] = f

(* Neither that, nor has a read or write failed and left a wrong or a      *)
(* leaked frame behind.                                                    *)
Intact == errors = 0 /\ TablesKept

(* page_table_ and the id_ of the frames are inverse to each other: no     *)
(* page is in two frames and no mapping is lost, through every eviction,   *)
(* failed read or write, dropped index and reuse of its descriptor.        *)
PageTableExact ==
  TablesKept =>
  /\ \A p \in PageId : page_table[p] # NoFrame => frames[page_table[p]].id = p
  /\ \A f \in Frame : frames[f].id # NoPage => page_table[frames[f].id] = f

(* pin_count_ is the number of callers that hold the page, also when reads *)
(* and writes fail, so a page in use is never evicted and an unused one    *)
(* never stays pinned.                                                     *)
PinsMatch ==
  TablesKept =>
  /\ \A f \in Frame :
       frames[f].pin = Cardinality({h \in Handle : handle[h].page # NoPage
                                                     /\ page_table[handle[h].page] = f})
  /\ \A h \in Handle : handle[h].page # NoPage => page_table[handle[h].page] = handle[h].frame

(* Every frame is in exactly one place, once: free, evictable, or pinned.  *)
(* So fetch_page and new_page return nullptr only when every frame is      *)
(* really in use.                                                          *)
FramesAccounted ==
  LET places == free_list \o LRUlist
  IN  Intact =>
      /\ \A f \in Frame : (frames[f].pin = 0) <=> Contains(places, f)
      /\ \A i, j \in DOMAIN places : places[i] = places[j] => i = j

(* A frame that is clean and that no caller has written since is identical *)
(* to the page on disk: eviction may drop it without writing.              *)
CleanIsDurable ==
  Intact => \A f \in Frame :
    (/\ frames[f].id # NoPage /\ ~frames[f].dirty /\ file_of[frames[f].id[1]] # NoFile
     /\ \A h \in Handle : ~(handle[h].page = frames[f].id /\ handle[h].wrote))
    => disk[Place(frames[f].id)] = frames[f].data

(* The pool's own data are right: page table, pin counts and dirty flags   *)
(* say what is in the frames (buffer_pool_manager.cpp).                    *)
PoolExact == TypeOK /\ PageTableExact /\ PinsMatch /\ CleanIsDurable

(* What a caller would see of a page: nothing while its file is not open   *)
(* or the page not allocated; then the frame's content if the page is in   *)
(* the pool, else the file's.                                              *)
Seen(q) ==
  LET names == {p \in PageId : Place(p) = q /\ Allocated(p)}
      p == CHOOSE n \in names : TRUE
  IN  IF names = {} THEN Absent
      ELSE IF page_table[p] = NoFrame THEN disk[q] ELSE frames[page_table[p]].data

StoreContent == [q \in File \X PageNo |-> Seen(q)]
StoreHeld == [h \in Handle |-> IF handle[h].page = NoPage THEN NoPage ELSE Place(handle[h].page)]

Store == INSTANCE PageStore WITH content <- StoreContent, held <- StoreHeld

(* The pool implements PageStore as long as it is Intact: no fetch,        *)
(* eviction, flush, deletion of pages or reuse of a descriptor ever        *)
(* changes what a page contains.                                           *)
ImplementsPageStore ==
  Store!Init /\ [][Intact' => Store!Next \/ UNCHANGED <<StoreContent, StoreHeld>>]_vars
=============================================================================
