------------------------------ MODULE PageStore ------------------------------
(***************************************************************************)
(* What the buffer pool promises its callers (the record file, the index): *)
(* a page has one content, every holder sees it, only a holder's own write *)
(* changes it, and taking, returning, flushing, evicting or deleting pages *)
(* never does.                                                             *)
(***************************************************************************)
CONSTANTS File, PageNo, Handle, Data, Zero, Absent, NoPage

VARIABLES content,   \* content of every page of every file
          held       \* the page each handle has pinned

Page == File \X PageNo

Init ==
  /\ content = [p \in Page |-> Absent]
  /\ held = [h \in Handle |-> NoPage]

Take(h, p) ==
  /\ held[h] = NoPage /\ content[p] # Absent
  /\ held' = [held EXCEPT ![h] = p]
  /\ UNCHANGED content

Create(h, p) ==
  /\ held[h] = NoPage /\ content[p] = Absent
  /\ held' = [held EXCEPT ![h] = p]
  /\ content' = [content EXCEPT ![p] = Zero]

Write(h, d) ==
  /\ held[h] # NoPage
  /\ content' = [content EXCEPT ![held[h]] = d]
  /\ UNCHANGED held

Return(h) ==
  /\ held[h] # NoPage
  /\ held' = [held EXCEPT ![h] = NoPage]
  /\ UNCHANGED content

(* A file nobody holds a page of is dropped.                               *)
Drop(f) ==
  /\ \A h \in Handle : held[h] # NoPage => held[h][1] # f
  /\ content' = [p \in Page |-> IF p[1] = f THEN Absent ELSE content[p]]
  /\ UNCHANGED held

Next ==
  \/ \E h \in Handle : \/ \E p \in Page : Take(h, p) \/ Create(h, p)
                       \/ \E d \in Data : Write(h, d)
                       \/ Return(h)
  \/ \E f \in File : Drop(f)

Spec == Init /\ [][Next]_<<content, held>>
=============================================================================
