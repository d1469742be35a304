---------------------------- MODULE ServerProofs ----------------------------
(***************************************************************************)
(* Proofs about Server: for any number of clients, statements, failing     *)
(* calls and restarts.                                                     *)
(***************************************************************************)
EXTENDS Server, TLAPS

-----------------------------------------------------------------------------
(* The inductive invariant: what is true of the session of one client,     *)
(* i.e. of its thread, its connection and the client itself.               *)

Of(c) == {c} \X (1..MaxStmts[c])       \* changes, and transactions, of c
Running == {"parse", "analyze", "execute"}
Commits == {"unlock", "log", "flush", "finish"}
Steps == Busy \cup {"none", "spawned", "read", "ended"}

ThreadFields == {"at", "fd", "stmt", "query", "answer", "auto", "txn_id", "begun", "ctx", "mode", "wrote"}
ClientFields == {"n", "kind", "waits", "open", "seen"}
Reply(c) == [n: 1..MaxStmts[c], text: Text]
Recorded == logged \cup buffered        \* the commit record is somewhere in the log

Types ==
  /\ server \in {"up", "closing", "down"}
  /\ sockfd \in Client \cup {None} /\ backlog \subseteq Client /\ sockfd_mutex \in BOOLEAN
  /\ buffer_mutex \in Client \cup {None} /\ parse_tree \in Statement \cup {None}
  /\ txn_map \subseteq Change /\ lock \in {None} \cup Change
  /\ applied \subseteq Change /\ logged \subseteq Change /\ buffered \subseteq Change
  /\ DOMAIN thread = Client /\ DOMAIN client = Client /\ DOMAIN replies = Client
  /\ conn \in [Client -> {"none", "open", "gone"}]
  /\ request \in [Client -> Statement \cup {None}]
  /\ told \subseteq Change /\ refused \subseteq Change

SessionTypes(c) ==
  /\ DOMAIN thread[c] = ThreadFields /\ DOMAIN client[c] = ClientFields
  /\ thread[c].at \in Steps /\ thread[c].fd \in Client \cup {None}
  /\ thread[c].stmt \in Statement \cup {None} /\ thread[c].answer \in Text
  /\ thread[c].auto \in BOOLEAN /\ thread[c].ctx \in BOOLEAN /\ thread[c].mode \in BOOLEAN
  /\ thread[c].txn_id \in Nat /\ thread[c].begun \in Nat /\ thread[c].wrote \subseteq Of(c)
  /\ client[c].n \in Nat /\ client[c].waits \in BOOLEAN /\ client[c].open \in BOOLEAN
  /\ client[c].seen \subseteq Of(c)
  /\ replies[c] \in Seq(Reply(c))

(* The descriptor is handed over under sockfd_mutex.                       *)
SocketInv(c) ==
  /\ thread[c].at = "spawned" => sockfd = c /\ sockfd_mutex
  /\ thread[c].at \in {"none", "spawned"} => ~thread[c].ctx /\ thread[c].begun = 0
  /\ thread[c].at \notin {"none", "spawned"} => thread[c].fd = c
  /\ c \in backlog => thread[c].at = "none" /\ conn[c] # "none"
  /\ conn[c] = "none" => /\ thread[c].at = "none" /\ request[c] = None /\ replies[c] = <<>>
                         /\ ~client[c].waits /\ ~client[c].open /\ client[c].seen = {}

(* context->txn_, txn_id and the transaction's mode.                       *)
ContextInv(c) ==
  /\ thread[c].ctx => thread[c].txn_id # 0
  /\ ~thread[c].ctx => /\ thread[c].txn_id = 0 /\ ~thread[c].mode
                       /\ ~thread[c].auto /\ thread[c].wrote = {}
  /\ thread[c].auto => ~thread[c].mode /\ thread[c].at \in Commits \cup {"undo"}
  /\ thread[c].at = "read" /\ thread[c].ctx => thread[c].mode
  /\ thread[c].at \in Running \cup Commits \cup {"undo"} => thread[c].ctx
  /\ thread[c].at = "failure" => ~thread[c].ctx

(* A statement is the client's own, and its number is used once.           *)
StatementInv(c) ==
  /\ client[c].n <= MaxStmts[c] /\ (client[c].waits => client[c].n > 0)
  /\ \A u \in client[c].seen : u[2] <= client[c].n
  /\ request[c] # None => request[c].from = c /\ request[c].n = client[c].n
  /\ thread[c].at \in Busy =>
       /\ thread[c].stmt \in Statement /\ thread[c].stmt.from = c
       /\ thread[c].stmt.n \in 1..client[c].n
       /\ request[c] # None => thread[c].stmt.n < client[c].n
  /\ thread[c].at = "analyze" => buffer_mutex = c /\ parse_tree = thread[c].stmt
  /\ thread[c].at = "execute" => thread[c].query = thread[c].stmt
  /\ thread[c].begun + (IF request[c] # None THEN 1 ELSE 0) <= client[c].n

(* A transaction in txn_map, or with the lock, is the thread's current one *)
(* or one that its thread has given up.                                    *)
TxnInv(c) ==
  /\ thread[c].txn_id # 0 => Id(c) \in txn_map
  /\ \A id \in Of(c) : id \in txn_map \/ lock = id =>
       id = Id(c) \/ thread[c].at = "ended" \/ id \in leaked
  /\ thread[c].at \in {"log", "flush", "finish"} => lock # Id(c)

(* The write set, the log and what is lost on the way.                     *)
WriteInv(c) ==
  /\ thread[c].at = "flush" => thread[c].wrote \subseteq Recorded
  /\ thread[c].at = "finish" => thread[c].wrote \subseteq logged
  /\ thread[c].auto /\ (thread[c].at = "undo" \/ server = "down") => thread[c].wrote \subseteq lost
  /\ thread[c].auto /\ thread[c].at = "undo" => thread[c].answer = "error"
  /\ thread[c].at \notin {"flush", "finish", "undo"} => thread[c].wrote \cap Recorded = {}
  /\ thread[c].at = "undo" => thread[c].wrote \cap Recorded \subseteq ghosts

(* Nothing has happened yet to a statement that is still to be executed.   *)
FreshInv(c) ==
  \A u \in Of(c) :
    u \in applied \cup Recorded \cup thread[c].wrote \/ (u \in refused /\ c \notin twice) =>
      /\ u[2] <= client[c].n
      /\ request[c] # None => u[2] < client[c].n
      /\ thread[c].at \in Running => u[2] < thread[c].stmt.n

ToldInv(c) ==
  \A u \in Of(c) : u \in told =>
    u \in logged \cup lost \/ c \in twice \/ (thread[c].auto /\ u \in thread[c].wrote)

(* u has no effect, except in the ways that RefusedHasNoEffect names.      *)
NoEffect(u) == (u \in Recorded => u \in ghosts) /\ (u \in applied => u \in ghosts \cup stuck)

RefusedInv(c) ==
  \A u \in Of(c) : u \in refused /\ c \notin twice => NoEffect(u) /\ u \notin thread[c].wrote

(* Client and thread in step: the thread has nothing more to answer unless *)
(* the client waits for just that.                                         *)
Done(c) == thread[c].at \in {"none", "spawned", "read", "failure"} \/ thread[c].auto
Asked(c) == [kind |-> client[c].kind, from |-> c, n |-> client[c].n]
Wish(c) == IF client[c].kind = "write" THEN {<<c, client[c].n>>} ELSE {}

PhaseInv(c) ==
  /\ client[c].waits => client[c].kind \in Kind
  /\ ~client[c].waits => request[c] = None /\ replies[c] = <<>>
  /\ request[c] # None => replies[c] = <<>> /\ request[c] = Asked(c)
  /\ Done(c) <=> ~(client[c].waits /\ request[c] = None /\ replies[c] = <<>>)
  /\ ~Done(c) => thread[c].at \in Busy /\ thread[c].stmt = Asked(c)
  /\ replies[c] # <<>> => Len(replies[c]) = 1 /\ replies[c][1].n = client[c].n

(* The client's idea of the transaction is the thread's.                   *)
Agree(c) == (client[c].open <=> thread[c].mode) /\ client[c].seen \subseteq thread[c].wrote

(* What is true when an answer is given: as long as it is the thread's     *)
(* next step, and until the client reads it.                               *)
AnswerInv(c, text) ==
  LET kind == client[c].kind IN
  /\ text = "ok" => kind \in {"begin", "commit", "rollback", "write"}
  /\ text = "ok" /\ kind = "commit" => ~thread[c].ctx /\ client[c].seen \subseteq logged
  /\ text = "ok" /\ kind = "rollback" => ~thread[c].ctx /\ \A u \in client[c].seen : NoEffect(u)
  /\ text = "ok" /\ kind = "begin" => thread[c].mode /\ client[c].seen \subseteq thread[c].wrote
  /\ text = "ok" /\ kind = "write" =>
       /\ Agree(c)
       /\ client[c].open => Wish(c) \subseteq thread[c].wrote
       /\ ~client[c].open => \/ Wish(c) \subseteq thread[c].wrote
                             \/ Done(c) /\ Wish(c) \subseteq logged \cup lost
  /\ text = "empty" => kind = "bad" /\ Agree(c)
  /\ text \notin {"ok", "empty"} =>
       ~thread[c].ctx /\ \A u \in client[c].seen \cup Wish(c) : NoEffect(u)

DataInv(c) ==
  /\ ~client[c].open => client[c].seen = {}
  /\ Done(c) /\ replies[c] = <<>> => Agree(c)
  /\ ~Done(c) /\ thread[c].at \in Running => Agree(c) /\ thread[c].answer = "ok"
  /\ ~Done(c) /\ thread[c].at \in Commits =>
       client[c].kind = "commit" /\ client[c].seen \subseteq thread[c].wrote /\ thread[c].answer = "ok"
  /\ ~Done(c) /\ thread[c].at = "undo" =>
       /\ thread[c].answer \in {"ok", "abort", "error"}
       /\ thread[c].answer = "ok" => client[c].kind = "rollback"
       /\ \A u \in client[c].seen \cup Wish(c) :
            /\ u \in Recorded => u \in ghosts
            /\ u \in applied => u \in thread[c].wrote \cup ghosts \cup stuck
  /\ ~Done(c) /\ thread[c].at = "reply" =>
       AnswerInv(c, thread[c].answer) /\ (thread[c].answer = "ok" /\ client[c].kind = "write" => thread[c].ctx)
  /\ replies[c] # <<>> => AnswerInv(c, replies[c][1].text)

InStep(c) == c \notin twice /\ conn[c] = "open" => PhaseInv(c) /\ DataInv(c)

SessionInv(c) ==
  /\ SessionTypes(c)
  /\ SocketInv(c) /\ ContextInv(c) /\ StatementInv(c) /\ TxnInv(c) /\ WriteInv(c)
  /\ FreshInv(c) /\ ToldInv(c) /\ RefusedInv(c) /\ InStep(c)

IInv == Types /\ \A c \in Client : SessionInv(c)

(* What is in the log is spoken of by its two parts in all that follows.   *)
USE DEF Recorded

-----------------------------------------------------------------------------
(* A step that leaves the session of c alone: it may only add to what is   *)
(* lost, stuck or left behind, and takes nothing of c's.                   *)
Frame(c) ==
  /\ thread'[c] = thread[c] /\ client'[c] = client[c] /\ conn'[c] = conn[c]
  /\ request'[c] = request[c] /\ replies'[c] = replies[c]
  /\ c \in backlog' => c \in backlog
  /\ thread[c].at = "spawned" => sockfd' = sockfd /\ sockfd_mutex' = sockfd_mutex
  /\ thread[c].at = "analyze" => buffer_mutex' = buffer_mutex /\ parse_tree' = parse_tree
  /\ \A u \in {c} \X Nat :
       /\ u \in applied' <=> u \in applied
       /\ u \in Recorded' <=> u \in Recorded
       /\ u \in told' <=> u \in told
       /\ u \in refused' <=> u \in refused
       /\ u \in txn_map' <=> u \in txn_map
       /\ lock' = u <=> lock = u
  /\ logged \subseteq logged'
  /\ lost \subseteq lost' /\ ghosts \subseteq ghosts' /\ stuck \subseteq stuck' /\ leaked \subseteq leaked'
  /\ c \in twice' <=> c \in twice
  /\ server' = "down" /\ thread[c].auto => server = "down" \/ thread[c].wrote \subseteq lost'

LEMMA FrameStep ==
  ASSUME NEW c \in Client, SessionInv(c), Frame(c)
  PROVE  SessionInv(c)'
<1>0. /\ Of(c) \subseteq {c} \X Nat /\ SessionTypes(c)
      /\ thread[c].wrote \subseteq Of(c) /\ client[c].seen \subseteq Of(c) /\ Id(c) \in {c} \X Nat
  BY ServerConstants DEF Of, SessionTypes, Id, SessionInv
<1>1. SocketInv(c)' /\ ContextInv(c)' /\ SessionTypes(c)'
  BY DEF SessionInv, Frame, SocketInv, ContextInv, SessionTypes
<1>2. StatementInv(c)'
  BY DEF SessionInv, Frame, StatementInv
<1>3. TxnInv(c)'
  BY <1>0 DEF SessionInv, Frame, TxnInv, Id
<1>4. WriteInv(c)'
  BY <1>0 DEF SessionInv, Frame, WriteInv
<1>5. FreshInv(c)'
  BY <1>0 DEF SessionInv, Frame, FreshInv
<1>6. ToldInv(c)'
  BY <1>0 DEF SessionInv, Frame, ToldInv
<1>7. RefusedInv(c)'
  BY <1>0 DEF SessionInv, Frame, RefusedInv, NoEffect
<1>8. ASSUME c \notin twice, conn[c] = "open" PROVE PhaseInv(c)' /\ DataInv(c)'
  <2>1. PhaseInv(c)'
    BY <1>8 DEF SessionInv, Frame, InStep, PhaseInv, Done, Asked
  <2>2. client[c].seen \cup Wish(c) \subseteq {c} \X Nat
    BY <1>0 DEF SessionTypes, Wish
  <2>3. \A text : AnswerInv(c, text) => AnswerInv(c, text)'
    BY <1>0, <2>2 DEF Frame, AnswerInv, NoEffect, Agree, Done, Wish
  <2>4. DataInv(c)'
    BY <1>0, <1>8, <2>2, <2>3 DEF SessionInv, Frame, InStep, DataInv, Agree, Done, Wish
  <2> QED BY <2>1, <2>4
<1>9. InStep(c)'
  BY <1>8 DEF Frame, InStep
<1> QED BY <1>1, <1>2, <1>3, <1>4, <1>5, <1>6, <1>7, <1>9 DEF SessionInv

(* A step of a thread that has answered already: it only goes on with the  *)
(* commit of the implicit transaction, which the client does not wait for. *)
LEMMA DoneStep ==
  ASSUME NEW k \in Client, SessionInv(k), Done(k), Done(k)',
         client'[k] = client[k], conn'[k] = conn[k], request'[k] = request[k],
         replies'[k] = replies[k], k \in twice' <=> k \in twice,
         thread'[k].mode <=> thread[k].mode,
         thread'[k].ctx => thread[k].ctx,
         thread[k].mode => thread'[k].wrote = thread[k].wrote,
         thread[k].wrote \subseteq thread'[k].wrote \cup logged' \cup lost',
         logged \subseteq logged', lost \subseteq lost',
         ~thread[k].ctx => \A u \in {k} \X Nat : NoEffect(u) => NoEffect(u)'
  PROVE  InStep(k)'
<1> SUFFICES ASSUME k \notin twice, conn[k] = "open" PROVE PhaseInv(k)' /\ DataInv(k)'
  BY DEF InStep
<1>1. PhaseInv(k) /\ DataInv(k)
  BY DEF SessionInv, InStep
<1>2. PhaseInv(k)'
  BY <1>1 DEF PhaseInv, Asked
<1>3. client[k].seen \subseteq {k} \X Nat /\ Wish(k) \subseteq {k} \X Nat /\ Wish(k)' = Wish(k)
  BY ServerConstants DEF SessionInv, SessionTypes, Of, Wish
<1>4. Agree(k) => Agree(k)'
  BY <1>1 DEF DataInv, Agree
<1>5. Wish(k) \subseteq thread[k].wrote => Wish(k) \subseteq thread'[k].wrote \/ Wish(k) \subseteq logged' \cup lost'
  BY DEF Wish
<1>6. ASSUME NEW text, AnswerInv(k, text) PROVE AnswerInv(k, text)'
  <2>1. /\ text = "ok" => client[k].kind \in {"begin", "commit", "rollback", "write"}
        /\ text = "ok" /\ client[k].kind = "commit" => ~thread'[k].ctx /\ client[k].seen \subseteq logged'
        /\ text = "ok" /\ client[k].kind = "begin" => thread'[k].mode /\ client[k].seen \subseteq thread'[k].wrote
        /\ text = "empty" => client[k].kind = "bad" /\ Agree(k)'
    BY <1>4, <1>6 DEF AnswerInv
  <2>2. text = "ok" /\ client[k].kind = "write" =>
          /\ Agree(k)'
          /\ client[k].open => Wish(k) \subseteq thread'[k].wrote
          /\ ~client[k].open => Wish(k) \subseteq thread'[k].wrote \/ Wish(k) \subseteq logged' \cup lost'
    BY <1>4, <1>5, <1>6 DEF AnswerInv, Agree
  <2>3. text = "ok" /\ client[k].kind = "rollback" => ~thread'[k].ctx /\ \A u \in client[k].seen : NoEffect(u)'
    BY <1>3, <1>6 DEF AnswerInv
  <2>4. text \notin {"ok", "empty"} => ~thread'[k].ctx /\ \A u \in client[k].seen \cup Wish(k) : NoEffect(u)'
    BY <1>3, <1>6 DEF AnswerInv
  <2> QED BY <1>3, <2>1, <2>2, <2>3, <2>4 DEF AnswerInv
<1>7. DataInv(k)'
  BY <1>1, <1>4, <1>6 DEF DataInv
<1> QED BY <1>2, <1>7

LEMMA ReadStatementStep ==
  ASSUME Types, NEW k \in Client, SessionInv(k), ReadStatement(k)
  PROVE  Types' /\ SessionInv(k)' /\ \A c \in Client \ {k} : Frame(c)
<1> DEFINE t == thread[k]
<1>1. /\ t.at = "read" /\ t.fd = k /\ SessionTypes(k)
      /\ request[k] # None /\ request[k] \in Statement /\ request[k].n = client[k].n
      /\ t.txn_id \in Nat /\ t.begun \in Nat
  BY DEF ReadStatement, At, Types, SessionInv, SessionTypes, SocketInv, StatementInv
<1>2. /\ DOMAIN thread' = Client /\ DOMAIN thread'[k] = ThreadFields
      /\ \A c \in Client \ {k} : thread'[c] = thread[c]
      /\ thread'[k].at = "parse" /\ thread'[k].stmt = request[k] /\ thread'[k].answer = "ok"
      /\ thread'[k].ctx = TRUE /\ thread'[k].fd = k /\ thread'[k].auto = t.auto
      /\ thread'[k].txn_id = IF t.txn_id = 0 THEN t.begun + 1 ELSE t.txn_id
      /\ thread'[k].begun = IF t.txn_id = 0 THEN t.begun + 1 ELSE t.begun
      /\ thread'[k].mode = IF t.txn_id = 0 THEN FALSE ELSE t.mode
      /\ thread'[k].wrote = IF t.txn_id = 0 THEN {} ELSE t.wrote
  <2> DEFINE taken == [thread EXCEPT ![k].at = "parse", ![k].stmt = request[k], ![k].query = None,
                                     ![k].answer = "ok", ![k].ctx = TRUE]
  <2>1. /\ DOMAIN taken = Client /\ DOMAIN taken[k] = ThreadFields
        /\ \A c \in Client \ {k} : taken[c] = thread[c]
        /\ taken[k].at = "parse" /\ taken[k].stmt = request[k] /\ taken[k].answer = "ok"
        /\ taken[k].ctx = TRUE /\ taken[k].fd = k /\ taken[k].auto = t.auto
        /\ taken[k].txn_id = t.txn_id /\ taken[k].begun = t.begun
        /\ taken[k].mode = t.mode /\ taken[k].wrote = t.wrote
    BY <1>1 DEF Types, SessionTypes, ThreadFields
  <2>2. /\ t.txn_id = 0 => thread' = [taken EXCEPT ![k].begun = @ + 1, ![k].txn_id = t.begun + 1,
                                                  ![k].mode = FALSE, ![k].wrote = {}]
        /\ t.txn_id # 0 => thread' = taken
    BY <1>1, Zenon DEF ReadStatement, NewId
  <2> HIDE DEF taken
  <2>3. CASE t.txn_id = 0
    <3>1. thread' = [taken EXCEPT ![k].begun = @ + 1, ![k].txn_id = t.begun + 1,
                                                  ![k].mode = FALSE, ![k].wrote = {}]
      BY <2>2, <2>3
    <3>2. /\ DOMAIN thread' = Client /\ DOMAIN thread'[k] = ThreadFields
          /\ \A c \in Client \ {k} : thread'[c] = taken[c]
      BY <2>1, <3>1 DEF ThreadFields
    <3>3. /\ thread'[k].begun = taken[k].begun + 1 /\ thread'[k].txn_id = t.begun + 1
          /\ thread'[k].mode = FALSE /\ thread'[k].wrote = {}
      BY <2>1, <3>1 DEF ThreadFields
    <3>4. /\ thread'[k].at = taken[k].at /\ thread'[k].stmt = taken[k].stmt
          /\ thread'[k].answer = taken[k].answer /\ thread'[k].ctx = taken[k].ctx
          /\ thread'[k].fd = taken[k].fd /\ thread'[k].auto = taken[k].auto
      BY <2>1, <3>1 DEF ThreadFields
    <3> QED BY <2>1, <2>3, <3>2, <3>3, <3>4
  <2>4. CASE t.txn_id # 0
    BY <2>1, <2>2, <2>4 DEF ThreadFields
  <2> QED BY <2>3, <2>4
<1>3. /\ txn_map' = IF t.txn_id = 0 THEN txn_map \cup {<<k, t.begun + 1>>} ELSE txn_map
      /\ request' = [request EXCEPT ![k] = None]
      /\ server' = server
  <2>1. t.txn_id # 0 => Id(k) \in txn_map
    BY DEF SessionInv, TxnInv
  <2> QED BY <1>1, <2>1, Zenon DEF ReadStatement, NewId
<1>4. /\ UNCHANGED <<sockfd, sockfd_mutex, backlog, buffer_mutex, parse_tree, lock, applied, logged, buffered, conn, client, replies>>
      /\ UNCHANGED <<told, refused, lost, ghosts, stuck, leaked, twice>>
  BY DEF ReadStatement, accepting, parsing, history, log
<1>5. t.begun + 1 <= client[k].n /\ client[k].n \in Nat /\ client[k].n <= MaxStmts[k]
  BY <1>1, ServerConstants DEF SessionInv, StatementInv, SessionTypes
<1>6. <<k, t.begun + 1>> \in Of(k) /\ Of(k) \subseteq Change /\ Of(k) \subseteq {k} \X Nat
  BY <1>1, <1>5, ServerConstants DEF Of, Change
<1>7. Types'
  BY <1>1, <1>2, <1>3, <1>4, <1>6 DEF Types
<1>8. SessionTypes(k)'
  <2>1. thread'[k].auto \in BOOLEAN /\ thread'[k].ctx \in BOOLEAN /\ thread'[k].mode \in BOOLEAN
    BY <1>1, <1>2 DEF SessionTypes
  <2>2. thread'[k].at \in Steps /\ thread'[k].answer \in Text /\ thread'[k].txn_id \in Nat /\ thread'[k].begun \in Nat
    BY <1>1, <1>2 DEF SessionTypes, Steps, Busy, Text
  <2> QED BY <1>1, <1>2, <1>4, <2>1, <2>2 DEF SessionTypes
<1>81. SocketInv(k)'
  BY <1>1, <1>2, <1>4 DEF SessionInv, SocketInv
<1>82. ContextInv(k)'
  BY <1>1, <1>2, <1>4 DEF SessionInv, ContextInv, Running, Commits
<1>9. StatementInv(k)'
  BY <1>1, <1>2, <1>3, <1>4, <1>5 DEF SessionInv, StatementInv, Types, Busy
<1>10. TxnInv(k)'
  BY <1>1, <1>2, <1>3, <1>4, <1>6 DEF SessionInv, TxnInv, Id, Of
<1>11. WriteInv(k)'
  BY <1>1, <1>2, <1>3, <1>4 DEF SessionInv, WriteInv
<1>12. FreshInv(k)'
  BY <1>1, <1>2, <1>3, <1>4 DEF SessionInv, FreshInv, Running, Types
<1>121. ToldInv(k)'
  BY <1>1, <1>2, <1>3, <1>4 DEF SessionInv, ToldInv, ContextInv, Commits
<1>122. RefusedInv(k)'
  BY <1>1, <1>2, <1>3, <1>4 DEF SessionInv, RefusedInv, NoEffect
<1>13. InStep(k)'
  <2> SUFFICES ASSUME k \notin twice, conn[k] = "open" PROVE PhaseInv(k)' /\ DataInv(k)'
    BY <1>4 DEF InStep
  <2>1. PhaseInv(k) /\ DataInv(k)
    BY DEF SessionInv, InStep
  <2>2. ~thread'[k].auto /\ Done(k) /\ ~Done(k)' /\ replies[k] = <<>>
    BY <1>1, <1>2, <2>1 DEF PhaseInv, SessionInv, ContextInv, Done, Commits
  <2>3. PhaseInv(k)'
    BY <1>1, <1>2, <1>3, <1>4, <2>1, <2>2, ServerConstants DEF PhaseInv, Asked, Busy, Types
  <2>4. Agree(k)'
    BY <1>1, <1>2, <1>4, <2>1, <2>2 DEF DataInv, Agree, SessionInv, ContextInv
  <2>5. DataInv(k)'
    BY <1>1, <1>2, <1>3, <1>4, <2>1, <2>2, <2>4 DEF DataInv, Commits
  <2> QED BY <2>3, <2>5
<1>14. \A c \in Client \ {k} : Frame(c)
  BY <1>2, <1>3, <1>4 DEF Frame, Types
<1> QED BY <1>7, <1>8, <1>81, <1>82, <1>9, <1>10, <1>11, <1>12, <1>121, <1>122, <1>13, <1>14 DEF SessionInv

(* The process ends: nothing of a session changes any more, and what it    *)
(* has announced but may not have written is lost.                         *)
LEMMA EndedStep ==
  ASSUME Types, \A c \in Client : SessionInv(c), Ended, UNCHANGED log \/ FlushLog
  PROVE  Types' /\ \A c \in Client : Frame(c)
<1>1. /\ UNCHANGED <<accepting, parsing, thread, txn_map, lock, applied, net, told, refused, ghosts, stuck, leaked, twice>>
      /\ server' = "down" /\ lost \subseteq lost'
      /\ \A c \in Client : thread[c].auto => thread[c].wrote \subseteq lost'
  BY DEF Ended
<1>2. Recorded' = Recorded /\ logged \subseteq logged'
  BY DEF FlushLog, log
<1> HIDE DEF Recorded
<1>3. logged' \subseteq Change /\ buffered' \subseteq Change
  BY <1>2 DEF Types, Recorded
<1> QED BY <1>1, <1>2, <1>3 DEF Types, Frame, accepting, parsing, net

(* The log buffer is written because it is full.                           *)
LEMMA FullBufferStep ==
  ASSUME Types, NEW k \in Client, FullBuffer(k)
  PROVE  Types' /\ \A c \in Client : Frame(c)
<1>1. /\ UNCHANGED <<server, accepting, parsing, thread, txn_map, lock, applied, net, history>>
      /\ Recorded' = Recorded /\ logged \subseteq logged'
  BY DEF FullBuffer, FlushLog
<1> HIDE DEF Recorded
<1>2. logged' \subseteq Change /\ buffered' \subseteq Change
  BY <1>1 DEF Types, Recorded
<1> QED BY <1>1, <1>2 DEF Types, Frame, accepting, parsing, net, history

(* Steps of the accept loop that leave every session alone.                *)
LEMMA QuietStep ==
  ASSUME Types, \A c \in Client : SessionInv(c),
         Shutdown \/ AcceptFails \/ \E c \in Client : ThreadFails(c)
  PROVE  Types' /\ \A c \in Client : Frame(c)
<1>1. CASE Shutdown
  BY <1>1 DEF Shutdown, Types, Frame, accepting, parsing, data, log, net, history
<1>2. CASE AcceptFails
  <2>1. \A c \in Client : thread[c].at # "spawned"
    BY <1>2 DEF AcceptFails, SessionInv, SocketInv
  <2> QED BY <1>2, <2>1 DEF AcceptFails, Types, Frame, parsing, data, log, net, history
<1>3. ASSUME NEW k \in Client, ThreadFails(k) PROVE Types' /\ \A c \in Client : Frame(c)
  <2>1. \A c \in Client : thread[c].at # "spawned"
    BY <1>3 DEF ThreadFails, SessionInv, SocketInv
  <2> QED BY <1>3, <2>1 DEF ThreadFails, Types, Frame, parsing, data, log, net, history
<1> QED BY <1>1, <1>2, <1>3

LEMMA ConnectStep ==
  ASSUME Types, NEW k \in Client, SessionInv(k), Connect(k)
  PROVE  Types' /\ SessionInv(k)' /\ \A c \in Client \ {k} : Frame(c)
<1>1. /\ UNCHANGED <<server, sockfd, sockfd_mutex, parsing, thread, data, client, request, replies, history>>
      /\ conn[k] = "none" /\ conn' = [conn EXCEPT ![k] = "open"] /\ backlog' = backlog \cup {k}
  BY DEF Connect
<1> USE <1>1 DEF parsing, data, log, history
<1>2. Types'
  BY DEF Types
<1>3. SessionTypes(k)' /\ SocketInv(k)' /\ ContextInv(k)'
  BY DEF SessionInv, SessionTypes, SocketInv, ContextInv, Types
<1>4. StatementInv(k)' /\ TxnInv(k)' /\ WriteInv(k)'
  BY DEF SessionInv, StatementInv, TxnInv, WriteInv, Id
<1>5. FreshInv(k)' /\ ToldInv(k)' /\ RefusedInv(k)'
  BY DEF SessionInv, FreshInv, ToldInv, RefusedInv, NoEffect
<1>6. InStep(k)'
  BY DEF SessionInv, SocketInv, ContextInv, InStep, PhaseInv, DataInv, Agree, Done
<1>7. \A c \in Client \ {k} : Frame(c)
  BY DEF Frame, Types
<1> QED BY <1>2, <1>3, <1>4, <1>5, <1>6, <1>7 DEF SessionInv

LEMMA LeaveStep ==
  ASSUME Types, NEW k \in Client, SessionInv(k), Leave(k)
  PROVE  Types' /\ SessionInv(k)' /\ \A c \in Client \ {k} : Frame(c)
<1>1. /\ UNCHANGED <<server, accepting, parsing, thread, data, client, request, replies, history>>
      /\ conn[k] = "open" /\ conn' = [conn EXCEPT ![k] = "gone"]
  BY DEF Leave
<1> USE <1>1 DEF accepting, parsing, data, log, history
<1>2. Types'
  BY DEF Types
<1>3. SessionTypes(k)' /\ SocketInv(k)' /\ ContextInv(k)'
  BY DEF SessionInv, SessionTypes, SocketInv, ContextInv, Types
<1>4. StatementInv(k)' /\ TxnInv(k)' /\ WriteInv(k)'
  BY DEF SessionInv, StatementInv, TxnInv, WriteInv, Id
<1>5. FreshInv(k)' /\ ToldInv(k)' /\ RefusedInv(k)'
  BY DEF SessionInv, FreshInv, ToldInv, RefusedInv, NoEffect
<1>6. InStep(k)'
  BY DEF InStep, Types
<1>7. \A c \in Client \ {k} : Frame(c)
  BY DEF Frame, Types
<1> QED BY <1>2, <1>3, <1>4, <1>5, <1>6, <1>7 DEF SessionInv

LEMMA AcceptStep ==
  ASSUME Types, NEW k \in Client, \A c \in Client : SessionInv(c), Accept(k)
  PROVE  Types' /\ SessionInv(k)' /\ \A c \in Client \ {k} : Frame(c)
<1>1. /\ UNCHANGED <<server, parsing, data, net, history>>
      /\ ~sockfd_mutex /\ k \in backlog /\ sockfd_mutex' /\ sockfd' = k /\ backlog' = backlog \ {k}
      /\ sockfd_mutex' \in BOOLEAN
  BY DEF Accept
<1>2. /\ SessionInv(k) /\ thread[k].at = "none" /\ conn[k] # "none"
      /\ \A c \in Client : thread[c].at # "spawned"
  BY <1>1 DEF SessionInv, SocketInv
<1>3. /\ DOMAIN thread' = Client /\ DOMAIN thread'[k] = ThreadFields
      /\ \A c \in Client \ {k} : thread'[c] = thread[c]
      /\ thread'[k].at = "spawned"
      /\ \A f \in ThreadFields \ {"at"} : thread'[k][f] = thread[k][f]
  BY <1>2 DEF Accept, Types, SessionInv, SessionTypes, ThreadFields
<1> USE <1>1 DEF parsing, data, log, net, history
<1>4. Types'
  BY <1>3 DEF Types
<1>5. SessionTypes(k)'
  BY <1>2, <1>3 DEF SessionInv, SessionTypes, Steps, ThreadFields
<1>6. SocketInv(k)' /\ ContextInv(k)'
  BY <1>2, <1>3 DEF SessionInv, SocketInv, ContextInv, ThreadFields, Running, Commits
<1>7. StatementInv(k)' /\ TxnInv(k)' /\ WriteInv(k)'
  BY <1>2, <1>3 DEF SessionInv, StatementInv, TxnInv, WriteInv, Id, Busy, ThreadFields
<1>8. FreshInv(k)' /\ ToldInv(k)' /\ RefusedInv(k)'
  BY <1>2, <1>3 DEF SessionInv, FreshInv, ToldInv, RefusedInv, NoEffect, Running, ThreadFields
<1>9. InStep(k)'
  <2>1. Done(k) /\ Done(k)'
    BY <1>2, <1>3 DEF Done
  <2> QED BY <1>2, <1>3, <2>1, DoneStep DEF ThreadFields, NoEffect
<1>10. \A c \in Client \ {k} : Frame(c)
  BY <1>2, <1>3 DEF Frame, Types
<1> QED BY <1>4, <1>5, <1>6, <1>7, <1>8, <1>9, <1>10 DEF SessionInv

LEMMA RestartStep ==
  ASSUME Types, \A c \in Client : SessionInv(c), Restart
  PROVE  Types' /\ \A c \in Client : SessionInv(c)'
<1>1. /\ server = "down" /\ server' = "up" /\ sockfd' = None /\ sockfd_mutex' = FALSE /\ backlog' = {}
      /\ buffer_mutex' = None /\ parse_tree' = None /\ thread' = [c \in Client |-> NoThread]
      /\ txn_map' = {} /\ lock' = None /\ applied' = logged /\ logged' = logged /\ buffered' = {}
      /\ conn' = [c \in Client |-> IF conn[c] = "none" THEN "none" ELSE "gone"]
      /\ request' = [c \in Client |-> None]
      /\ UNCHANGED <<client, replies, history>>
  BY DEF Restart, Alive, Types
<1>2. Types'
  BY <1>1 DEF Types, history
<1> SUFFICES ASSUME NEW c \in Client PROVE SessionInv(c)'
  BY <1>2
<1>3. SessionInv(c) /\ thread'[c] = NoThread /\ request'[c] = None
  BY <1>1
<1> USE <1>1, <1>3 DEF history, NoThread
<1>4. SessionTypes(c)'
  BY DEF SessionInv, SessionTypes, ThreadFields, Steps, Text
<1>5. SocketInv(c)' /\ ContextInv(c)'
  BY DEF SessionInv, SocketInv, ContextInv, Running, Commits
<1>6. StatementInv(c)' /\ WriteInv(c)'
  BY DEF SessionInv, StatementInv, WriteInv, SessionTypes, Busy
<1>7. TxnInv(c)'
  BY ServerConstants DEF TxnInv, Id, Of
<1>8. FreshInv(c)' /\ ToldInv(c)' /\ RefusedInv(c)'
  BY DEF SessionInv, FreshInv, ToldInv, RefusedInv, NoEffect, WriteInv, Running
<1>9. InStep(c)'
  BY DEF InStep
<1> QED BY <1>4, <1>5, <1>6, <1>7, <1>8, <1>9 DEF SessionInv

LEMMA SendStep ==
  ASSUME Types, NEW k \in Client, SessionInv(k), NEW kind \in Kinds[k], Send(k, kind)
  PROVE  Types' /\ SessionInv(k)' /\ \A c \in Client \ {k} : Frame(c)
<1>1. /\ UNCHANGED <<server, accepting, parsing, thread, data, conn, replies, history>>
      /\ conn[k] = "open" /\ ~client[k].waits /\ client[k].n < MaxStmts[k]
      /\ kind \in Kind /\ client[k].n \in Nat
  BY ServerConstants DEF Send, SessionInv, SessionTypes
<1>2. /\ DOMAIN client' = Client /\ DOMAIN client'[k] = ClientFields
      /\ \A c \in Client \ {k} : client'[c] = client[c]
      /\ client'[k].n = client[k].n + 1 /\ client'[k].kind = kind /\ client'[k].waits
      /\ client'[k].waits \in BOOLEAN
      /\ \A f \in {"open", "seen"} : client'[k][f] = client[k][f]
  BY DEF Send, Types, SessionInv, SessionTypes, ClientFields
<1>3. /\ request' = [request EXCEPT ![k] = [kind |-> kind, from |-> k, n |-> client[k].n + 1]]
      /\ request'[k] = [kind |-> kind, from |-> k, n |-> client[k].n + 1]
      /\ request'[k] \in Statement /\ request'[k] # None
  BY <1>1, ServerConstants DEF Send, Types, Statement
<1> USE <1>1 DEF accepting, parsing, data, log, history
<1>4. Types'
  BY <1>2, <1>3 DEF Types
<1>5. SessionTypes(k)' /\ SocketInv(k)' /\ ContextInv(k)'
  BY <1>2, <1>3 DEF SessionInv, SessionTypes, SocketInv, ContextInv
<1>6. StatementInv(k)'
  <2>1. StatementInv(k) /\ thread[k].begun \in Nat /\ MaxStmts[k] \in Nat
    BY ServerConstants DEF SessionInv, SessionTypes
  <2>2. client'[k].n <= MaxStmts[k] /\ client'[k].n > 0
    BY <1>2, <2>1
  <2>3. request'[k].from = k /\ request'[k].n = client'[k].n
    BY <1>2, <1>3
  <2>4. thread[k].at \in Busy => /\ thread[k].stmt \in Statement /\ thread[k].stmt.from = k
                                 /\ thread[k].stmt.n \in 1..client[k].n
    BY <2>1 DEF StatementInv
  <2>5. thread[k].at \in Busy => thread[k].stmt.n \in 1..client'[k].n /\ thread[k].stmt.n < client'[k].n
    BY <1>2, <2>4
  <2>6. thread[k].begun + 1 <= client'[k].n
    BY <1>2, <2>1 DEF StatementInv
  <2>7. \A u \in client'[k].seen : u[2] <= client'[k].n
    <3> SUFFICES ASSUME NEW u \in client[k].seen PROVE u[2] <= client[k].n + 1
      BY <1>2
    <3>1. u[2] \in Nat /\ u[2] <= client[k].n
      BY <2>1 DEF StatementInv, SessionInv, SessionTypes, Of
    <3> QED BY <3>1
  <2> QED BY <1>3, <2>1, <2>2, <2>3, <2>4, <2>5, <2>6, <2>7 DEF StatementInv
<1>7. TxnInv(k)' /\ WriteInv(k)' /\ ToldInv(k)' /\ RefusedInv(k)'
  BY DEF SessionInv, TxnInv, WriteInv, Id, ToldInv, RefusedInv, NoEffect
<1>8. FreshInv(k)'
  BY <1>2, <1>3, ServerConstants DEF SessionInv, FreshInv, Of
<1>9. InStep(k)'
  BY <1>2, <1>3 DEF SessionInv, InStep, PhaseInv, DataInv, AnswerInv, Agree, Wish, Done, Asked
<1>10. \A c \in Client \ {k} : Frame(c)
  BY <1>2, <1>3 DEF Frame, Types
<1> QED BY <1>4, <1>5, <1>6, <1>7, <1>8, <1>9, <1>10 DEF SessionInv

LEMMA TakeSocketStep ==
  ASSUME Types, NEW k \in Client, \A c \in Client : SessionInv(c), TakeSocket(k)
  PROVE  Types' /\ SessionInv(k)' /\ \A c \in Client \ {k} : Frame(c)
<1>1. /\ UNCHANGED <<server, sockfd, backlog, parsing, data, net, history>>
      /\ thread[k].at = "spawned" /\ sockfd_mutex' = FALSE
  BY DEF TakeSocket
<1>2. /\ SessionInv(k) /\ sockfd = k /\ conn[k] # "none" /\ k \notin backlog
      /\ \A c \in Client \ {k} : thread[c].at # "spawned"
  BY <1>1 DEF SessionInv, SocketInv
<1>3. /\ DOMAIN thread' = Client /\ DOMAIN thread'[k] = ThreadFields
      /\ \A c \in Client \ {k} : thread'[c] = thread[c]
      /\ thread'[k].at = "read" /\ thread'[k].fd = k
      /\ \A f \in ThreadFields \ {"at", "fd"} : thread'[k][f] = thread[k][f]
  BY <1>2 DEF TakeSocket, Types, SessionInv, SessionTypes, ThreadFields
<1> USE <1>1 DEF parsing, data, log, net, history
<1>4. Types'
  BY <1>3 DEF Types
<1>5. SessionTypes(k)'
  BY <1>2, <1>3 DEF SessionInv, SessionTypes, Steps, ThreadFields
<1>6. SocketInv(k)' /\ ContextInv(k)'
  BY <1>2, <1>3 DEF SessionInv, SocketInv, ContextInv, ThreadFields, Running, Commits
<1>7. StatementInv(k)' /\ TxnInv(k)' /\ WriteInv(k)'
  BY <1>2, <1>3 DEF SessionInv, StatementInv, TxnInv, WriteInv, Id, Busy, ThreadFields
<1>8. FreshInv(k)' /\ ToldInv(k)' /\ RefusedInv(k)'
  BY <1>2, <1>3 DEF SessionInv, FreshInv, ToldInv, RefusedInv, NoEffect, Running, ThreadFields
<1>9. InStep(k)'
  <2>1. Done(k) /\ Done(k)'
    BY <1>2, <1>3 DEF Done
  <2> QED BY <1>2, <1>3, <2>1, DoneStep DEF ThreadFields, NoEffect
<1>10. \A c \in Client \ {k} : Frame(c)
  BY <1>2, <1>3 DEF Frame, Types
<1> QED BY <1>4, <1>5, <1>6, <1>7, <1>8, <1>9, <1>10 DEF SessionInv

LEMMA ReadNothingStep ==
  ASSUME Types, NEW k \in Client, SessionInv(k), ReadNothing(k)
  PROVE  Types' /\ SessionInv(k)' /\ \A c \in Client \ {k} : Frame(c)
<1>1. /\ UNCHANGED <<server, accepting, parsing, data, net, history>>
      /\ thread[k].at = "read" /\ thread[k].fd = k /\ conn[k] = "gone"
  BY DEF ReadNothing, At, SessionInv, SocketInv
<1>2. /\ DOMAIN thread' = Client /\ DOMAIN thread'[k] = ThreadFields
      /\ \A c \in Client \ {k} : thread'[c] = thread[c]
      /\ thread'[k].at = "ended"
      /\ \A f \in ThreadFields \ {"at"} : thread'[k][f] = thread[k][f]
  BY DEF ReadNothing, Goto, Types, SessionInv, SessionTypes, ThreadFields
<1> USE <1>1 DEF accepting, parsing, data, log, net, history
<1>3. Types'
  BY <1>2 DEF Types
<1>4. SessionTypes(k)'
  BY <1>2 DEF SessionInv, SessionTypes, Steps, ThreadFields
<1>5. SocketInv(k)' /\ ContextInv(k)'
  BY <1>2 DEF SessionInv, SocketInv, ContextInv, ThreadFields, Running, Commits
<1>6. StatementInv(k)' /\ TxnInv(k)' /\ WriteInv(k)'
  BY <1>2 DEF SessionInv, StatementInv, TxnInv, WriteInv, Id, Busy, ThreadFields
<1>7. FreshInv(k)' /\ ToldInv(k)' /\ RefusedInv(k)'
  BY <1>2 DEF SessionInv, FreshInv, ToldInv, RefusedInv, NoEffect, Running, ThreadFields
<1>8. InStep(k)'
  BY DEF InStep
<1>9. \A c \in Client \ {k} : Frame(c)
  BY <1>2 DEF Frame, Types
<1> QED BY <1>3, <1>4, <1>5, <1>6, <1>7, <1>8, <1>9 DEF SessionInv

(* A step of a thread that the client waits for and that has not answered  *)
(* yet: they stay in step.                                                 *)
LEMMA BusyStep ==
  ASSUME NEW k \in Client, SessionInv(k), k \notin twice, conn[k] = "open",
         thread[k].at \in Busy \ {"failure"}, ~thread[k].auto,
         thread'[k].at \in Busy \ {"failure"}, ~thread'[k].auto, thread'[k].stmt = thread[k].stmt,
         client'[k] = client[k], request'[k] = request[k], replies'[k] = replies[k]
  PROVE  /\ PhaseInv(k) /\ DataInv(k) /\ ~Done(k) /\ thread[k].stmt = Asked(k)
         /\ PhaseInv(k)' /\ ~Done(k)' /\ replies'[k] = <<>>
<1>1. PhaseInv(k) /\ DataInv(k)
  BY DEF SessionInv, InStep
<1>2. ~Done(k) /\ ~Done(k)'
  BY DEF Done, Busy
<1> QED BY <1>1, <1>2 DEF PhaseInv, Asked

LEMMA ParseStep ==
  ASSUME Types, NEW k \in Client, \A c \in Client : SessionInv(c), Parse(k)
  PROVE  Types' /\ SessionInv(k)' /\ \A c \in Client \ {k} : Frame(c)
<1>1. /\ UNCHANGED <<server, accepting, data, net, history>>
      /\ thread[k].at = "parse" /\ buffer_mutex = None
  BY DEF Parse, At
<1>2. /\ SessionInv(k) /\ thread[k].stmt \in Statement /\ ~thread[k].auto /\ thread[k].ctx
      /\ \A c \in Client : thread[c].at # "analyze"
  BY <1>1, ServerConstants DEF SessionInv, StatementInv, ContextInv, Busy, Commits, Running
<1>3. /\ DOMAIN thread' = Client /\ DOMAIN thread'[k] = ThreadFields
      /\ \A c \in Client \ {k} : thread'[c] = thread[c]
      /\ \A f \in ThreadFields \ {"at", "answer"} : thread'[k][f] = thread[k][f]
      /\ \/ /\ thread[k].stmt.kind = "bad" /\ thread'[k].at = "reply" /\ thread'[k].answer = "empty"
            /\ UNCHANGED <<buffer_mutex, parse_tree>>
         \/ /\ thread'[k].at = "analyze" /\ thread'[k].answer = thread[k].answer
            /\ buffer_mutex' = k /\ parse_tree' = thread[k].stmt
  BY <1>2 DEF Parse, Goto, Types, SessionInv, SessionTypes, ThreadFields
<1> USE <1>1 DEF accepting, data, log, net, history
<1>4. Types'
  BY <1>2, <1>3 DEF Types
<1>5. SessionTypes(k)'
  <2>1. thread'[k].at \in Steps /\ thread'[k].answer \in Text
    BY <1>2, <1>3 DEF SessionInv, SessionTypes, Steps, Busy, Text
  <2> QED BY <1>2, <1>3, <2>1 DEF SessionInv, SessionTypes, ThreadFields
<1>6. SocketInv(k)' /\ ContextInv(k)'
  BY <1>2, <1>3 DEF SessionInv, SocketInv, ContextInv, ThreadFields, Running, Commits
<1>7. StatementInv(k)'
  BY <1>2, <1>3 DEF SessionInv, StatementInv, Busy, ThreadFields
<1>8. TxnInv(k)' /\ WriteInv(k)'
  BY <1>2, <1>3 DEF SessionInv, TxnInv, WriteInv, Id, ThreadFields
<1>9. FreshInv(k)' /\ ToldInv(k)' /\ RefusedInv(k)'
  BY <1>2, <1>3 DEF SessionInv, FreshInv, ToldInv, RefusedInv, NoEffect, Running, ThreadFields
<1>10. InStep(k)'
  <2> SUFFICES ASSUME k \notin twice, conn[k] = "open" PROVE PhaseInv(k)' /\ DataInv(k)'
    BY DEF InStep
  <2>1. /\ PhaseInv(k) /\ DataInv(k) /\ ~Done(k) /\ thread[k].stmt = Asked(k)
        /\ PhaseInv(k)' /\ ~Done(k)' /\ replies'[k] = <<>>
    BY <1>2, <1>3, BusyStep DEF Busy, ThreadFields
  <2>2. Agree(k) /\ Agree(k)' /\ thread[k].answer = "ok"
    BY <1>3, <2>1 DEF DataInv, Agree, Running, ThreadFields
  <2>3. thread'[k].at = "reply" => AnswerInv(k, "empty")'
    BY <1>3, <2>1, <2>2 DEF AnswerInv, Asked
  <2>4. CASE thread'[k].at = "reply"
    <3>1. thread'[k].answer = "empty" /\ AnswerInv(k, "empty")'
      BY <1>3, <2>3, <2>4
    <3> QED BY <2>1, <2>4, <3>1 DEF DataInv, Running, Commits
  <2>5. CASE thread'[k].at = "analyze"
    <3>1. thread'[k].answer = "ok"
      BY <1>3, <2>2, <2>5
    <3> QED BY <2>1, <2>2, <2>5, <3>1 DEF DataInv, Running, Commits
  <2> QED BY <1>3, <2>4, <2>5
<1>11. \A c \in Client \ {k} : Frame(c)
  BY <1>2, <1>3 DEF Frame, Types
<1> QED BY <1>4, <1>5, <1>6, <1>7, <1>8, <1>9, <1>10, <1>11 DEF SessionInv

LEMMA AnalyzeStep ==
  ASSUME Types, NEW k \in Client, \A c \in Client : SessionInv(c), Analyze(k)
  PROVE  Types' /\ SessionInv(k)' /\ \A c \in Client \ {k} : Frame(c)
<1>1. /\ UNCHANGED <<server, accepting, data, net, history>>
      /\ thread[k].at = "analyze" /\ parse_tree' = None
  BY DEF Analyze, At
<1>2. /\ SessionInv(k) /\ ~thread[k].auto /\ thread[k].ctx
      /\ buffer_mutex = k /\ parse_tree = thread[k].stmt
      /\ \A c \in Client \ {k} : thread[c].at # "analyze"
  BY <1>1 DEF SessionInv, StatementInv, ContextInv, Commits, Running
<1>3. /\ DOMAIN thread' = Client /\ DOMAIN thread'[k] = ThreadFields
      /\ \A c \in Client \ {k} : thread'[c] = thread[c]
      /\ \A f \in ThreadFields \ {"at", "query", "answer"} : thread'[k][f] = thread[k][f]
      /\ thread'[k].query = thread[k].stmt /\ buffer_mutex' \in {None, buffer_mutex}
      /\ \/ thread'[k].at = "execute" /\ thread'[k].answer = thread[k].answer
         \/ thread[k].stmt.kind = "wrong" /\ thread'[k].at = "undo" /\ thread'[k].answer = "error"
  BY <1>2 DEF Analyze, Types, SessionInv, SessionTypes, ThreadFields
<1> USE <1>1 DEF accepting, data, log, net, history
<1>4. Types'
  BY <1>2, <1>3 DEF Types
<1>5. SessionTypes(k)'
  BY <1>2, <1>3 DEF SessionInv, SessionTypes, Steps, Busy, Text, ThreadFields
<1>6. SocketInv(k)' /\ ContextInv(k)'
  BY <1>2, <1>3 DEF SessionInv, SocketInv, ContextInv, ThreadFields, Running, Commits
<1>7. StatementInv(k)'
  BY <1>2, <1>3 DEF SessionInv, StatementInv, Busy, ThreadFields
<1>8. TxnInv(k)' /\ WriteInv(k)'
  BY <1>2, <1>3 DEF SessionInv, TxnInv, WriteInv, Id, ThreadFields
<1>9. FreshInv(k)' /\ ToldInv(k)' /\ RefusedInv(k)'
  BY <1>2, <1>3 DEF SessionInv, FreshInv, ToldInv, RefusedInv, NoEffect, Running, ThreadFields
<1>10. InStep(k)'
  <2> SUFFICES ASSUME k \notin twice, conn[k] = "open" PROVE PhaseInv(k)' /\ DataInv(k)'
    BY DEF InStep
  <2>1. /\ PhaseInv(k) /\ DataInv(k) /\ ~Done(k) /\ thread[k].stmt = Asked(k)
        /\ PhaseInv(k)' /\ ~Done(k)' /\ replies'[k] = <<>>
    BY <1>2, <1>3, BusyStep DEF Busy, ThreadFields
  <2>2. Agree(k) /\ Agree(k)' /\ thread[k].answer = "ok"
    BY <1>3, <2>1 DEF DataInv, Agree, Running, ThreadFields
  <2>3. thread'[k].at = "undo" => Wish(k)' = {}
    BY <1>3, <2>1 DEF Asked, Wish
  <2>4. thread'[k].wrote \cap Recorded = {} /\ client'[k].seen \subseteq thread'[k].wrote
    BY <1>2, <1>3, <2>2 DEF SessionInv, WriteInv, Agree, ThreadFields
  <2>5. CASE thread'[k].at = "execute"
    BY <1>3, <2>1, <2>2, <2>5 DEF DataInv, Commits, Running
  <2>6. CASE thread'[k].at = "undo"
    BY <1>3, <2>1, <2>3, <2>4, <2>6 DEF DataInv, Commits, Running
  <2> QED BY <1>3, <2>5, <2>6
<1>11. \A c \in Client \ {k} : Frame(c)
  BY <1>2, <1>3 DEF Frame, Types
<1> QED BY <1>4, <1>5, <1>6, <1>7, <1>8, <1>9, <1>10, <1>11 DEF SessionInv

LEMMA ExecuteStep ==
  ASSUME Types, NEW k \in Client, SessionInv(k), Execute(k)
  PROVE  Types' /\ SessionInv(k)' /\ \A c \in Client \ {k} : Frame(c)
<1> DEFINE q == thread[k].stmt
           new == <<k, q.n>>
<1>1. /\ UNCHANGED <<server, accepting, parsing, txn_map, log, net, history>>
      /\ thread[k].at = "execute"
  BY DEF Execute, At
<1>2. /\ ~thread[k].auto /\ thread[k].ctx /\ q \in Statement /\ q.from = k
      /\ thread[k].query = q /\ q.n \in 1..client[k].n /\ client[k].n <= MaxStmts[k]
      /\ client[k].n \in Nat /\ thread[k].txn_id \in Nat /\ q.n \in Nat
      /\ (request[k] # None => q.n < client[k].n)
  BY <1>1 DEF SessionInv, SessionTypes, StatementInv, ContextInv, Commits, Running, Busy
<1>3. /\ DOMAIN thread' = Client /\ DOMAIN thread'[k] = ThreadFields
      /\ \A c \in Client \ {k} : thread'[c] = thread[c]
      /\ \A f \in ThreadFields \ {"at", "answer", "mode", "wrote"} : thread'[k][f] = thread[k][f]
  BY <1>2 DEF Execute, Goto, Types, SessionInv, SessionTypes, ThreadFields
<1>4. \/ /\ q.kind = "begin" /\ thread'[k].at = "reply" /\ thread'[k].mode /\ thread'[k].mode \in BOOLEAN
         /\ thread'[k].answer = thread[k].answer /\ thread'[k].wrote = thread[k].wrote
         /\ UNCHANGED <<lock, applied>>
      \/ /\ \/ q.kind = "commit" /\ thread'[k].at = "unlock" /\ thread'[k].answer = thread[k].answer
            \/ q.kind = "rollback" /\ thread'[k].at = "undo" /\ thread'[k].answer = thread[k].answer
            \/ q.kind = "wrong" /\ thread'[k].at = "undo" /\ thread'[k].answer = "error"
            \/ q.kind = "write" /\ thread'[k].at = "undo" /\ thread'[k].answer = "abort"
         /\ thread'[k].mode = thread[k].mode /\ thread'[k].wrote = thread[k].wrote
         /\ UNCHANGED <<lock, applied>>
      \/ /\ q.kind = "write" /\ thread'[k].at = "reply" /\ thread'[k].wrote = thread[k].wrote \cup {new}
         /\ thread'[k].mode = thread[k].mode /\ thread'[k].answer = thread[k].answer
         /\ lock \in {None, Id(k)} /\ lock' = Id(k) /\ applied' = applied \cup {new}
  BY <1>2 DEF Execute, Free, Goto, Types, SessionInv, SessionTypes, ThreadFields
<1>5. new \in Of(k) /\ Of(k) \subseteq Change /\ Of(k) \subseteq {k} \X Nat
  BY <1>2, ServerConstants DEF Of, Change
<1>6. Id(k) \in Of(k)
  <2>1. thread[k].txn_id # 0 /\ Id(k) \in Change
    BY <1>2 DEF SessionInv, TxnInv, ContextInv, Types
  <2> QED BY <2>1, ServerConstants DEF Change, Of, Id
<1> USE <1>1 DEF accepting, parsing, log, net, history
<1>7. Types'
  <2>1. lock' \in {None} \cup Change /\ applied' \subseteq Change
    BY <1>4, <1>5, <1>6 DEF Types
  <2> QED BY <1>3, <2>1 DEF Types
<1>8. SessionTypes(k)'
  <2>1. thread'[k].wrote \subseteq Of(k) /\ thread'[k].mode \in BOOLEAN
    BY <1>4, <1>5 DEF SessionInv, SessionTypes
  <2>2. thread'[k].at \in Steps /\ thread'[k].answer \in Text
    BY <1>4 DEF SessionInv, SessionTypes, Steps, Busy, Text
  <2> QED BY <1>3, <2>1, <2>2 DEF SessionInv, SessionTypes, ThreadFields
<1>9. SocketInv(k)' /\ ContextInv(k)'
  BY <1>2, <1>3, <1>4 DEF SessionInv, SocketInv, ContextInv, ThreadFields, Running, Commits
<1>10. StatementInv(k)'
  BY <1>2, <1>3, <1>4 DEF SessionInv, StatementInv, Busy, ThreadFields
<1>11. TxnInv(k)'
  BY <1>2, <1>3, <1>4 DEF SessionInv, TxnInv, Id, ThreadFields
<1>12. new \notin applied \cup Recorded \cup thread[k].wrote /\ (k \notin twice => new \notin refused)
  BY <1>1, <1>2, <1>5 DEF SessionInv, FreshInv, Running
<1>13. WriteInv(k)'
  BY <1>2, <1>3, <1>4, <1>12 DEF SessionInv, WriteInv, ThreadFields
<1>14. FreshInv(k)'
  BY <1>2, <1>3, <1>4 DEF SessionInv, FreshInv, Running, ThreadFields
<1>15. ToldInv(k)' /\ RefusedInv(k)'
  BY <1>2, <1>3, <1>4, <1>12 DEF SessionInv, ToldInv, RefusedInv, NoEffect, ThreadFields
<1>16. InStep(k)'
  <2> SUFFICES ASSUME k \notin twice, conn[k] = "open" PROVE PhaseInv(k)' /\ DataInv(k)'
    BY DEF InStep
  <2>1. /\ PhaseInv(k) /\ DataInv(k) /\ ~Done(k) /\ q = Asked(k)
        /\ PhaseInv(k)' /\ ~Done(k)' /\ replies'[k] = <<>>
    BY <1>2, <1>3, <1>4, BusyStep DEF Busy, ThreadFields
  <2>2. Agree(k) /\ thread[k].answer = "ok" /\ thread[k].wrote \cap Recorded = {}
    BY <2>1 DEF DataInv, Running, SessionInv, WriteInv
  <2>3. q.kind = client[k].kind /\ Wish(k)' = IF q.kind = "write" THEN {new} ELSE {}
    BY <2>1 DEF Asked, Wish
  <2>4. CASE q.kind = "begin"
    <3>1. AnswerInv(k, "ok")' /\ thread'[k].at = "reply" /\ thread'[k].answer = "ok"
      BY <1>4, <2>2, <2>3, <2>4 DEF AnswerInv, Agree
    <3> QED BY <2>1, <2>3, <2>4, <3>1 DEF DataInv, Running, Commits
  <2>5. CASE thread'[k].at = "unlock"
    BY <1>4, <2>1, <2>2, <2>3, <2>5 DEF DataInv, Running, Commits, Agree
  <2>6. CASE thread'[k].at = "undo"
    <3>1. client[k].seen \subseteq thread'[k].wrote /\ applied' = applied
      BY <1>4, <2>2, <2>6 DEF Agree
    <3>2. \A u \in client[k].seen \cup Wish(k)' : u \notin Recorded /\ (u \in applied => u \in thread'[k].wrote)
      BY <1>4, <1>12, <2>2, <2>3, <2>6, <3>1
    <3> QED BY <1>4, <2>1, <2>2, <2>3, <2>6, <3>1, <3>2 DEF DataInv, Running, Commits
  <2>7. CASE q.kind = "write" /\ thread'[k].at = "reply"
    <3>1. Agree(k)' /\ Wish(k)' \subseteq thread'[k].wrote /\ thread'[k].answer = "ok" /\ thread'[k].ctx
      BY <1>2, <1>3, <1>4, <2>2, <2>3, <2>7 DEF Agree, ThreadFields
    <3>2. AnswerInv(k, "ok")'
      BY <2>3, <2>7, <3>1 DEF AnswerInv
    <3> QED BY <2>1, <2>7, <3>1, <3>2 DEF DataInv, Running, Commits
  <2> QED BY <1>4, <2>1, <2>4, <2>5, <2>6, <2>7
<1>17. \A c \in Client \ {k} : Frame(c)
  <2>1. \A c \in Client \ {k} : Of(k) \cap ({c} \X Nat) = {}
    BY ServerConstants DEF Of
  <2>2. \A c \in Client : None \notin {c} \X Nat
    BY ServerConstants
  <2>3. \A c \in Client \ {k} : \A u \in {c} \X Nat : (u \in applied' <=> u \in applied) /\ (lock' = u <=> lock = u)
    BY <1>4, <1>5, <1>6, <2>1, <2>2
  <2> QED BY <1>3, <2>3 DEF Frame, Types
<1> QED BY <1>7, <1>8, <1>9, <1>10, <1>11, <1>13, <1>14, <1>15, <1>16, <1>17 DEF SessionInv

(* The commit: the locks.                                                  *)
LEMMA CommitUnlockStep ==
  ASSUME Types, NEW k \in Client, SessionInv(k), CommitUnlock(k)
  PROVE  Types' /\ SessionInv(k)' /\ \A c \in Client \ {k} : Frame(c)
<1>1. /\ UNCHANGED <<server, accepting, parsing, txn_map, applied, log, net, history>>
      /\ thread[k].at = "unlock" /\ lock' = IF lock = Id(k) THEN None ELSE lock
  BY DEF CommitUnlock, At
<1>2. /\ DOMAIN thread' = Client /\ DOMAIN thread'[k] = ThreadFields
      /\ \A c \in Client \ {k} : thread'[c] = thread[c]
      /\ thread'[k].at = "log"
      /\ \A f \in ThreadFields \ {"at"} : thread'[k][f] = thread[k][f]
  BY DEF CommitUnlock, Goto, Types, SessionInv, SessionTypes, ThreadFields
<1>3. Id(k) \in {k} \X Nat /\ \A c \in Client : None \notin {c} \X Nat
  BY ServerConstants DEF Id, SessionInv, SessionTypes
<1> USE <1>1 DEF accepting, parsing, log, net, history
<1>4. Types'
  BY <1>2 DEF Types
<1>5. SessionTypes(k)'
  BY <1>2 DEF SessionInv, SessionTypes, Steps, Busy, ThreadFields
<1>6. SocketInv(k)' /\ ContextInv(k)'
  BY <1>2 DEF SessionInv, SocketInv, ContextInv, ThreadFields, Running, Commits
<1>7. StatementInv(k)' /\ WriteInv(k)'
  BY <1>2 DEF SessionInv, StatementInv, WriteInv, Busy, ThreadFields
<1>8. TxnInv(k)'
  <2>1. lock' # Id(k) /\ Id(k)' = Id(k) /\ \A id \in Of(k) : lock' = id => lock = id
    BY <1>2, <1>3, ServerConstants DEF Id, Of, ThreadFields
  <2> QED BY <1>2, <2>1 DEF SessionInv, TxnInv, ThreadFields
<1>9. FreshInv(k)' /\ ToldInv(k)' /\ RefusedInv(k)'
  BY <1>2 DEF SessionInv, FreshInv, ToldInv, RefusedInv, NoEffect, Running, ThreadFields
<1>10. InStep(k)'
  <2>1. CASE thread[k].auto
    <3>1. Done(k) /\ Done(k)'
      BY <1>2, <2>1 DEF Done, ThreadFields
    <3> QED BY <1>2, <3>1, DoneStep DEF ThreadFields, NoEffect
  <2>2. CASE ~thread[k].auto
    <3> SUFFICES ASSUME k \notin twice, conn[k] = "open" PROVE PhaseInv(k)' /\ DataInv(k)'
      BY DEF InStep
    <3>1. /\ PhaseInv(k) /\ DataInv(k) /\ ~Done(k) /\ thread[k].stmt = Asked(k)
          /\ PhaseInv(k)' /\ ~Done(k)' /\ replies'[k] = <<>>
      BY <1>2, <2>2, BusyStep DEF Busy, ThreadFields
    <3> QED BY <1>2, <3>1 DEF DataInv, Commits, Running, ThreadFields
  <2> QED BY <2>1, <2>2
<1>11. \A c \in Client \ {k} : Frame(c)
  <2>1. \A c \in Client \ {k} : \A u \in {c} \X Nat : lock' = u <=> lock = u
    BY <1>3
  <2> QED BY <1>2, <2>1 DEF Frame, Types
<1> QED BY <1>4, <1>5, <1>6, <1>7, <1>8, <1>9, <1>10, <1>11 DEF SessionInv

(* The commit: the record in the log buffer.                               *)
LEMMA CommitLogStep ==
  ASSUME Types, NEW k \in Client, SessionInv(k), CommitLog(k)
  PROVE  Types' /\ SessionInv(k)' /\ \A c \in Client \ {k} : Frame(c)
<1>1. /\ UNCHANGED <<server, accepting, parsing, txn_map, lock, applied, net, history>>
      /\ thread[k].at = "log" /\ logged' = logged /\ buffered' = buffered \cup thread[k].wrote
  BY DEF CommitLog, At
<1>2. /\ DOMAIN thread' = Client /\ DOMAIN thread'[k] = ThreadFields
      /\ \A c \in Client \ {k} : thread'[c] = thread[c]
      /\ thread'[k].at = "flush"
      /\ \A f \in ThreadFields \ {"at"} : thread'[k][f] = thread[k][f]
  BY DEF CommitLog, Goto, Types, SessionInv, SessionTypes, ThreadFields
<1>3. thread[k].ctx /\ thread[k].wrote \subseteq Of(k) /\ Of(k) \subseteq Change /\ Of(k) \subseteq {k} \X Nat
  BY <1>1, ServerConstants DEF SessionInv, SessionTypes, ContextInv, Of, Change, Commits
<1> USE <1>1 DEF accepting, parsing, net, history
<1>4. Types'
  BY <1>2, <1>3 DEF Types
<1>5. SessionTypes(k)'
  BY <1>2 DEF SessionInv, SessionTypes, Steps, Busy, ThreadFields
<1>6. SocketInv(k)' /\ ContextInv(k)'
  BY <1>2 DEF SessionInv, SocketInv, ContextInv, ThreadFields, Running, Commits
<1>7. StatementInv(k)' /\ WriteInv(k)'
  BY <1>2 DEF SessionInv, StatementInv, WriteInv, Busy, ThreadFields
<1>8. TxnInv(k)'
  BY <1>2 DEF SessionInv, TxnInv, ThreadFields, Id
<1>9. FreshInv(k)'
  BY <1>2 DEF SessionInv, FreshInv, Running, ThreadFields
<1>10. ToldInv(k)' /\ RefusedInv(k)'
  BY <1>2 DEF SessionInv, ToldInv, RefusedInv, NoEffect, ThreadFields
<1>11. InStep(k)'
  <2>1. CASE thread[k].auto
    <3>1. Done(k) /\ Done(k)'
      BY <1>2, <2>1 DEF Done, ThreadFields
    <3> QED BY <1>2, <1>3, <3>1, DoneStep DEF ThreadFields
  <2>2. CASE ~thread[k].auto
    <3> SUFFICES ASSUME k \notin twice, conn[k] = "open" PROVE PhaseInv(k)' /\ DataInv(k)'
      BY DEF InStep
    <3>1. /\ PhaseInv(k) /\ DataInv(k) /\ ~Done(k) /\ thread[k].stmt = Asked(k)
          /\ PhaseInv(k)' /\ ~Done(k)' /\ replies'[k] = <<>>
      BY <1>2, <2>2, BusyStep DEF Busy, ThreadFields
    <3> QED BY <1>2, <3>1 DEF DataInv, Commits, Running, ThreadFields
  <2> QED BY <2>1, <2>2
<1>12. \A c \in Client \ {k} : Frame(c)
  <2>1. \A c \in Client \ {k} : \A u \in {c} \X Nat : u \in Recorded' <=> u \in Recorded
    BY <1>3
  <2> QED BY <1>2, <2>1 DEF Frame, Types
<1> QED BY <1>4, <1>5, <1>6, <1>7, <1>8, <1>9, <1>10, <1>11, <1>12 DEF SessionInv

(* The commit: the log buffer is written.                                  *)
LEMMA CommitFlushStep ==
  ASSUME Types, NEW k \in Client, SessionInv(k), CommitFlush(k)
  PROVE  Types' /\ SessionInv(k)' /\ \A c \in Client \ {k} : Frame(c)
<1>1. /\ UNCHANGED <<server, accepting, parsing, txn_map, lock, applied, net, history>>
      /\ thread[k].at = "flush" /\ logged' = logged \cup buffered /\ buffered' = {}
  BY DEF CommitFlush, FlushLog, At
<1>2. /\ DOMAIN thread' = Client /\ DOMAIN thread'[k] = ThreadFields
      /\ \A c \in Client \ {k} : thread'[c] = thread[c]
      /\ thread'[k].at = "finish"
      /\ \A f \in ThreadFields \ {"at"} : thread'[k][f] = thread[k][f]
  BY DEF CommitFlush, Goto, Types, SessionInv, SessionTypes, ThreadFields
<1>3. thread[k].ctx /\ thread[k].wrote \subseteq Of(k) /\ Of(k) \subseteq Change /\ Of(k) \subseteq {k} \X Nat
  BY <1>1, ServerConstants DEF SessionInv, SessionTypes, ContextInv, Of, Change, Commits
<1> USE <1>1 DEF accepting, parsing, net, history
<1>4. Types'
  BY <1>2, <1>3 DEF Types
<1>5. SessionTypes(k)'
  BY <1>2 DEF SessionInv, SessionTypes, Steps, Busy, ThreadFields
<1>6. SocketInv(k)' /\ ContextInv(k)'
  BY <1>2 DEF SessionInv, SocketInv, ContextInv, ThreadFields, Running, Commits
<1>7. StatementInv(k)' /\ WriteInv(k)'
  BY <1>2 DEF SessionInv, StatementInv, WriteInv, Busy, ThreadFields
<1>8. TxnInv(k)'
  BY <1>2 DEF SessionInv, TxnInv, ThreadFields, Id
<1>9. FreshInv(k)'
  BY <1>2 DEF SessionInv, FreshInv, Running, ThreadFields
<1>10. ToldInv(k)' /\ RefusedInv(k)'
  BY <1>2 DEF SessionInv, ToldInv, RefusedInv, NoEffect, ThreadFields
<1>11. InStep(k)'
  <2>1. CASE thread[k].auto
    <3>1. Done(k) /\ Done(k)'
      BY <1>2, <2>1 DEF Done, ThreadFields
    <3> QED BY <1>2, <1>3, <3>1, DoneStep DEF ThreadFields
  <2>2. CASE ~thread[k].auto
    <3> SUFFICES ASSUME k \notin twice, conn[k] = "open" PROVE PhaseInv(k)' /\ DataInv(k)'
      BY DEF InStep
    <3>1. /\ PhaseInv(k) /\ DataInv(k) /\ ~Done(k) /\ thread[k].stmt = Asked(k)
          /\ PhaseInv(k)' /\ ~Done(k)' /\ replies'[k] = <<>>
      BY <1>2, <2>2, BusyStep DEF Busy, ThreadFields
    <3> QED BY <1>2, <3>1 DEF DataInv, Commits, Running, ThreadFields
  <2> QED BY <2>1, <2>2
<1>12. \A c \in Client \ {k} : Frame(c)
  <2>1. \A c \in Client \ {k} : \A u \in {c} \X Nat : u \in Recorded' <=> u \in Recorded
    BY <1>3
  <2> QED BY <1>2, <2>1 DEF Frame, Types
<1> QED BY <1>4, <1>5, <1>6, <1>7, <1>8, <1>9, <1>10, <1>11, <1>12 DEF SessionInv

(* What the thread knows when its transaction is over.                     *)
LEMMA ForgetFields ==
  ASSUME Types, NEW k \in Client, SessionTypes(k), NEW step, thread' = Forget(k, step)
  PROVE  /\ DOMAIN thread' = Client /\ DOMAIN thread'[k] = ThreadFields
         /\ \A c \in Client \ {k} : thread'[c] = thread[c]
         /\ thread'[k].at = step /\ thread'[k].auto = FALSE /\ thread'[k].ctx = FALSE
         /\ thread'[k].mode = FALSE /\ thread'[k].txn_id = 0 /\ thread'[k].wrote = {}
         /\ \A f \in {"fd", "stmt", "query", "answer", "begun"} : thread'[k][f] = thread[k][f]
<1>1. /\ DOMAIN thread' = Client /\ DOMAIN thread'[k] = ThreadFields
      /\ \A c \in Client \ {k} : thread'[c] = thread[c]
  BY DEF Forget, Types, SessionTypes, ThreadFields
<1>2. /\ thread'[k].at = step /\ thread'[k].auto = FALSE /\ thread'[k].ctx = FALSE
      /\ thread'[k].mode = FALSE /\ thread'[k].txn_id = 0 /\ thread'[k].wrote = {}
  BY DEF Forget, Types, SessionTypes, ThreadFields
<1>3. \A f \in {"fd", "stmt", "query", "answer", "begun"} : thread'[k][f] = thread[k][f]
  BY DEF Forget, Types, SessionTypes, ThreadFields
<1> QED BY <1>1, <1>2, <1>3

(* The commit: txn_map.                                                    *)
LEMMA CommitFinishStep ==
  ASSUME Types, NEW k \in Client, SessionInv(k), CommitFinish(k)
  PROVE  Types' /\ SessionInv(k)' /\ \A c \in Client \ {k} : Frame(c)
<1>1. /\ UNCHANGED <<server, accepting, parsing, lock, applied, log, net, history>>
      /\ thread[k].at = "finish" /\ txn_map' = txn_map \ {Id(k)}
      /\ thread[k].wrote \subseteq logged
  BY DEF CommitFinish, At, SessionInv, WriteInv
<1> DEFINE step == IF thread[k].auto THEN "read" ELSE "reply"
<1>2. /\ DOMAIN thread' = Client /\ DOMAIN thread'[k] = ThreadFields
      /\ \A c \in Client \ {k} : thread'[c] = thread[c]
      /\ thread'[k].at = step /\ thread'[k].auto = FALSE /\ thread'[k].ctx = FALSE
      /\ thread'[k].mode = FALSE /\ thread'[k].txn_id = 0 /\ thread'[k].wrote = {}
      /\ \A f \in {"fd", "stmt", "query", "answer", "begun"} : thread'[k][f] = thread[k][f]
  BY ForgetFields DEF CommitFinish, SessionInv
<1>3. thread[k].ctx /\ Id(k) \in {k} \X Nat
  BY <1>1 DEF SessionInv, SessionTypes, ContextInv, Id, Commits
<1> USE <1>1 DEF accepting, parsing, log, net, history
<1>4. Types'
  BY <1>2 DEF Types
<1>5. SessionTypes(k)'
  <2>1. thread'[k].auto \in BOOLEAN /\ thread'[k].ctx \in BOOLEAN /\ thread'[k].mode \in BOOLEAN
    BY <1>2
  <2>2. thread'[k].at \in Steps /\ thread'[k].txn_id \in Nat
    BY <1>2 DEF Steps, Busy
  <2> QED BY <1>2, <2>1, <2>2 DEF SessionInv, SessionTypes
<1>6. SocketInv(k)' /\ ContextInv(k)'
  BY <1>2 DEF SessionInv, SocketInv, ContextInv, Running, Commits
<1>7. StatementInv(k)' /\ WriteInv(k)'
  BY <1>2 DEF SessionInv, StatementInv, WriteInv, Busy
<1>8. TxnInv(k)'
  BY <1>2 DEF SessionInv, TxnInv
<1>9. FreshInv(k)'
  BY <1>2 DEF SessionInv, FreshInv, Running
<1>10. ToldInv(k)' /\ RefusedInv(k)'
  BY <1>2 DEF SessionInv, ToldInv, RefusedInv, NoEffect
<1>11. InStep(k)'
  <2>1. CASE thread[k].auto
    <3>1. Done(k) /\ Done(k)' /\ ~thread[k].mode
      BY <1>2, <2>1 DEF Done, SessionInv, ContextInv
    <3> QED BY <1>2, <1>3, <3>1, DoneStep
  <2>2. CASE ~thread[k].auto
    <3> SUFFICES ASSUME k \notin twice, conn[k] = "open" PROVE PhaseInv(k)' /\ DataInv(k)'
      BY DEF InStep
    <3>1. /\ PhaseInv(k) /\ DataInv(k) /\ ~Done(k) /\ thread[k].stmt = Asked(k)
          /\ PhaseInv(k)' /\ ~Done(k)' /\ replies'[k] = <<>>
      BY <1>2, <2>2, BusyStep DEF Busy
    <3>2. thread'[k].answer = "ok" /\ client[k].kind = "commit" /\ client[k].seen \subseteq logged
      BY <1>2, <3>1 DEF DataInv, Commits
    <3>3. AnswerInv(k, "ok")'
      BY <1>2, <3>2 DEF AnswerInv
    <3> QED BY <1>2, <2>2, <3>1, <3>2, <3>3 DEF DataInv, Commits, Running
  <2> QED BY <2>1, <2>2
<1>12. \A c \in Client \ {k} : Frame(c)
  <2>1. \A c \in Client \ {k} : \A u \in {c} \X Nat : u \in txn_map' <=> u \in txn_map
    BY <1>3
  <2> QED BY <1>2, <2>1 DEF Frame, Types
<1> QED BY <1>4, <1>5, <1>6, <1>7, <1>8, <1>9, <1>10, <1>11, <1>12 DEF SessionInv

(* Writing the log or a page fails.                                        *)
LEMMA CommitFailsStep ==
  ASSUME Types, NEW k \in Client, SessionInv(k), CommitFails(k)
  PROVE  Types' /\ SessionInv(k)' /\ \A c \in Client \ {k} : Frame(c)
<1>1. /\ UNCHANGED <<server, accepting, parsing, data, net, told, refused, stuck, leaked, twice>>
      /\ thread[k].at \in {"log", "flush", "finish"}
      /\ lost \subseteq lost' /\ (thread[k].auto => thread[k].wrote \subseteq lost')
      /\ ghosts \subseteq ghosts' /\ (thread[k].at # "log" => thread[k].wrote \subseteq ghosts')
  BY DEF CommitFails, At
<1>2. /\ DOMAIN thread' = Client /\ DOMAIN thread'[k] = ThreadFields
      /\ \A c \in Client \ {k} : thread'[c] = thread[c]
      /\ thread'[k].at = "undo" /\ thread'[k].answer = "error"
      /\ \A f \in ThreadFields \ {"at", "answer"} : thread'[k][f] = thread[k][f]
  BY DEF CommitFails, Types, SessionInv, SessionTypes, ThreadFields
<1>3. thread[k].ctx
  BY <1>1 DEF SessionInv, ContextInv, Commits
<1> USE <1>1 DEF accepting, parsing, data, log, net
<1>4. Types'
  BY <1>2 DEF Types
<1>5. SessionTypes(k)'
  BY <1>2 DEF SessionInv, SessionTypes, Steps, Busy, Text, ThreadFields
<1>6. SocketInv(k)' /\ ContextInv(k)'
  BY <1>2 DEF SessionInv, SocketInv, ContextInv, ThreadFields, Running, Commits
<1>7. StatementInv(k)'
  BY <1>2 DEF SessionInv, StatementInv, Busy, ThreadFields
<1>8. WriteInv(k)'
  BY <1>2 DEF SessionInv, WriteInv, ThreadFields
<1>9. TxnInv(k)'
  BY <1>2 DEF SessionInv, TxnInv, ThreadFields, Id
<1>10. FreshInv(k)' /\ ToldInv(k)' /\ RefusedInv(k)'
  BY <1>2 DEF SessionInv, FreshInv, ToldInv, RefusedInv, NoEffect, Running, ThreadFields
<1>11. InStep(k)'
  <2>1. CASE thread[k].auto
    <3>1. Done(k) /\ Done(k)'
      BY <1>2, <2>1 DEF Done, ThreadFields
    <3> QED BY <1>2, <1>3, <3>1, DoneStep DEF ThreadFields
  <2>2. CASE ~thread[k].auto
    <3> SUFFICES ASSUME k \notin twice, conn[k] = "open" PROVE PhaseInv(k)' /\ DataInv(k)'
      BY DEF InStep
    <3>1. /\ PhaseInv(k) /\ DataInv(k) /\ ~Done(k) /\ thread[k].stmt = Asked(k)
          /\ PhaseInv(k)' /\ ~Done(k)' /\ replies'[k] = <<>>
      BY <1>2, <2>2, BusyStep DEF Busy, ThreadFields
    <3>2. client[k].kind = "commit" /\ client[k].seen \subseteq thread[k].wrote /\ Wish(k)' = {}
      BY <3>1 DEF DataInv, Commits, Wish
    <3>3. \A u \in client[k].seen : u \in thread'[k].wrote /\ (u \in Recorded' => u \in ghosts')
      BY <1>2, <1>8, <3>2 DEF WriteInv, ThreadFields
    <3> QED BY <1>2, <3>1, <3>2, <3>3 DEF DataInv, Commits, Running
  <2> QED BY <2>1, <2>2
<1>12. \A c \in Client \ {k} : Frame(c)
  BY <1>2 DEF Frame, Types
<1> QED BY <1>4, <1>5, <1>6, <1>7, <1>8, <1>9, <1>10, <1>11, <1>12 DEF SessionInv

(* A rollback that gives up the transaction: it has undone the changes in  *)
(* done, the others stick.                                                 *)
LEMMA GiveUp ==
  ASSUME Types, NEW k \in Client, \A c \in Client : SessionInv(c), NEW done, done \subseteq thread[k].wrote,
         thread[k].at = "undo", AfterUndo(k),
         applied' = applied \ done, stuck \subseteq stuck', thread[k].wrote \ done \subseteq stuck',
         lock' \in {lock, Released(k)}, txn_map \ {Id(k)} \subseteq txn_map', txn_map' \subseteq txn_map,
         leaked \subseteq leaked',
         (Id(k) \notin txn_map' /\ lock' # Id(k)) \/ Id(k) \in leaked',
         Recorded' = Recorded, logged \subseteq logged',
         UNCHANGED <<server, accepting, parse_tree, net, told, refused, lost, ghosts, twice>>
  PROVE  Types' /\ SessionInv(k)' /\ \A c \in Client \ {k} : Frame(c)
<1> DEFINE step == IF thread[k].auto THEN "failure" ELSE "reply"
<1>1. /\ DOMAIN thread' = Client /\ DOMAIN thread'[k] = ThreadFields
      /\ \A c \in Client \ {k} : thread'[c] = thread[c]
      /\ thread'[k].at = step /\ thread'[k].auto = FALSE /\ thread'[k].ctx = FALSE
      /\ thread'[k].mode = FALSE /\ thread'[k].txn_id = 0 /\ thread'[k].wrote = {}
      /\ \A f \in {"fd", "stmt", "query", "answer", "begun"} : thread'[k][f] = thread[k][f]
  BY ForgetFields DEF AfterUndo, SessionInv
<1>2. /\ SessionInv(k) /\ thread[k].ctx /\ Id(k) \in {k} \X Nat
      /\ buffer_mutex' = IF buffer_mutex = k THEN None ELSE buffer_mutex
      /\ thread[k].wrote \subseteq Of(k) /\ Of(k) \subseteq {k} \X Nat
      /\ \A c \in Client : None \notin {c} \X Nat
      /\ lock' \in {lock, IF lock = Id(k) THEN None ELSE lock}
  BY ServerConstants DEF SessionInv, SessionTypes, ContextInv, Id, Commits, AfterUndo, Of, Released
<1> USE DEF accepting, net
<1>3. Types'
  BY <1>1, <1>2 DEF Types
<1>4. SessionTypes(k)'
  <2>1. thread'[k].auto \in BOOLEAN /\ thread'[k].ctx \in BOOLEAN /\ thread'[k].mode \in BOOLEAN
    BY <1>1
  <2>2. thread'[k].at \in Steps /\ thread'[k].txn_id \in Nat
    BY <1>1 DEF Steps, Busy
  <2> QED BY <1>1, <1>2, <2>1, <2>2 DEF SessionInv, SessionTypes
<1>5. SocketInv(k)' /\ ContextInv(k)'
  BY <1>1, <1>2 DEF SessionInv, SocketInv, ContextInv, Running, Commits
<1>6. StatementInv(k)' /\ WriteInv(k)'
  BY <1>1, <1>2 DEF SessionInv, StatementInv, WriteInv, Busy
<1>7. TxnInv(k)'
  <2>1. ASSUME NEW id \in Of(k), id \in txn_map' \/ lock' = id PROVE id \in leaked'
    <3>1. id \in txn_map \/ lock = id
      BY <1>2, <2>1
    <3>2. id = Id(k) \/ id \in leaked
      BY <1>2, <3>1 DEF SessionInv, TxnInv
    <3> QED BY <2>1, <3>2
  <2> QED BY <1>1, <2>1 DEF TxnInv
<1>8. FreshInv(k)'
  BY <1>1, <1>2 DEF SessionInv, FreshInv, Running
<1>9. ToldInv(k)' /\ RefusedInv(k)'
  BY <1>1, <1>2 DEF SessionInv, ToldInv, RefusedInv, NoEffect, WriteInv
<1>10. InStep(k)'
  <2>1. CASE thread[k].auto
    <3>1. Done(k) /\ Done(k)' /\ ~thread[k].mode /\ thread[k].wrote \subseteq lost
      BY <1>1, <1>2, <2>1 DEF Done, SessionInv, ContextInv, WriteInv
    <3> QED BY <1>1, <1>2, <3>1, DoneStep
  <2>2. CASE ~thread[k].auto
    <3> SUFFICES ASSUME k \notin twice, conn[k] = "open" PROVE PhaseInv(k)' /\ DataInv(k)'
      BY DEF InStep
    <3>1. /\ PhaseInv(k) /\ DataInv(k) /\ ~Done(k) /\ thread[k].stmt = Asked(k)
          /\ PhaseInv(k)' /\ ~Done(k)' /\ replies'[k] = <<>>
      BY <1>1, <1>2, <2>2, BusyStep DEF Busy
    <3>2. /\ thread'[k].answer = thread[k].answer /\ thread[k].answer \in {"ok", "abort", "error"}
          /\ thread[k].answer = "ok" => client[k].kind = "rollback"
          /\ \A u \in client[k].seen \cup Wish(k) : NoEffect(u)'
      BY <1>1, <3>1 DEF DataInv, Commits, NoEffect
    <3>3. AnswerInv(k, thread[k].answer)'
      BY <1>1, <3>2 DEF AnswerInv, Wish
    <3> QED BY <1>1, <2>2, <3>1, <3>2, <3>3 DEF DataInv, Commits, Running
  <2> QED BY <2>1, <2>2
<1>11. \A c \in Client \ {k} : Frame(c)
  <2>1. \A c \in Client \ {k} : \A u \in {c} \X Nat :
          /\ u \in txn_map' <=> u \in txn_map
          /\ u \in applied' <=> u \in applied
          /\ lock' = u <=> lock = u
    BY <1>2
  <2>2. \A c \in Client \ {k} : thread[c].at = "analyze" => buffer_mutex' = buffer_mutex
    BY <1>2 DEF SessionInv, StatementInv
  <2> QED BY <1>1, <2>1, <2>2 DEF Frame, Types
<1> QED BY <1>3, <1>4, <1>5, <1>6, <1>7, <1>8, <1>9, <1>10, <1>11 DEF SessionInv

LEMMA AbortStep ==
  ASSUME Types, NEW k \in Client, \A c \in Client : SessionInv(c), Abort(k)
  PROVE  Types' /\ SessionInv(k)' /\ \A c \in Client \ {k} : Frame(c)
<1>1. /\ thread[k].at = "undo" /\ AfterUndo(k) /\ applied' = applied \ thread[k].wrote
      /\ lock' = Released(k) /\ txn_map' = txn_map \ {Id(k)}
      /\ Recorded' = Recorded /\ logged \subseteq logged'
      /\ UNCHANGED <<server, accepting, parse_tree, net, history>>
  BY DEF Abort, At, FlushLog
<1>2. Id(k) \in {k} \X Nat /\ None \notin {k} \X Nat
  BY ServerConstants DEF Id, SessionInv, SessionTypes
<1>3. lock' # Id(k)
  BY <1>1, <1>2 DEF Released
<1>4. UNCHANGED <<server, accepting, parse_tree, net, told, refused, lost, ghosts, stuck, leaked, twice>>
  BY <1>1 DEF history
<1> QED BY <1>1, <1>3, <1>4, GiveUp

(* abort throws.  ROLLBACK tries again with what is left of the write set, *)
(* everyone else gives the transaction up.                                 *)
LEMMA UndoFailsStep ==
  ASSUME Types, NEW k \in Client, \A c \in Client : SessionInv(c), UndoFails(k)
  PROVE  Types' /\ SessionInv(k)' /\ \A c \in Client \ {k} : Frame(c)
<1> DEFINE mine == thread[k].wrote
<1>1. /\ thread[k].at = "undo" /\ SessionInv(k)
      /\ Recorded' = Recorded /\ UNCHANGED <<server, accepting, parse_tree, txn_map, logged, buffered, net, told, refused, lost, ghosts, twice>>
  BY DEF UndoFails, At, log
<1>2. PICK left \in SUBSET mine, done \in SUBSET mine :
        /\ applied' = applied \ done /\ lock' \in {lock, Released(k)}
        /\ \/ /\ thread[k].answer = "ok"
              /\ thread' = [thread EXCEPT ![k].wrote = left, ![k].answer = "error"]
              /\ stuck' = stuck \cup (mine \ (left \cup done))
              /\ UNCHANGED <<buffer_mutex, leaked>>
           \/ /\ AfterUndo(k)
              /\ stuck' = stuck \cup (mine \ done)
              /\ leaked' = leaked \cup {Id(k)}
  <2>1. PICK at \in mine \cup {None} :
          LET left == IF at = None THEN {} ELSE {u \in mine : u[2] < at[2]}
              done == IF at = None THEN mine ELSE {u \in mine : u[2] > at[2]}
          IN
          /\ applied' = applied \ done
          /\ lock' = IF at = None THEN Released(k) ELSE lock
          /\ IF thread[k].answer = "ok"
               THEN /\ thread' = [thread EXCEPT ![k].wrote = left, ![k].answer = "error"]
                    /\ stuck' = stuck \cup (mine \ (left \cup done))
                    /\ UNCHANGED <<buffer_mutex, leaked>>
               ELSE /\ AfterUndo(k)
                    /\ stuck' = stuck \cup (mine \ done)
                    /\ leaked' = leaked \cup {Id(k)}
    BY DEF UndoFails
  <2> DEFINE l == IF at = None THEN {} ELSE {u \in mine : u[2] < at[2]}
             d == IF at = None THEN mine ELSE {u \in mine : u[2] > at[2]}
  <2>2. l \in SUBSET mine /\ d \in SUBSET mine
    OBVIOUS
  <2>3. /\ applied' = applied \ d /\ lock' \in {lock, Released(k)}
        /\ \/ /\ thread[k].answer = "ok"
              /\ thread' = [thread EXCEPT ![k].wrote = l, ![k].answer = "error"]
              /\ stuck' = stuck \cup (mine \ (l \cup d))
              /\ UNCHANGED <<buffer_mutex, leaked>>
           \/ /\ AfterUndo(k)
              /\ stuck' = stuck \cup (mine \ d)
              /\ leaked' = leaked \cup {Id(k)}
    BY <2>1
  <2> HIDE DEF l, d
  <2> QED BY <2>2, <2>3
<1>3. CASE leaked' = leaked \cup {Id(k)} /\ AfterUndo(k) /\ stuck' = stuck \cup (mine \ done)
  BY <1>1, <1>2, <1>3, GiveUp
<1>4. CASE /\ thread[k].answer = "ok"
           /\ thread' = [thread EXCEPT ![k].wrote = left, ![k].answer = "error"]
           /\ stuck' = stuck \cup (mine \ (left \cup done))
           /\ UNCHANGED <<buffer_mutex, leaked>>
  <2>1. /\ DOMAIN thread' = Client /\ DOMAIN thread'[k] = ThreadFields
        /\ \A c \in Client \ {k} : thread'[c] = thread[c]
        /\ thread'[k].answer = "error" /\ thread'[k].wrote = left
        /\ \A f \in ThreadFields \ {"answer", "wrote"} : thread'[k][f] = thread[k][f]
    BY <1>1, <1>4 DEF Types, SessionInv, SessionTypes, ThreadFields
  <2>2. /\ Id(k) \in {k} \X Nat /\ left \subseteq Of(k) /\ done \subseteq Of(k) /\ Of(k) \subseteq {k} \X Nat
        /\ \A c \in Client : None \notin {c} \X Nat
        /\ lock' \in {lock, IF lock = Id(k) THEN None ELSE lock}
        /\ ~thread[k].auto /\ thread[k].ctx
    BY <1>1, <1>2, <1>4, ServerConstants DEF SessionInv, SessionTypes, ContextInv, WriteInv, Id, Of, Released
  <2> USE <1>1, <1>4 DEF accepting, net
  <2>3. Types'
    BY <1>2, <2>1, <2>2 DEF Types
  <2>4. SessionTypes(k)' /\ SocketInv(k)' /\ ContextInv(k)'
    BY <2>1, <2>2 DEF SessionInv, SessionTypes, SocketInv, ContextInv, Text, ThreadFields
  <2>5. StatementInv(k)' /\ WriteInv(k)'
    BY <2>1, <2>2 DEF SessionInv, StatementInv, WriteInv, ThreadFields
  <2>6. TxnInv(k)'
    <3>1. Id(k)' = Id(k) /\ \A id \in Of(k) : lock' = id => lock = id
      BY <2>1, <2>2 DEF Id, ThreadFields
    <3> QED BY <2>1, <3>1 DEF SessionInv, TxnInv, ThreadFields
  <2>7. FreshInv(k)' /\ ToldInv(k)' /\ RefusedInv(k)'
    BY <1>2, <2>1, <2>2 DEF SessionInv, FreshInv, ToldInv, RefusedInv, NoEffect, ThreadFields
  <2>8. InStep(k)'
    <3> SUFFICES ASSUME k \notin twice, conn[k] = "open" PROVE PhaseInv(k)' /\ DataInv(k)'
      BY DEF InStep
    <3>1. /\ PhaseInv(k) /\ DataInv(k) /\ ~Done(k) /\ thread[k].stmt = Asked(k)
          /\ PhaseInv(k)' /\ ~Done(k)' /\ replies'[k] = <<>>
      BY <2>1, <2>2, BusyStep DEF Busy, ThreadFields
    <3>2. \A u \in client[k].seen \cup Wish(k) :
            /\ u \in Recorded => u \in ghosts
            /\ u \in applied' => u \in left \cup ghosts \cup stuck'
      BY <1>2, <3>1 DEF DataInv
    <3>3. thread'[k].at = "undo" /\ Wish(k)' = Wish(k)
      BY <2>1 DEF Wish, ThreadFields
    <3> QED BY <2>1, <3>1, <3>2, <3>3 DEF DataInv, Commits, Running
  <2>9. \A c \in Client \ {k} : Frame(c)
    <3>1. \A c \in Client \ {k} : \A u \in {c} \X Nat :
            (u \in applied' <=> u \in applied) /\ (lock' = u <=> lock = u)
      BY <1>2, <2>2
    <3> QED BY <2>1, <3>1 DEF Frame, Types
  <2> QED BY <2>3, <2>4, <2>5, <2>6, <2>7, <2>8, <2>9 DEF SessionInv
<1> QED BY <1>2, <1>3, <1>4

(* After an answer, or what was meant to be one, the thread goes on with   *)
(* the commit of the implicit transaction or with the next statement.      *)
LEMMA AnsweredStep ==
  ASSUME Types, NEW k \in Client, SessionInv(k), Alive, AfterAnswer(k), thread[k].at \in {"reply", "failure"},
         UNCHANGED <<server, accepting, parsing, data, conn, client, request, told, refused, lost, ghosts, stuck, leaked>>,
         conn[k] # "none", replies'[k] \in Seq(Reply(k)), DOMAIN replies' = Client,
         \A c \in Client \ {k} : replies'[c] = replies[c],
         twice \subseteq twice', twice' \subseteq twice \cup {k}
  PROVE  /\ Types' /\ (InStep(k)' => SessionInv(k)') /\ \A c \in Client \ {k} : Frame(c)
         /\ Done(k)' /\ thread'[k].ctx = thread[k].ctx /\ thread'[k].mode = thread[k].mode
         /\ thread'[k].wrote = thread[k].wrote
<1> DEFINE auto == thread[k].ctx /\ ~thread[k].mode
<1>1. /\ DOMAIN thread' = Client /\ DOMAIN thread'[k] = ThreadFields
      /\ \A c \in Client \ {k} : thread'[c] = thread[c]
      /\ \A f \in {"fd", "txn_id", "begun", "ctx", "mode", "wrote"} : thread'[k][f] = thread[k][f]
      /\ \/ /\ auto /\ thread'[k].at = "unlock" /\ thread'[k].auto = TRUE
            /\ thread'[k].stmt = thread[k].stmt /\ thread'[k].answer = thread[k].answer
         \/ /\ ~auto /\ thread'[k].at = "read" /\ thread'[k].auto = thread[k].auto
            /\ thread'[k].stmt = None /\ thread'[k].answer = "ok"
  BY DEF AfterAnswer, Loop, Types, SessionInv, SessionTypes, ThreadFields
<1>2. ~thread[k].auto /\ thread[k].fd = k /\ server # "down"
  BY DEF SessionInv, SocketInv, ContextInv, Commits, Alive
<1> USE DEF accepting, parsing, data, log
<1>3. Types'
  BY <1>1 DEF Types
<1>4. SessionTypes(k)'
  <2>1. thread'[k].auto \in BOOLEAN /\ thread'[k].ctx \in BOOLEAN /\ thread'[k].mode \in BOOLEAN
    BY <1>1 DEF SessionInv, SessionTypes
  <2>2. thread'[k].at \in Steps /\ thread'[k].answer \in Text
    BY <1>1 DEF SessionInv, SessionTypes, Steps, Busy, Text
  <2> QED BY <1>1, <2>1, <2>2 DEF SessionInv, SessionTypes
<1>5. SocketInv(k)' /\ ContextInv(k)'
  BY <1>1, <1>2 DEF SessionInv, SocketInv, ContextInv, Running, Commits
<1>6. StatementInv(k)' /\ TxnInv(k)' /\ WriteInv(k)'
  BY <1>1, <1>2 DEF SessionInv, StatementInv, TxnInv, WriteInv, Id, Busy
<1>7. FreshInv(k)' /\ ToldInv(k)' /\ RefusedInv(k)'
  BY <1>1, <1>2 DEF SessionInv, FreshInv, ToldInv, RefusedInv, NoEffect, Running
<1>8. Done(k)'
  BY <1>1 DEF Done
<1>9. \A c \in Client \ {k} : Frame(c)
  BY <1>1 DEF Frame, Types
<1> QED BY <1>1, <1>3, <1>4, <1>5, <1>6, <1>7, <1>8, <1>9 DEF SessionInv

LEMMA AnswerStep ==
  ASSUME Types, NEW k \in Client, SessionInv(k), Answer(k)
  PROVE  Types' /\ SessionInv(k)' /\ \A c \in Client \ {k} : Frame(c)
<1> DEFINE r == [n |-> thread[k].stmt.n, text |-> thread[k].answer]
<1>1. /\ UNCHANGED <<server, accepting, parsing, data, conn, client, request, history>>
      /\ thread[k].at = "reply" /\ thread[k].fd = k /\ Alive /\ conn[k] = "open" /\ AfterAnswer(k)
      /\ replies' = [replies EXCEPT ![k] = Append(@, r)]
  <2>1. thread[k].at = "reply" /\ thread[k].fd = k
    BY DEF Answer, At, SessionInv, SocketInv
  <2> QED BY <2>1, Zenon DEF Answer, At
<1>2. r \in Reply(k) /\ ~thread[k].auto
  BY <1>1, ServerConstants DEF SessionInv, SessionTypes, StatementInv, ContextInv, Reply, Busy, Commits
<1>3. /\ replies'[k] = Append(replies[k], r) /\ replies'[k] \in Seq(Reply(k)) /\ DOMAIN replies' = Client
      /\ \A c \in Client \ {k} : replies'[c] = replies[c]
  BY <1>1, <1>2 DEF Types, SessionInv, SessionTypes
<1>4. /\ Types' /\ (InStep(k)' => SessionInv(k)') /\ \A c \in Client \ {k} : Frame(c)
      /\ Done(k)' /\ thread'[k].ctx = thread[k].ctx /\ thread'[k].mode = thread[k].mode
      /\ thread'[k].wrote = thread[k].wrote
  BY <1>1, <1>3, AnsweredStep DEF history
<1>5. InStep(k)'
  <2> SUFFICES ASSUME k \notin twice, conn[k] = "open" PROVE PhaseInv(k)' /\ DataInv(k)'
    BY <1>1 DEF InStep, history
  <2>1. /\ PhaseInv(k) /\ DataInv(k) /\ ~Done(k) /\ thread[k].stmt = Asked(k)
        /\ client[k].waits /\ request[k] = None /\ replies[k] = <<>>
    BY <1>1, <1>2 DEF SessionInv, InStep, PhaseInv, Done
  <2>2. Len(replies'[k]) = 1 /\ replies'[k] # <<>> /\ replies'[k][1] = r
    BY <1>2, <1>3, <2>1
  <2>3. PhaseInv(k)'
    BY <1>1, <1>4, <2>1, <2>2 DEF PhaseInv, Asked
  <2>4. AnswerInv(k, thread[k].answer)
    BY <1>1, <2>1 DEF DataInv
  <2>5. (\A u \in client[k].seen \cup Wish(k) : NoEffect(u) => NoEffect(u)') /\ Wish(k)' = Wish(k)
    BY <1>1 DEF NoEffect, data, log, history, Wish
  <2>6. ASSUME NEW text, AnswerInv(k, text) PROVE AnswerInv(k, text)'
    BY <1>1, <1>4, <2>1, <2>5, <2>6 DEF AnswerInv, Agree, data, log, history
  <2>7. AnswerInv(k, replies[k][1].text)'
    <3>1. replies'[k][1].text = thread[k].answer
      BY <2>2
    <3>2. \A text : AnswerInv(k, text) => AnswerInv(k, text)'
      BY <2>6
    <3> QED BY <2>4, <3>1, <3>2
  <2>8. (~client[k].open => client[k].seen = {}) /\ client'[k] = client[k]
    BY <1>1, <2>1 DEF DataInv
  <2> QED BY <1>4, <2>2, <2>3, <2>7, <2>8 DEF DataInv
<1> QED BY <1>4, <1>5

LEMMA SecondAnswerStep ==
  ASSUME Types, NEW k \in Client, SessionInv(k), SecondAnswer(k)
  PROVE  Types' /\ SessionInv(k)' /\ \A c \in Client \ {k} : Frame(c)
<1> DEFINE r == [n |-> thread[k].stmt.n, text |-> "failure"]
<1>1. /\ UNCHANGED <<server, accepting, parsing, data, conn, client, request, told, refused, lost, ghosts, stuck, leaked>>
      /\ thread[k].at = "failure" /\ thread[k].fd = k /\ Alive /\ conn[k] = "open" /\ AfterAnswer(k)
      /\ replies' = [replies EXCEPT ![k] = Append(@, r)] /\ twice' = twice \cup {k}
  <2>1. thread[k].at = "failure" /\ thread[k].fd = k
    BY DEF SecondAnswer, At, SessionInv, SocketInv
  <2> QED BY <2>1, Zenon DEF SecondAnswer, At
<1>2. r \in Reply(k)
  BY <1>1, ServerConstants DEF SessionInv, SessionTypes, StatementInv, Reply, Busy, Text
<1>3. /\ replies'[k] \in Seq(Reply(k)) /\ DOMAIN replies' = Client
      /\ \A c \in Client \ {k} : replies'[c] = replies[c]
  BY <1>1, <1>2 DEF Types, SessionInv, SessionTypes
<1>4. Types' /\ (InStep(k)' => SessionInv(k)') /\ \A c \in Client \ {k} : Frame(c)
  <2>1. twice \subseteq twice' /\ twice' \subseteq twice \cup {k}
    BY <1>1
  <2> QED BY <1>1, <1>3, <2>1, AnsweredStep
<1>5. InStep(k)'
  BY <1>1 DEF InStep
<1> QED BY <1>4, <1>5

LEMMA AnswerNobodyStep ==
  ASSUME Types, NEW k \in Client, \A c \in Client : SessionInv(c), AnswerNobody(k)
  PROVE  Types' /\ (\A c \in Client \ {k} : Frame(c)) /\ (Frame(k) \/ SessionInv(k)')
<1>1. thread[k].fd = k /\ conn[k] = "gone" /\ Alive /\ thread[k].at \in {"reply", "failure"}
  <2>1. thread[k].fd = k
    BY DEF AnswerNobody, SessionInv, SocketInv
  <2> QED BY <2>1, Zenon DEF AnswerNobody
<1>2. CASE Ended /\ UNCHANGED log
  BY <1>2, EndedStep
<1>3. CASE AfterAnswer(k) /\ UNCHANGED <<server, accepting, parsing, data, net, history>>
  <2>1. /\ UNCHANGED <<server, accepting, parsing, data, conn, client, request, told, refused, lost, ghosts, stuck, leaked>>
        /\ UNCHANGED <<replies, twice>>
    BY <1>3 DEF net, history
  <2>2. /\ replies'[k] \in Seq(Reply(k)) /\ DOMAIN replies' = Client /\ SessionInv(k)
        /\ \A c \in Client \ {k} : replies'[c] = replies[c]
    BY <2>1 DEF Types, SessionInv, SessionTypes
  <2>3. Types' /\ (InStep(k)' => SessionInv(k)') /\ \A c \in Client \ {k} : Frame(c)
    BY <1>1, <1>3, <2>1, <2>2, AnsweredStep
  <2>4. InStep(k)'
    BY <1>1, <2>1 DEF InStep
  <2> QED BY <2>3, <2>4
<1>4. CASE Goto(k, "ended") /\ UNCHANGED <<server, accepting, parsing, data, net, history>>
  <2>1. /\ DOMAIN thread' = Client /\ DOMAIN thread'[k] = ThreadFields /\ SessionInv(k)
        /\ \A c \in Client \ {k} : thread'[c] = thread[c]
        /\ thread'[k].at = "ended" /\ \A f \in ThreadFields \ {"at"} : thread'[k][f] = thread[k][f]
    BY <1>4 DEF Goto, Types, SessionInv, SessionTypes, ThreadFields
  <2> USE <1>1, <1>4, <2>1 DEF accepting, parsing, data, log, net, history
  <2>2. Types'
    BY DEF Types
  <2>3. SessionTypes(k)' /\ SocketInv(k)'
    BY DEF SessionInv, SessionTypes, SocketInv, Steps, ThreadFields
  <2>4. ~thread[k].auto
    BY DEF SessionInv, ContextInv, Commits
  <2>5. ContextInv(k)' /\ StatementInv(k)' /\ TxnInv(k)' /\ WriteInv(k)'
    BY <2>4 DEF SessionInv, ContextInv, StatementInv, TxnInv, WriteInv, Id, ThreadFields, Running, Commits, Busy
  <2>6. FreshInv(k)' /\ ToldInv(k)' /\ RefusedInv(k)' /\ InStep(k)'
    BY DEF SessionInv, FreshInv, ToldInv, RefusedInv, NoEffect, InStep, ThreadFields, Running
  <2>7. \A c \in Client \ {k} : Frame(c)
    BY DEF Frame, Types
  <2> QED BY <2>2, <2>3, <2>5, <2>6, <2>7 DEF SessionInv
<1> QED BY <1>2, <1>3, <1>4 DEF AnswerNobody

(* The client reads an answer: of the server's state nothing changes, and  *)
(* what the answer tells is what AnswerInv says of it.                     *)
LEMMA ReceiveStep ==
  ASSUME Types, NEW k \in Client, SessionInv(k), Receive(k)
  PROVE  Types' /\ SessionInv(k)' /\ \A c \in Client \ {k} : Frame(c)
<1> DEFINE text == Head(replies[k]).text
           kind == client[k].kind
           open == client[k].open \/ kind = "begin"
           ends == text \notin {"ok", "empty"} \/ kind \in {"commit", "rollback"}
           made == IF text = "ok" THEN client[k].seen \cup Wish(k) ELSE client[k].seen
           commits == text = "ok" /\ (kind = "commit" \/ ~open)
           seen == IF ends \/ commits THEN {} ELSE made
<1>1. /\ UNCHANGED <<server, accepting, parsing, thread, data, conn, request, lost, ghosts, stuck, leaked, twice>>
      /\ conn[k] = "open" /\ client[k].waits /\ replies[k] # <<>> /\ Learns(k, text)
      /\ \E n \in DOMAIN replies[k] : replies' = [replies EXCEPT ![k] = SubSeq(@, n + 1, Len(@))]
  BY DEF Receive
<1>2. /\ told' = IF commits THEN told \cup made ELSE told
      /\ refused' = IF ends /\ ~commits THEN refused \cup client[k].seen \cup Wish(k) ELSE refused
      /\ client' = [client EXCEPT ![k].waits = FALSE, ![k].kind = None, ![k].open = open /\ ~ends, ![k].seen = seen]
  BY <1>1, Zenon DEF Learns, Wish
<1>3. /\ DOMAIN client' = Client /\ DOMAIN client'[k] = ClientFields
      /\ \A c \in Client \ {k} : client'[c] = client[c]
      /\ client'[k].n = client[k].n /\ client'[k].waits = FALSE
      /\ client'[k].open = (open /\ ~ends) /\ client'[k].seen = seen
  <2> HIDE DEF seen, ends, open
  <2> QED BY <1>2 DEF Types, SessionInv, SessionTypes, ClientFields
<1>4. /\ Wish(k) \subseteq Of(k) /\ client[k].seen \subseteq Of(k) /\ Of(k) \subseteq Change
      /\ \A u \in client[k].seen \cup Wish(k) : u[2] <= client[k].n
  BY <1>1, ServerConstants DEF SessionInv, SessionTypes, StatementInv, Wish, Of, Change
<1>5. /\ DOMAIN replies' = Client /\ replies'[k] \in Seq(Reply(k))
      /\ \A c \in Client \ {k} : replies'[c] = replies[c]
      /\ Len(replies[k]) = 1 => replies'[k] = <<>>
  BY <1>1 DEF Types, SessionInv, SessionTypes
<1>6. /\ seen \subseteq client[k].seen \cup Wish(k) /\ made \subseteq client[k].seen \cup Wish(k)
      /\ told' \subseteq told \cup client[k].seen \cup Wish(k)
      /\ refused' \subseteq refused \cup client[k].seen \cup Wish(k)
  BY <1>2
<1> USE DEF accepting, parsing, data, log
<1>7. Types'
  BY <1>1, <1>3, <1>4, <1>5, <1>6 DEF Types
<1>8. SessionTypes(k)' /\ SocketInv(k)' /\ ContextInv(k)'
  <2>1. client'[k].waits \in BOOLEAN /\ client'[k].open \in BOOLEAN /\ client'[k].seen \subseteq Of(k)
    BY <1>3, <1>4, <1>6, Zenon
  <2> HIDE DEF seen, ends, open
  <2> QED BY <1>1, <1>3, <1>5, <2>1 DEF SessionInv, SessionTypes, SocketInv, ContextInv
<1>9. StatementInv(k)' /\ TxnInv(k)' /\ WriteInv(k)'
  <2>1. \A u \in client'[k].seen : u[2] <= client'[k].n
    BY <1>3, <1>4, <1>6
  <2> HIDE DEF seen, ends, open
  <2> QED BY <1>1, <1>3, <2>1 DEF SessionInv, StatementInv, TxnInv, WriteInv, Id
<1>10. ASSUME k \notin twice
       PROVE  /\ Len(replies[k]) = 1 /\ request[k] = None /\ Done(k) /\ AnswerInv(k, text)
              /\ (~client[k].open => client[k].seen = {}) /\ thread[k].at \notin Running
  <2>1. PhaseInv(k) /\ DataInv(k)
    BY <1>1, <1>10 DEF SessionInv, InStep
  <2>2. Len(replies[k]) = 1 /\ request[k] = None /\ Done(k)
    BY <1>1, <2>1 DEF PhaseInv
  <2>3. thread[k].at \notin Running
    BY <2>2 DEF Done, SessionInv, ContextInv, Commits, Running
  <2> QED BY <1>1, <2>1, <2>2, <2>3 DEF DataInv
<1>11. FreshInv(k)'
  <2> SUFFICES ASSUME NEW u \in Of(k),
                      u \in applied \cup Recorded \cup thread[k].wrote \/ (u \in refused' /\ k \notin twice)
               PROVE  /\ u[2] <= client[k].n
                      /\ request[k] # None => u[2] < client[k].n
                      /\ thread[k].at \in Running => u[2] < thread[k].stmt.n
    BY <1>1, <1>3 DEF FreshInv
  <2>1. CASE u \in applied \cup Recorded \cup thread[k].wrote \/ (u \in refused /\ k \notin twice)
    BY <2>1 DEF SessionInv, FreshInv
  <2>2. CASE u \in client[k].seen \cup Wish(k) /\ k \notin twice
    BY <1>4, <1>10, <2>2
  <2> QED BY <1>6, <2>1, <2>2
<1>12. ToldInv(k)'
  <2> SUFFICES ASSUME NEW u \in Of(k), u \in told', k \notin twice
               PROVE  u \in logged \cup lost \/ (thread[k].auto /\ u \in thread[k].wrote)
    BY <1>1 DEF ToldInv
  <2>1. CASE u \in told
    BY <2>1 DEF SessionInv, ToldInv
  <2>2. CASE u \notin told
    <3>1. commits /\ u \in made
      BY <1>2, <2>2
    <3>2. CASE kind = "commit"
      BY <1>10, <3>1, <3>2 DEF AnswerInv, Wish
    <3>3. CASE ~open
      <4>1. kind = "write" /\ u \in Wish(k) /\ Agree(k)
        BY <1>10, <3>1, <3>3 DEF AnswerInv, Wish
      <4>2. thread[k].ctx => thread[k].auto
        BY <1>10, <3>3, <4>1 DEF Agree, Done, SessionInv, SocketInv, ContextInv
      <4>3. u \in thread[k].wrote \/ u \in logged \cup lost
        BY <1>10, <3>1, <3>3, <4>1 DEF AnswerInv
      <4> QED BY <4>2, <4>3 DEF SessionInv, ContextInv
    <3> QED BY <3>1, <3>2, <3>3
  <2> QED BY <2>1, <2>2
<1>13. RefusedInv(k)'
  <2> SUFFICES ASSUME NEW u \in Of(k), u \in refused', k \notin twice
               PROVE  NoEffect(u) /\ u \notin thread[k].wrote
    BY <1>1 DEF RefusedInv, NoEffect
  <2>1. CASE u \in refused
    BY <2>1 DEF SessionInv, RefusedInv
  <2>2. CASE u \notin refused
    <3>1. ends /\ ~commits /\ u \in client[k].seen \cup Wish(k)
      BY <1>2, <2>2
    <3>2. ~thread[k].ctx /\ NoEffect(u)
      BY <1>10, <3>1 DEF AnswerInv, Wish
    <3> QED BY <3>2 DEF SessionInv, ContextInv
  <2> QED BY <2>1, <2>2
<1>14. InStep(k)'
  <2> SUFFICES ASSUME k \notin twice PROVE PhaseInv(k)' /\ DataInv(k)'
    BY <1>1 DEF InStep
  <2>1. Done(k)' /\ replies'[k] = <<>> /\ request'[k] = None /\ Done(k)
    BY <1>1, <1>5, <1>10 DEF Done
  <2>2. PhaseInv(k)'
    <3> HIDE DEF seen, ends, open
    <3> QED BY <1>3, <2>1 DEF PhaseInv
  <2>3. open /\ ~ends => thread[k].mode
    BY <1>10 DEF AnswerInv, Agree
  <2>4. thread[k].mode => open /\ ~ends
    BY <1>10 DEF AnswerInv, Agree, SessionInv, ContextInv
  <2>5. seen \subseteq thread[k].wrote
    BY <1>10 DEF AnswerInv, Agree, Wish
  <2>6. ~(open /\ ~ends) => seen = {}
    BY <1>10 DEF AnswerInv
  <2>7. Agree(k)' /\ (~client'[k].open => client'[k].seen = {})
    <3>1. thread'[k] = thread[k]
      BY <1>1
    <3> QED BY <1>3, <2>3, <2>4, <2>5, <2>6, <3>1, Zenon DEF Agree
  <2> QED BY <2>1, <2>2, <2>7 DEF DataInv
<1>15. \A c \in Client \ {k} : Frame(c)
  <2>1. \A c \in Client \ {k} : \A u \in {c} \X Nat : (u \in told' <=> u \in told) /\ (u \in refused' <=> u \in refused)
    BY <1>2, <1>4, <1>6 DEF Of
  <2> HIDE DEF seen, ends, open
  <2> QED BY <1>1, <1>3, <1>5, <2>1 DEF Frame, Types
<1> QED BY <1>7, <1>8, <1>9, <1>11, <1>12, <1>13, <1>14, <1>15 DEF SessionInv

-----------------------------------------------------------------------------
LEMMA InitInv == Init => IInv
<1> SUFFICES ASSUME Init PROVE IInv
  OBVIOUS
<1>1. Types
  BY ServerConstants DEF Init, Types
<1>2. ASSUME NEW c \in Client PROVE SessionInv(c)
  <2>1. thread[c] = NoThread /\ client[c] = NewClient /\ request[c] = None /\ replies[c] = <<>> /\ conn[c] = "none"
    BY DEF Init
  <2>2. SessionTypes(c)
    <3>1. DOMAIN thread[c] = ThreadFields /\ DOMAIN client[c] = ClientFields
      BY <2>1 DEF NoThread, NewClient, ThreadFields, ClientFields
    <3> QED BY <2>1, <3>1 DEF SessionTypes, NoThread, NewClient, Steps, Text
  <2>3. SocketInv(c) /\ ContextInv(c) /\ WriteInv(c)
    BY <2>1 DEF Init, SocketInv, ContextInv, WriteInv, NoThread, NewClient, Commits, Running
  <2>4. StatementInv(c)
    BY <2>1, ServerConstants DEF StatementInv, NoThread, NewClient, Busy
  <2>5. TxnInv(c)
    <3>1. \A id \in Of(c) : id # None
      BY ServerConstants DEF Of
    <3> QED BY <2>1, <3>1 DEF Init, TxnInv, NoThread
  <2>6. FreshInv(c) /\ ToldInv(c) /\ RefusedInv(c) /\ InStep(c)
    BY <2>1 DEF Init, FreshInv, ToldInv, RefusedInv, InStep, NoThread
  <2> QED BY <2>2, <2>3, <2>4, <2>5, <2>6 DEF SessionInv
<1> QED BY <1>1, <1>2 DEF IInv

(* Every step of one session keeps its own invariant and leaves the others *)
(* alone; a step of the process leaves all of them alone or ends them all. *)
LEMMA StepInv == IInv /\ [Next]_vars => IInv'
<1> SUFFICES ASSUME IInv, [Next]_vars PROVE IInv'
  OBVIOUS
<1>0. Types /\ \A c \in Client : SessionInv(c)
  BY DEF IInv
<1>1. ASSUME Types', \A c \in Client : Frame(c) PROVE IInv'
  BY <1>0, <1>1, FrameStep DEF IInv
<1>2. ASSUME NEW k \in Client, Types' /\ SessionInv(k)' /\ \A c \in Client \ {k} : Frame(c) PROVE IInv'
  <2>1. \A c \in Client \ {k} : SessionInv(c)'
    BY <1>0, <1>2, FrameStep
  <2> QED BY <1>2, <2>1 DEF IInv
<1>3. CASE UNCHANGED vars
  BY <1>0, <1>1, <1>3 DEF vars, accepting, parsing, data, log, net, history, Types, Frame
<1>4. CASE Shutdown \/ AcceptFails \/ \E c \in Client : ThreadFails(c)
  BY <1>0, <1>1, <1>4, QuietStep
<1>5. CASE Ended /\ (UNCHANGED log \/ FlushLog)
  BY <1>0, <1>1, <1>5, EndedStep
<1>51. ASSUME NEW k \in Client, FullBuffer(k) PROVE IInv'
  BY <1>0, <1>1, <1>51, FullBufferStep
<1>6. CASE Restart
  BY <1>0, <1>6, RestartStep DEF IInv
<1>7. ASSUME NEW k \in Client, AnswerNobody(k) PROVE IInv'
  BY <1>0, <1>1, <1>2, <1>7, AnswerNobodyStep
<1>8. ASSUME NEW k \in Client,
             \/ Connect(k) \/ Receive(k) \/ Leave(k) \/ \E kind \in Kinds[k] : Send(k, kind)
             \/ Accept(k) \/ TakeSocket(k) \/ ReadNothing(k) \/ ReadStatement(k)
             \/ Parse(k) \/ Analyze(k) \/ Execute(k) \/ Answer(k) \/ SecondAnswer(k)
             \/ CommitUnlock(k) \/ CommitLog(k) \/ CommitFlush(k) \/ CommitFinish(k) \/ Abort(k)
             \/ CommitFails(k) \/ UndoFails(k)
      PROVE  IInv'
  <2>1. CASE Connect(k)
    BY <1>0, <1>2, <2>1, ConnectStep
  <2>2. CASE Receive(k)
    BY <1>0, <1>2, <2>2, ReceiveStep
  <2>3. CASE Leave(k)
    BY <1>0, <1>2, <2>3, LeaveStep
  <2>4. CASE \E kind \in Kinds[k] : Send(k, kind)
    BY <1>0, <1>2, <2>4, SendStep
  <2>5. CASE Accept(k)
    BY <1>0, <1>2, <2>5, AcceptStep
  <2>6. CASE TakeSocket(k)
    BY <1>0, <1>2, <2>6, TakeSocketStep
  <2>7. CASE ReadNothing(k)
    BY <1>0, <1>2, <2>7, ReadNothingStep
  <2>8. CASE ReadStatement(k)
    BY <1>0, <1>2, <2>8, ReadStatementStep
  <2>9. CASE Parse(k)
    BY <1>0, <1>2, <2>9, ParseStep
  <2>10. CASE Analyze(k)
    BY <1>0, <1>2, <2>10, AnalyzeStep
  <2>11. CASE Execute(k)
    BY <1>0, <1>2, <2>11, ExecuteStep
  <2>12. CASE Answer(k)
    BY <1>0, <1>2, <2>12, AnswerStep
  <2>13. CASE SecondAnswer(k)
    BY <1>0, <1>2, <2>13, SecondAnswerStep
  <2>14. CASE CommitUnlock(k)
    BY <1>0, <1>2, <2>14, CommitUnlockStep
  <2>15. CASE CommitFlush(k)
    BY <1>0, <1>2, <2>15, CommitFlushStep
  <2>16. CASE CommitFinish(k)
    BY <1>0, <1>2, <2>16, CommitFinishStep
  <2>17. CASE Abort(k)
    BY <1>0, <1>2, <2>17, AbortStep
  <2>18. CASE CommitFails(k)
    BY <1>0, <1>2, <2>18, CommitFailsStep
  <2>19. CASE UndoFails(k)
    BY <1>0, <1>2, <2>19, UndoFailsStep
  <2>20. CASE CommitLog(k)
    BY <1>0, <1>2, <2>20, CommitLogStep
  <2> QED BY <1>8, <2>20, <2>1, <2>2, <2>3, <2>4, <2>5, <2>6, <2>7, <2>8, <2>9, <2>10, <2>11, <2>12, <2>13, <2>14, <2>15, <2>16, <2>17, <2>18, <2>19
<1> QED BY <1>3, <1>4, <1>5, <1>51, <1>6, <1>7, <1>8 DEF Next, Handler, Failure, CrashCommand, Stop, Kill

(* The invariant of every session holds in every reachable state, for any  *)
(* number of clients, statements, failures and restarts (client_handler,   *)
(* start_server, TransactionManager::commit and abort).                    *)
THEOREM ServerInvariant == Spec => []IInv
<1> QED BY InitInv, StepInv, PTL DEF Spec

(* Descriptors, statements and transactions are each used by the session   *)
(* they belong to, and get_transaction never fails its assertion.          *)
THEOREM SessionsApartAlways == Spec => []SessionsApart
<1>1. IInv => SessionsApart
  <2> SUFFICES ASSUME IInv PROVE SessionsApart
    OBVIOUS
  <2>1. OwnStatement /\ NeverAsserts
    BY DEF IInv, Types, SessionInv, SocketInv, StatementInv, OwnStatement, NeverAsserts
  <2>2. \A k \in Client : /\ thread[k].answer \in Text /\ thread[k].fd \in Client \cup {None}
                           /\ thread[k].wrote \subseteq Change
    BY DEF IInv, SessionInv, SessionTypes, Of, Change
  <2>3. \A c \in Client : \A i \in DOMAIN replies[c] : replies[c][i] \in [n: 1..MaxStmts[c], text: Text]
    <3> SUFFICES ASSUME NEW c \in Client, NEW i \in DOMAIN replies[c] PROVE replies[c][i] \in Reply(c)
      BY DEF Reply
    <3>1. replies[c] \in Seq(Reply(c))
      BY DEF IInv, SessionInv, SessionTypes
    <3> QED BY <3>1
  <2>4. TypeOK
    BY <2>2, <2>3 DEF IInv, Types, TypeOK
  <2> QED BY <2>1, <2>4 DEF SessionsApart
<1> QED BY <1>1, ServerInvariant, PTL

(* A change a client was told of is on disk, or on its way there, or was   *)
(* lost with the process or with a commit that failed after the answer.    *)
THEOREM ToldIsLoggedAlways == Spec => []ToldIsLogged
<1>1. IInv => ToldIsLogged
  <2> SUFFICES ASSUME IInv, NEW u \in told
               PROVE  \/ u \in logged \cup lost \/ u[1] \in twice
                      \/ \E k \in Client : thread[k].auto /\ u \in thread[k].wrote
    BY DEF ToldIsLogged
  <2>1. u[1] \in Client /\ u \in Of(u[1])
    BY DEF IInv, Types, Change, Of
  <2> QED BY <2>1 DEF IInv, SessionInv, ToldInv
<1> QED BY <1>1, ServerInvariant, PTL

(* A change a client was told is not made has no effect, with the          *)
(* exceptions of a commit or a rollback that failed half-way.              *)
THEOREM RefusedHasNoEffectAlways == Spec => []RefusedHasNoEffect
<1>1. IInv => RefusedHasNoEffect
  <2> SUFFICES ASSUME IInv, NEW u \in refused
               PROVE  /\ u \in logged => u \in ghosts \/ u[1] \in twice
                      /\ u \in applied => u \in ghosts \cup stuck \/ u[1] \in twice
    BY DEF RefusedHasNoEffect
  <2>1. u[1] \in Client /\ u \in Of(u[1])
    BY DEF IInv, Types, Change, Of
  <2> QED BY <2>1 DEF IInv, SessionInv, RefusedInv, NoEffect
<1> QED BY <1>1, ServerInvariant, PTL

(* Every transaction in txn_map, and the lock, has an owner who can end    *)
(* it, unless its client left or its rollback failed.                      *)
THEOREM NothingLeaksAlways == Spec => []NothingLeaks
<1>1. IInv => NothingLeaks
  <2> SUFFICES ASSUME IInv, NEW id \in txn_map \cup ({lock} \ {None})
               PROVE  \/ Id(id[1]) = id /\ (thread[id[1]].at \in Busy \/ thread[id[1]].mode)
                      \/ thread[id[1]].at = "ended" \/ id \in leaked
    BY DEF NothingLeaks
  <2> DEFINE k == id[1]
  <2>1. k \in Client /\ id \in Of(k) /\ (id \in txn_map \/ lock = id)
    BY DEF IInv, Types, Change, Of
  <2>2. SessionInv(k)
    BY <2>1 DEF IInv
  <2> HIDE DEF k
  <2>3. id = Id(k) \/ thread[k].at = "ended" \/ id \in leaked
    BY <2>1, <2>2 DEF SessionInv, TxnInv
  <2>4. ASSUME id = Id(k), thread[k].at # "ended" PROVE thread[k].at \in Busy \/ thread[k].mode
    <3>1. thread[k].txn_id # 0
      BY <2>1, <2>4, ServerConstants DEF Of, Id
    <3>2. thread[k].ctx
      BY <2>2, <3>1 DEF SessionInv, ContextInv
    <3> QED BY <2>2, <2>4, <3>2 DEF SessionInv, SessionTypes, SocketInv, ContextInv, Steps
  <2> QED BY <2>3, <2>4 DEF k
<1> QED BY <1>1, ServerInvariant, PTL

(* An answer on its way belongs to the statement its client waits for.     *)
THEOREM AnswerMatchesAlways == Spec => []AnswerMatches
<1>1. IInv => AnswerMatches
  <2> SUFFICES ASSUME IInv, NEW c \in Client, c \notin twice, conn[c] = "open", replies[c] # <<>>
               PROVE  client[c].waits /\ Len(replies[c]) = 1 /\ replies[c][1].n = client[c].n
    BY DEF AnswerMatches
  <2> QED BY DEF IInv, SessionInv, InStep, PhaseInv
<1> QED BY <1>1, ServerInvariant, PTL
=============================================================================
