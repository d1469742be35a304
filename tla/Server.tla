------------------------------- MODULE Server -------------------------------
(***************************************************************************)
(* The server process (rmdb.cpp): the accept loop, one thread per client,  *)
(* the statement loop of client_handler with the implicit and explicit     *)
(* transactions it opens and ends (run_cmd_utility of                      *)
(* execution_manager.cpp, begin/commit/abort of transaction_manager.cpp),  *)
(* and the client of rmdb_client/main.cpp, which sends a statement, waits  *)
(* for its answer and may go away at any time.                             *)
(*                                                                         *)
(* A statement is its kind and number.  A "write" needs one lock that all  *)
(* of them share and is refused at once if another transaction holds it    *)
(* (LockManager, Transactions); what it changes is one member of a set.    *)
(***************************************************************************)
EXTENDS Naturals, Sequences, SequencesExt, FiniteSets

CONSTANTS
  Client,       \* clients; each connects once
  Kinds,        \* the kinds of statement each client sends
  MaxStmts,     \* bound: statements of each client
  MaxTrouble,   \* bound: failing calls, clients that leave, signals
  None

Kind == {"begin", "commit", "rollback", "write", "wrong", "bad", "crash"}

(* A statement on its way: what it asks for, who sent it, its number.      *)
Statement == [kind: Kind, from: Client, n: Nat]

ASSUME ServerConstants ==
  /\ MaxTrouble \in Nat /\ MaxStmts \in [Client -> Nat]
  /\ Kinds \in [Client -> SUBSET Kind] /\ None \notin Client \cup Statement \cup (Client \X Nat)

VARIABLES
  server,        \* "up", "closing" (after SIGINT), "down", or "assert"
  sockfd,        \* start_server's local variable, handed to the thread by address
  sockfd_mutex,  \* is it locked?
  backlog,       \* connections that wait for accept()
  buffer_mutex,  \* the thread that holds it
  parse_tree,    \* ast::parse_tree, shared by all threads
  thread,        \* client_handler of every connection
  txn_map,       \* TransactionManager::txn_map
  lock,          \* the transaction that holds the lock
  applied,       \* changes in effect
  logged,        \* changes whose commit record is on disk
  buffered,      \* changes whose commit record is in the log buffer
  conn,          \* connection of every client: none, open, gone
  client,        \* the client: what it sent, whether it waits, what it knows
  request,       \* the statement on its way to the server
  replies,       \* answers on their way to the client
  trouble,       \* what went wrong so far: failed calls, clients that left, signals
  told, refused, \* history: changes a client may rely on, or was told are not made;
  lost,          \* changes announced whose commit was then not completed,
  ghosts,        \* changes of a commit that failed when its record was in the log already,
  stuck, leaked, \* changes, and transactions, that a failing rollback left behind,
  twice          \* clients that were sent two answers to one statement

accepting == <<sockfd, sockfd_mutex, backlog>>
parsing == <<buffer_mutex, parse_tree>>
log == <<logged, buffered>>
data == <<txn_map, lock, applied, log>>
net == <<conn, client, request, replies>>
history == <<told, refused, lost, ghosts, stuck, leaked, twice>>
vars == <<server, accepting, parsing, thread, data, net, trouble, history>>

NoThread == [at |-> "none", fd |-> None, stmt |-> None, query |-> None, answer |-> "ok", auto |-> FALSE,
             txn_id |-> 0, begun |-> 0, ctx |-> FALSE, mode |-> FALSE, wrote |-> {}]
NewClient == [n |-> 0, kind |-> None, waits |-> FALSE, open |-> FALSE, seen |-> {}]

Init ==
  /\ server = "up"
  /\ sockfd = None /\ sockfd_mutex = FALSE /\ backlog = {}
  /\ buffer_mutex = None /\ parse_tree = None
  /\ thread = [c \in Client |-> NoThread]
  /\ txn_map = {} /\ lock = None /\ applied = {} /\ logged = {} /\ buffered = {}
  /\ conn = [c \in Client |-> "none"]
  /\ client = [c \in Client |-> NewClient]
  /\ request = [c \in Client |-> None] /\ replies = [c \in Client |-> <<>>]
  /\ trouble = 0
  /\ told = {} /\ refused = {} /\ lost = {} /\ ghosts = {} /\ stuck = {} /\ leaked = {} /\ twice = {}

Alive == server \in {"up", "closing"}
Trouble == trouble < MaxTrouble /\ trouble' = trouble + 1

-----------------------------------------------------------------------------
(* The client.                                                             *)

Connect(c) ==
  /\ Alive /\ conn[c] = "none"
  /\ conn' = [conn EXCEPT ![c] = "open"]
  /\ backlog' = backlog \cup {c}
  /\ UNCHANGED <<server, sockfd, sockfd_mutex, parsing, thread, data, client, request, replies, trouble, history>>

Send(c, kind) ==
  /\ Alive /\ conn[c] = "open" /\ ~client[c].waits /\ client[c].n < MaxStmts[c]
  /\ client' = [client EXCEPT ![c].n = @ + 1, ![c].kind = kind, ![c].waits = TRUE]
  /\ request' = [request EXCEPT ![c] = [kind |-> kind, from |-> c, n |-> client[c].n + 1]]
  /\ UNCHANGED <<server, accepting, parsing, thread, data, conn, replies, trouble, history>>

(* What an answer tells: after "ok" a change outside a transaction is made *)
(* and COMMIT has made all changes since BEGIN.  Any other answer, except  *)
(* the empty one for a syntax error, ends the transaction; what it changed *)
(* and what the refused statement asked for is not made.                   *)
Learns(c, text) ==
  LET kind == client[c].kind
      asked == IF kind = "write" THEN {<<c, client[c].n>>} ELSE {}
      open == client[c].open \/ kind = "begin"
      ends == text \notin {"ok", "empty"} \/ kind \in {"commit", "rollback"}
      made == IF text = "ok" THEN client[c].seen \cup asked ELSE client[c].seen
      commits == text = "ok" /\ (kind = "commit" \/ ~open)
  IN
  /\ told' = IF commits THEN told \cup made ELSE told
  /\ refused' = IF ends /\ ~commits THEN refused \cup client[c].seen \cup asked ELSE refused
  /\ client' = [client EXCEPT ![c].waits = FALSE, ![c].kind = None, ![c].open = open /\ ~ends,
                              ![c].seen = IF ends \/ commits THEN {} ELSE made]

(* recv() returns one or more answers that have arrived; the client prints *)
(* the first and forgets the rest.                                         *)
Receive(c) ==
  /\ conn[c] = "open" /\ client[c].waits /\ replies[c] # <<>>
  /\ \E n \in DOMAIN replies[c] : replies' = [replies EXCEPT ![c] = SubSeq(@, n + 1, Len(@))]
  /\ Learns(c, Head(replies[c]).text)
  /\ UNCHANGED <<server, accepting, parsing, thread, data, conn, request, trouble, lost, ghosts, stuck, leaked, twice>>

(* The client ends, or its connection breaks.                              *)
Leave(c) ==
  /\ Alive /\ conn[c] = "open"
  /\ Trouble
  /\ conn' = [conn EXCEPT ![c] = "gone"]
  /\ UNCHANGED <<server, accepting, parsing, thread, data, client, request, replies, history>>

-----------------------------------------------------------------------------
(* start_server: lock sockfd_mutex, accept, hand the descriptor to a new   *)
(* thread, which unlocks the mutex.                                        *)

Accept(c) ==
  /\ server = "up" /\ ~sockfd_mutex /\ c \in backlog
  /\ sockfd_mutex' = TRUE
  /\ sockfd' = c /\ backlog' = backlog \ {c}
  /\ thread' = [thread EXCEPT ![c].at = "spawned"]
  /\ UNCHANGED <<server, parsing, data, net, trouble, history>>

(* accept() fails: the loop continues with the mutex locked.               *)
AcceptFails ==
  /\ server = "up" /\ ~sockfd_mutex
  /\ Trouble
  /\ sockfd_mutex' = TRUE
  /\ UNCHANGED <<server, sockfd, backlog, parsing, thread, data, net, history>>

(* Mutant: the mutex is unlocked before the descriptor is read.           *)
TakeSocket_UnlockFirst(k) ==
  /\ Alive /\ thread[k].at = "spawned"
  /\ IF sockfd_mutex THEN sockfd_mutex' = FALSE /\ UNCHANGED thread
     ELSE thread' = [thread EXCEPT ![k].fd = sockfd, ![k].at = "read"] /\ UNCHANGED sockfd_mutex
  /\ UNCHANGED <<server, sockfd, backlog, parsing, data, net, trouble, history>>

(* client_handler reads the descriptor through the pointer.                *)
TakeSocket(k) ==
  /\ Alive /\ thread[k].at = "spawned"
  /\ thread' = [thread EXCEPT ![k].fd = sockfd, ![k].at = "read"]
  /\ sockfd_mutex' = FALSE
  /\ UNCHANGED <<server, sockfd, backlog, parsing, data, net, trouble, history>>

(* SIGINT leaves the loop, and so does a thread that cannot be made; the   *)
(* clients' threads run on while close_db is under way.                    *)
Shutdown ==
  /\ server = "up"
  /\ Trouble
  /\ server' = "closing"
  /\ UNCHANGED <<accepting, parsing, thread, data, net, history>>

ThreadFails(c) ==
  /\ server = "up" /\ ~sockfd_mutex /\ c \in backlog
  /\ Trouble
  /\ sockfd_mutex' = TRUE /\ sockfd' = c /\ backlog' = backlog \ {c}
  /\ server' = "closing"
  /\ UNCHANGED <<parsing, thread, data, net, history>>

(* flush_log_to_disk writes all of the buffer and then empties it: if      *)
(* write_log throws, everything stays in the buffer for the next flush,    *)
(* whoever calls it.                                                       *)
FlushLog == logged' = logged \cup buffered /\ buffered' = {}

(* The process ends.  A thread between its answer and the end of the       *)
(* commit has announced what may not be on disk.                           *)
Ended ==
  /\ server' = "down"
  /\ lost' = lost \cup UNION {thread[k].wrote : k \in {k \in Client : thread[k].auto}}
  /\ UNCHANGED <<accepting, parsing, thread, txn_map, lock, applied, net, told, refused, ghosts, stuck, leaked, twice>>

Stop == server = "closing" /\ Ended /\ UNCHANGED <<log, trouble>>
Kill == server = "up" /\ Ended /\ Trouble /\ UNCHANGED log

(* Recovery keeps what the log on disk has; the connections are gone.      *)
Restart ==
  /\ ~Alive /\ server # "assert"
  /\ server' = "up"
  /\ sockfd' = None /\ sockfd_mutex' = FALSE /\ backlog' = {}
  /\ buffer_mutex' = None /\ parse_tree' = None
  /\ thread' = [c \in Client |-> NoThread]
  /\ txn_map' = {} /\ lock' = None
  /\ applied' = logged /\ UNCHANGED logged /\ buffered' = {}
  /\ conn' = [c \in Client |-> IF conn[c] = "none" THEN "none" ELSE "gone"]
  /\ request' = [c \in Client |-> None]
  /\ UNCHANGED <<client, replies, trouble, history>>

-----------------------------------------------------------------------------
(* client_handler.                                                         *)

Goto(k, step) == thread' = [thread EXCEPT ![k].at = step]
Loop(k) == thread' = [thread EXCEPT ![k].at = "read", ![k].stmt = None, ![k].query = None, ![k].answer = "ok"]
At(k, step) == Alive /\ thread[k].at = step
Id(k) == <<k, thread[k].txn_id>>

(* read() returns 0: the loop ends, whatever transaction is open.          *)
ReadNothing(k) ==
  /\ At(k, "read") /\ conn[thread[k].fd] = "gone" /\ request[thread[k].fd] = None
  /\ Goto(k, "ended")
  /\ UNCHANGED <<server, accepting, parsing, data, net, trouble, history>>

(* TransactionManager::begin: the next id (0 stands for INVALID_TXN_ID).   *)
NewId(k) == thread[k].begun + 1

(* A statement arrives.  SetTransaction: without a transaction an implicit *)
(* one begins; get_transaction asserts that txn_id is in txn_map.          *)
ReadStatement(k) ==
  LET c == thread[k].fd
      taken == [thread EXCEPT ![k].at = "parse", ![k].stmt = request[c], ![k].query = None,
                              ![k].answer = "ok", ![k].ctx = TRUE]
  IN
  /\ At(k, "read") /\ request[c] # None /\ request[c].kind # "crash"
  /\ request' = [request EXCEPT ![c] = None]
  /\ IF thread[k].txn_id = 0
       THEN /\ thread' = [taken EXCEPT ![k].begun = @ + 1, ![k].txn_id = NewId(k),
                                       ![k].mode = FALSE, ![k].wrote = {}]
            /\ txn_map' = txn_map \cup {<<k, NewId(k)>>}
            /\ UNCHANGED server
       ELSE /\ thread' = taken
            /\ server' = IF Id(k) \in txn_map THEN server ELSE "assert"
            /\ UNCHANGED txn_map
  /\ UNCHANGED <<accepting, parsing, lock, applied, log, conn, client, replies, trouble, history>>

(* The crash command writes the log before it exits.                       *)
CrashCommand(k) ==
  /\ At(k, "read") /\ request[thread[k].fd] # None /\ request[thread[k].fd].kind = "crash"
  /\ FlushLog /\ Ended /\ UNCHANGED trouble

(* Mutant: the mutex is unlocked right after yyparse.                     *)
Parse_Unlock(k) ==
  /\ At(k, "parse") /\ buffer_mutex = None
  /\ parse_tree' = thread[k].stmt
  /\ Goto(k, IF thread[k].stmt.kind = "bad" THEN "reply" ELSE "analyze")
  /\ UNCHANGED <<server, accepting, buffer_mutex, data, net, trouble, history>>

(* buffer_mutex is held from yyparse to the end of do_analyze; after a     *)
(* syntax error the answer is empty and the transaction goes on.           *)
Parse(k) ==
  /\ At(k, "parse") /\ buffer_mutex = None
  /\ IF thread[k].stmt.kind = "bad"
       THEN /\ thread' = [thread EXCEPT ![k].at = "reply", ![k].answer = "empty"]
            /\ UNCHANGED <<buffer_mutex, parse_tree>>
       ELSE /\ buffer_mutex' = k /\ parse_tree' = thread[k].stmt
            /\ Goto(k, "analyze")
  /\ UNCHANGED <<server, accepting, data, net, trouble, history>>

(* do_analyze reads the shared tree, which nobody reads again.  An         *)
(* RMDBError rolls the transaction back before the mutex is unlocked.      *)
Analyze(k) ==
  /\ At(k, "analyze")
  /\ \/ /\ thread' = [thread EXCEPT ![k].at = "execute", ![k].query = parse_tree]
        /\ buffer_mutex' = None
     \/ /\ parse_tree.kind = "wrong"
        /\ thread' = [thread EXCEPT ![k].at = "undo", ![k].query = parse_tree, ![k].answer = "error"]
        /\ UNCHANGED buffer_mutex
  /\ parse_tree' = None
  /\ UNCHANGED <<server, accepting, data, net, trouble, history>>

(* The statements.  COMMIT and ROLLBACK, explicit or not, end the current  *)
(* transaction before the answer.                                          *)
Free(k) == lock \in {None, Id(k)}
Execute(k) ==
  LET q == thread[k].query IN
  /\ At(k, "execute")
  /\ \/ /\ q.kind = "begin"
        /\ thread' = [thread EXCEPT ![k].at = "reply", ![k].mode = TRUE]
        /\ UNCHANGED <<lock, applied>>
     \/ /\ q.kind = "commit" /\ Goto(k, "unlock")
        /\ UNCHANGED <<lock, applied>>
     \/ /\ q.kind = "rollback" /\ Goto(k, "undo")
        /\ UNCHANGED <<lock, applied>>
     \/ /\ q.kind = "wrong"
        /\ thread' = [thread EXCEPT ![k].at = "undo", ![k].answer = "error"]
        /\ UNCHANGED <<lock, applied>>
     \/ /\ q.kind = "write" /\ ~Free(k)
        /\ thread' = [thread EXCEPT ![k].at = "undo", ![k].answer = "abort"]
        /\ UNCHANGED <<lock, applied>>
     \/ /\ q.kind = "write" /\ Free(k)
        /\ lock' = Id(k)
        /\ applied' = applied \cup {<<q.from, q.n>>}
        /\ thread' = [thread EXCEPT ![k].at = "reply", ![k].wrote = @ \cup {<<q.from, q.n>>}]
  /\ UNCHANGED <<server, accepting, parsing, txn_map, log, net, trouble, history>>

(* write() of the answer.  Then an implicit transaction is committed.      *)
AfterAnswer(k) ==
  IF thread[k].ctx /\ ~thread[k].mode
    THEN thread' = [thread EXCEPT ![k].at = "unlock", ![k].auto = TRUE]
    ELSE Loop(k)

Answer(k) ==
  LET c == thread[k].fd IN
  /\ At(k, "reply") /\ conn[c] = "open"
  /\ replies' = [replies EXCEPT ![c] = Append(@, [n |-> thread[k].stmt.n, text |-> thread[k].answer])]
  /\ AfterAnswer(k)
  /\ UNCHANGED <<server, accepting, parsing, data, conn, client, request, trouble, history>>

(* The client is gone: write() may still succeed, return -1 and end the    *)
(* loop, or raise SIGPIPE, which ends the process.                         *)
AnswerNobody(k) ==
  /\ Alive /\ thread[k].at \in {"reply", "failure"} /\ conn[thread[k].fd] = "gone"
  /\ \/ /\ AfterAnswer(k)
        /\ UNCHANGED <<server, accepting, parsing, data, net, history>>
     \/ /\ Goto(k, "ended")
        /\ UNCHANGED <<server, accepting, parsing, data, net, history>>
     \/ Ended /\ UNCHANGED log
  /\ UNCHANGED trouble

-----------------------------------------------------------------------------
(* TransactionManager::commit: the locks, the log, the pages.              *)

Forget(k, step) == [thread EXCEPT ![k].at = step, ![k].auto = FALSE, ![k].txn_id = 0, ![k].ctx = FALSE,
                                  ![k].mode = FALSE, ![k].wrote = {}]

CommitUnlock(k) ==
  /\ At(k, "unlock")
  /\ lock' = IF lock = Id(k) THEN None ELSE lock
  /\ Goto(k, "log")
  /\ UNCHANGED <<server, accepting, parsing, txn_map, applied, log, net, trouble, history>>

(* add_log_to_buffer appends the COMMIT record.                            *)
CommitLog(k) ==
  /\ At(k, "log")
  /\ buffered' = buffered \cup thread[k].wrote
  /\ Goto(k, "flush")
  /\ UNCHANGED <<server, accepting, parsing, txn_map, lock, applied, logged, net, trouble, history>>

(* add_log_to_buffer finds the buffer full, and writes it, before it       *)
(* appends a BEGIN, a change, a COMMIT or an ABORT.                        *)
FullBuffer(k) ==
  /\ buffered # {}
  /\ \/ At(k, "read") /\ request[thread[k].fd] # None /\ thread[k].txn_id = 0
     \/ At(k, "execute") /\ thread[k].query.kind = "write" /\ Free(k)
     \/ At(k, "log") \/ At(k, "undo")
  /\ FlushLog
  /\ UNCHANGED <<server, accepting, parsing, thread, txn_map, lock, applied, net, trouble, history>>

(* Mutant: the commit record stays in the log buffer.                     *)
CommitFlush_Skip(k) ==
  /\ At(k, "flush")
  /\ Goto(k, "finish")
  /\ UNCHANGED <<server, accepting, parsing, data, net, trouble, history>>

CommitFlush(k) ==
  /\ At(k, "flush")
  /\ FlushLog
  /\ Goto(k, "finish")
  /\ UNCHANGED <<server, accepting, parsing, txn_map, lock, applied, net, trouble, history>>

(* Mutant: COMMIT does not reset txn_id.                                  *)
CommitFinish_KeepId(k) ==
  /\ At(k, "finish")
  /\ txn_map' = txn_map \ {Id(k)}
  /\ thread' = [Forget(k, IF thread[k].auto THEN "read" ELSE "reply") EXCEPT ![k].txn_id = thread[k].txn_id]
  /\ UNCHANGED <<server, accepting, parsing, lock, applied, log, net, trouble, history>>

(* Mutant: an automatic commit is answered as well.                       *)
CommitFinish_Reply(k) ==
  /\ At(k, "finish")
  /\ txn_map' = txn_map \ {Id(k)}
  /\ thread' = Forget(k, "reply")
  /\ UNCHANGED <<server, accepting, parsing, lock, applied, log, net, trouble, history>>

CommitFinish(k) ==
  /\ At(k, "finish")
  /\ txn_map' = txn_map \ {Id(k)}
  /\ thread' = Forget(k, IF thread[k].auto THEN "read" ELSE "reply")
  /\ UNCHANGED <<server, accepting, parsing, lock, applied, log, net, trouble, history>>

(* Writing the log or a page fails: the handler calls abort on a           *)
(* transaction that has released its locks.  Its COMMIT record is not in   *)
(* the log only if a full buffer could not be written; else it is on disk, *)
(* or still in the buffer, which abort's own flush writes.                 *)
CommitFails(k) ==
  /\ At(k, "log") \/ At(k, "flush") \/ At(k, "finish")
  /\ Trouble
  /\ thread' = [thread EXCEPT ![k].at = "undo", ![k].answer = "error"]
  /\ lost' = IF thread[k].auto THEN lost \cup thread[k].wrote ELSE lost
  /\ ghosts' = IF thread[k].at = "log" THEN ghosts ELSE ghosts \cup thread[k].wrote
  /\ UNCHANGED <<server, accepting, parsing, data, net, told, refused, stuck, leaked, twice>>

(* Mutant: abort keeps its locks.                                         *)
Released_Keep(k) == lock

Released(k) == IF lock = Id(k) THEN None ELSE lock

(* Mutant: the parser's mutex stays locked after an error.                *)
AfterUndo_KeepMutex(k) ==
  /\ thread' = Forget(k, IF thread[k].auto THEN "failure" ELSE "reply")
  /\ UNCHANGED buffer_mutex

(* txn_id and context->txn_ are reset and buffer_mutex is unlocked.  After *)
(* a failed auto-commit a second answer follows.                           *)
AfterUndo(k) ==
  /\ thread' = Forget(k, IF thread[k].auto THEN "failure" ELSE "reply")
  /\ buffer_mutex' = IF buffer_mutex = k THEN None ELSE buffer_mutex

(* Mutant: the changes of the write set are not undone.                   *)
Abort_KeepChanges(k) ==
  /\ At(k, "undo")
  /\ lock' = Released(k)
  /\ FlushLog
  /\ txn_map' = txn_map \ {Id(k)}
  /\ AfterUndo(k)
  /\ UNCHANGED <<server, accepting, parse_tree, applied, net, trouble, history>>

(* TransactionManager::abort: the write set, the locks, the log, txn_map.  *)
Abort(k) ==
  /\ At(k, "undo")
  /\ applied' = applied \ thread[k].wrote
  /\ lock' = Released(k)
  /\ FlushLog
  /\ txn_map' = txn_map \ {Id(k)}
  /\ AfterUndo(k)
  /\ UNCHANGED <<server, accepting, parse_tree, net, trouble, history>>

(* abort throws: either while it undoes change u, which is off the write   *)
(* set by then, or after the locks are released, when it writes the log.   *)
(* ROLLBACK comes here once more, with what is left of the write set       *)
(* (RMDBError); any other caller swallows the exception, and nobody knows  *)
(* the transaction any more.                                               *)
UndoFails(k) ==
  LET mine == thread[k].wrote IN
  /\ At(k, "undo")
  /\ Trouble
  /\ \E at \in mine \cup {None} :
       LET left == IF at = None THEN {} ELSE {u \in mine : u[2] < at[2]}
           done == IF at = None THEN mine ELSE {u \in mine : u[2] > at[2]}
       IN
       /\ applied' = applied \ done
       /\ lock' = IF at = None THEN Released(k) ELSE lock
       /\ IF thread[k].answer = "ok"
            THEN /\ thread' = [thread EXCEPT ![k].wrote = left, ![k].answer = "error"]
                 /\ stuck' = stuck \cup (mine \ (left \cup done))
                 /\ UNCHANGED <<buffer_mutex, leaked>>
            ELSE /\ AfterUndo(k)
                 /\ stuck' = stuck \cup (mine \ done)
                 /\ leaked' = leaked \cup {Id(k)}
  /\ UNCHANGED <<server, accepting, parse_tree, txn_map, log, net, told, refused, lost, ghosts, twice>>

SecondAnswer(k) ==
  LET c == thread[k].fd IN
  /\ At(k, "failure") /\ conn[c] = "open"
  /\ replies' = [replies EXCEPT ![c] = Append(@, [n |-> thread[k].stmt.n, text |-> "failure"])]
  /\ twice' = twice \cup {c}
  /\ AfterAnswer(k)
  /\ UNCHANGED <<server, accepting, parsing, data, conn, client, request, trouble, told, refused, lost, ghosts, stuck, leaked>>

-----------------------------------------------------------------------------
Handler(k) ==
  \/ TakeSocket(k) \/ ReadNothing(k) \/ ReadStatement(k) \/ CrashCommand(k)
  \/ Parse(k) \/ Analyze(k) \/ Execute(k) \/ Answer(k) \/ AnswerNobody(k)
  \/ CommitUnlock(k) \/ CommitLog(k) \/ CommitFlush(k) \/ CommitFinish(k) \/ Abort(k) \/ SecondAnswer(k)

Failure(k) == CommitFails(k) \/ UndoFails(k) \/ ThreadFails(k)

Next ==
  \/ \E c \in Client :
       \/ Connect(c) \/ Receive(c) \/ Leave(c) \/ \E kind \in Kinds[c] : Send(c, kind)
       \/ Accept(c) \/ Handler(c) \/ FullBuffer(c) \/ Failure(c)
  \/ AcceptFails \/ Shutdown \/ Stop \/ Kill \/ Restart

(* Threads are scheduled and the accept loop runs.  A thread that waits    *)
(* for buffer_mutex gets it when the others, who hold it for a few steps   *)
(* per statement, have sent what they send.                                *)
Fairness == WF_vars(\E c \in Client : Accept(c)) /\ \A c \in Client : WF_vars(Handler(c))

Spec == Init /\ [][Next]_vars /\ Fairness

-----------------------------------------------------------------------------
(* Statements of a client, and so changes and transactions, are numbered.   *)
Change == UNION {{c} \X (1..MaxStmts[c]) : c \in Client}
Text == {"ok", "empty", "abort", "error", "failure"}

TypeOK ==
  /\ server \in {"up", "closing", "down", "assert"}
  /\ sockfd \in Client \cup {None} /\ backlog \subseteq Client /\ sockfd_mutex \in BOOLEAN
  /\ buffer_mutex \in Client \cup {None}
  /\ \A k \in Client : /\ thread[k].answer \in Text /\ thread[k].fd \in Client \cup {None}
                       /\ thread[k].wrote \subseteq Change
  /\ txn_map \subseteq Change /\ lock \in {None} \cup Change
  /\ applied \subseteq Change /\ logged \subseteq Change /\ buffered \subseteq Change
  /\ \A c \in Client : \A i \in DOMAIN replies[c] : replies[c][i] \in [n: 1..MaxStmts[c], text: Text]

Busy == {"parse", "analyze", "execute", "reply", "unlock", "log", "flush", "finish", "undo", "failure"}

(* Every connection has its own thread, and a thread executes exactly the  *)
(* statement its client sent: neither the descriptor nor the parse tree,   *)
(* both shared, can be another client's.                                   *)
OwnStatement ==
  \A k \in Client :
    /\ thread[k].at \notin {"none", "spawned"} => thread[k].fd = k
    /\ thread[k].at = "execute" => thread[k].query = thread[k].stmt

(* get_transaction never fails its assertion: txn_id always names a        *)
(* transaction of this thread in txn_map, however the last statement ended.*)
NeverAsserts == server # "assert"

(* Sessions stay apart: descriptors, statements and transactions are each  *)
(* used by the thread they belong to (client_handler, SetTransaction).     *)
SessionsApart == TypeOK /\ OwnStatement /\ NeverAsserts

(* A change the client was told of (an "ok" outside a transaction, or      *)
(* after COMMIT) is on disk.  A single statement is answered before its    *)
(* commit: it may still be on its way there, and is lost when the process  *)
(* ends or the commit fails in between.                                    *)
ToldIsLogged ==
  \A u \in told : \/ u \in logged \cup lost
                  \/ u[1] \in twice
                  \/ \E k \in Client : thread[k].auto /\ u \in thread[k].wrote

(* A change the client was told is not made (its statement failed, or its  *)
(* transaction was rolled back) has no effect, now or after a restart.     *)
(* Exceptions: a commit that fails when its record is in the log, on disk  *)
(* or in the buffer that any session's next flush writes (the next start   *)
(* repeats it), and a change that a failing rollback skipped.              *)
RefusedHasNoEffect ==
  Alive => \A u \in refused : /\ u \in logged => u \in ghosts \/ u[1] \in twice
                              /\ u \in applied => u \in ghosts \cup stuck \/ u[1] \in twice

(* The lock, and every transaction in txn_map, has an owner who can end    *)
(* it: a thread that is executing a statement, or that waits for the next  *)
(* one of an explicit transaction.  It is left behind only by a client     *)
(* that went away and by a rollback that failed.                           *)
NothingLeaks ==
  Alive => \A id \in txn_map \cup ({lock} \ {None}) :
    LET k == id[1] IN
    \/ Id(k) = id /\ (thread[k].at \in Busy \/ thread[k].mode)
    \/ thread[k].at = "ended" \/ id \in leaked

(* An answer belongs to the statement the client is waiting for, also when *)
(* several arrive at once; only after a failed auto-commit, which is       *)
(* answered twice, are the client and the server out of step.              *)
AnswerMatches ==
  \A c \in Client : c \notin twice /\ conn[c] = "open" /\ replies[c] # <<>> =>
    client[c].waits /\ Len(replies[c]) = 1 /\ replies[c][1].n = client[c].n

(* A client that connects and sends a statement is answered, whatever the  *)
(* other sessions do, unless its connection or the process ends first.     *)
(* Only a client that is not accepted yet may wait for ever: when accept() *)
(* has failed, the loop waits for a mutex that no thread will unlock, and  *)
(* after SIGINT nobody accepts.                                            *)
Jammed == sockfd_mutex /\ \A c \in Client : thread[c].at # "spawned"
Answered ==
  \A c \in Client : (conn[c] = "open" /\ request[c] # None)
    ~> \/ replies[c] # <<>> \/ conn[c] = "gone" \/ ~Alive
       \/ thread[c].at = "none" /\ (Jammed \/ server = "closing")
=============================================================================
