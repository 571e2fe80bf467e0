----------------------------- MODULE Sj3Server -----------------------------
(***************************************************************************)
(* The sj3serv process: the select loop of comuni.c that serves the        *)
(* clients one at a time, the session, dictionary, study-file and lock     *)
(* requests of execute.c, and the reference-counted table of open files of *)
(* sdepend.c.                                                              *)
(*                                                                         *)
(* A client is named by its file descriptor, which the kernel reuses after *)
(* close().  A dictionary or a study file is named by its inode, the key   *)
(* search_same_dict and search_same_stdy look it up by.  What a dictionary *)
(* contains is abstracted to one bit per dictionary that flips whenever a  *)
(* word is added or removed.                                               *)
(***************************************************************************)
EXTENDS Integers, Sequences, FiniteSets

CONSTANTS
    Fd,           \* descriptors accept() may return
    ListenFd,     \* fd_unix, the listening socket
    Dict,         \* dictionary files (inodes)
    Stdy,         \* study files (inodes)
    NoStdy,       \* cli->stdy = NULL
    ReadOnly,     \* dictionaries whose maxunit is 0
    PreOpened,    \* open_dict entries: the list of global_work_base
    PreLoaded,    \* read_dict entries: loaded once, never closed
    MaxClient,    \* min(MAXCLIENTNUM, max_client)
    MaxRefcnt,    \* bound: opens of one dictionary that TLC follows
    MaxBacklog    \* bound: connections waiting in the listen queue

ASSUME FdAssumption == /\ Fd \subseteq Nat /\ IsFiniteSet(Fd)
                       /\ ListenFd \in Nat \ Fd
ASSUME FileAssumption == /\ ReadOnly \subseteq Dict
                         /\ PreOpened \subseteq Dict
                         /\ PreLoaded \subseteq Dict
                         /\ NoStdy \notin Stdy
ASSUME BoundAssumption == /\ MaxClient \in Nat \ {0}
                          /\ MaxRefcnt \in Nat /\ MaxBacklog \in Nat

VARIABLES
    pc,           \* where communicate() is
    cur,          \* cur_client, as a position in the client list
    readfds,      \* the descriptors select() reported in this round
    client,       \* the client list, newest first
    client_num,
    fds_org,      \* the descriptors select() watches
    maxfds,
    work,         \* the clients whose cli->work is not NULL
    wlock,        \* wlock[c]: cli->work->lock
    dictlist,     \* dictlist[c]: the dictionaries of the client's Jdictlist
    stdy,         \* stdy[c]: cli->stdy
    refcnt,       \* refcnt[d]: DictFile.refcnt, 0 when not on dictlink
    lock,         \* lock[d]: the fd_set DictFile.lock
    srefcnt,      \* srefcnt[s]: StdyFile.refcnt, 0 when not on stdylink
    content,      \* content[d]: flips when a word is added or removed
    peer,         \* what the other end of a connection has done
    backlog       \* connections waiting to be accepted

loop    == <<pc, cur, readfds>>
table   == <<client, client_num, fds_org, maxfds>>
session == <<work, wlock, dictlist, stdy>>
files   == <<refcnt, lock, srefcnt, content>>
env     == <<peer, backlog>>
vars    == <<loop, table, session, files, env>>

NOTLOCKED == -1

\* "none": no connection; "idle": the client waits for input; "partial": part
\* of a request has been sent; "request": a whole request has been sent;
\* "last": a whole request has been sent and the client is gone; "eof": the
\* client is gone and no whole request is left to read.
PeerState == {"none", "idle", "partial", "request", "last", "eof"}

TypeOK ==
    /\ pc \in {"select", "walk", "flush", "connect", "exit"}
    /\ cur \in Nat \ {0}
    /\ readfds \subseteq Fd \cup {ListenFd}
    /\ client \in Seq(Fd)
    /\ client_num \in Int
    /\ fds_org \subseteq Fd \cup {ListenFd}
    /\ maxfds \in Nat
    /\ work \subseteq Fd
    /\ wlock \in [Fd -> Fd \cup {NOTLOCKED}]
    /\ dictlist \in [Fd -> SUBSET Dict]
    /\ stdy \in [Fd -> Stdy \cup {NoStdy}]
    /\ refcnt \in [Dict -> Int]
    /\ lock \in [Dict -> SUBSET Fd]
    /\ srefcnt \in [Stdy -> Int]
    /\ content \in [Dict -> {0, 1}]
    /\ peer \in [Fd -> PeerState]
    /\ backlog \in Nat

----------------------------------------------------------------------------
(* Helpers *)

One(b) == IF b THEN 1 ELSE 0

\* The open() and close() of a set of dictionaries, as refcnt++ and --refcnt.
Opened(rc, ds) == [d \in Dict |-> rc[d] + One(d \in ds)]
Closed(rc, ds) == [d \in Dict |-> rc[d] - One(d \in ds)]

lock_dict(lk, ds, c)   == [d \in Dict |-> IF d \in ds THEN lk[d] \cup {c} ELSE lk[d]]
unlock_dict(lk, ds, c) == [d \in Dict |-> IF d \in ds THEN lk[d] \ {c} ELSE lk[d]]

OpenedStdy(rc, s) == [x \in Stdy |-> rc[x] + One(x = s)]
closestdy(rc, s)  == [x \in Stdy |-> rc[x] - One(x = s)]

\* Mutant of clr_fd: the highest descriptor left, without the + 1.
clr_fd_highest(fd) ==
    IF maxfds = fd + 1
    THEN LET below == {g \in fds_org : g < fd}
         IN  IF below = {} THEN 0 ELSE CHOOSE g \in below : \A h \in below : h <= g
    ELSE maxfds

\* set_fd and clr_fd: the new maxfds.  clr_fd only looks for the next lower
\* watched descriptor when the highest one goes away.
set_fd(fd) == IF fd >= maxfds THEN fd + 1 ELSE maxfds
clr_fd(fd) ==
    IF maxfds = fd + 1
    THEN LET below == {g \in fds_org : g < fd}
         IN  IF below = {} THEN 0
             ELSE 1 + CHOOSE g \in below : \A h \in below : h <= g
    ELSE maxfds

\* The client list with its i-th element unlinked.
Unlink(s, i) == [j \in 1 .. Len(s) - 1 |-> IF j < i THEN s[j] ELSE s[j + 1]]

cur_client == client[cur]

\* Serve the client at the cursor: select() reported it and read() finds a
\* whole request.
Serving(c) ==
    /\ pc = "walk"
    /\ cur <= Len(client)
    /\ c = cur_client
    /\ c \in readfds
    /\ peer[c] \in {"request", "last"}

\* The reply is in putbuf; put_flush comes next.
Reply ==
    /\ pc' = "flush"
    /\ UNCHANGED <<cur, readfds, table, env>>

----------------------------------------------------------------------------
(* Initial state: socket_init, open_socket, preload_dict, preopen_dict *)

\* What preload_dict and preopen_dict have opened.
InitialRefcnt == [d \in Dict |-> One(d \in PreLoaded) + One(d \in PreOpened)]

Init ==
    /\ pc = "select" /\ cur = 1 /\ readfds = {}
    /\ client = <<>> /\ client_num = 0
    /\ fds_org = {ListenFd} /\ maxfds = ListenFd + 1
    /\ work = {}
    /\ wlock = [c \in Fd |-> NOTLOCKED]
    /\ dictlist = [c \in Fd |-> {}]
    /\ stdy = [c \in Fd |-> NoStdy]
    /\ refcnt = InitialRefcnt
    /\ lock = [d \in Dict |-> {}]
    /\ srefcnt = [s \in Stdy |-> 0]
    /\ content = [d \in Dict |-> 0]
    /\ peer = [c \in Fd |-> "none"]
    /\ backlog = 0

----------------------------------------------------------------------------
(* Requests.  Every handler reads all its arguments before it changes      *)
(* anything, so a client that dies while its request is read leaves no     *)
(* trace of it.                                                            *)

\* SJ3_CONNECT, when the user is accepted.  A refused user leaves a work area
\* nobody points to, which changes nothing any later request can see.
exec_connect(c) ==
    /\ Serving(c) /\ c \notin work
    /\ work' = work \cup {c}
    /\ wlock' = [wlock EXCEPT ![c] = NOTLOCKED]
    /\ dictlist' = [dictlist EXCEPT ![c] = {}]
    /\ Reply
    /\ UNCHANGED <<stdy, files>>

\* Mutant: the work area is freed without unlocking its dictionaries.
FreeWorkarea_locked(c) ==
    /\ refcnt' = Closed(refcnt, dictlist[c])
    /\ dictlist' = [dictlist EXCEPT ![c] = {}]
    /\ work' = work \ {c}
    /\ wlock' = [wlock EXCEPT ![c] = NOTLOCKED]
    /\ UNCHANGED lock

\* The end of a session: free_workarea unlocks and closes every dictionary of
\* its list.
FreeWorkarea(c) ==
    /\ refcnt' = Closed(refcnt, dictlist[c])
    /\ lock' = unlock_dict(lock, dictlist[c], c)
    /\ dictlist' = [dictlist EXCEPT ![c] = {}]
    /\ work' = work \ {c}
    /\ wlock' = [wlock EXCEPT ![c] = NOTLOCKED]

\* closestdy of the client's study file, if it has one.
DropStdy(c) ==
    /\ srefcnt' = closestdy(srefcnt, stdy[c])
    /\ stdy' = [stdy EXCEPT ![c] = NoStdy]

\* SJ3_DISCONNECT.  Without a session the study file is closed all the same
\* and the reply is SJ3_NotConnected.
exec_disconnect(c) ==
    /\ Serving(c)
    /\ DropStdy(c)
    /\ FreeWorkarea(c)
    /\ Reply
    /\ UNCHANGED content

\* The dictionaries a session takes over from global_work_base when it opens
\* a dictionary while its own list is empty.
Inherited(c) == IF dictlist[c] = {} THEN PreOpened ELSE {}

\* Mutant: the cells copied from global_work_base are not counted.
exec_opendict_uncounted(c, d) ==
    /\ Serving(c) /\ c \in work
    /\ refcnt[d] < MaxRefcnt
    /\ refcnt' = Opened(refcnt, {d})
    /\ dictlist' = [dictlist EXCEPT ![c] = @ \cup Inherited(c) \cup {d}]
    /\ LET fresh == [lock EXCEPT ![d] = IF refcnt[d] = 0 THEN {} ELSE @]
       IN  lock' = IF wlock[c] = c THEN lock_dict(fresh, {d} \ ReadOnly, c) ELSE fresh
    /\ Reply
    /\ UNCHANGED <<work, wlock, stdy, srefcnt, content>>

\* Mutant: the dictionary is opened without the lock its session holds.
exec_opendict_unlocked(c, d) ==
    /\ Serving(c) /\ c \in work
    /\ \A x \in Inherited(c) \cup {d} : refcnt[x] < MaxRefcnt
    /\ refcnt' = Opened(Opened(refcnt, {d}), Inherited(c))
    /\ dictlist' = [dictlist EXCEPT ![c] = @ \cup Inherited(c) \cup {d}]
    /\ lock' = [lock EXCEPT ![d] = IF refcnt[d] = 0 THEN {} ELSE @]
    /\ Reply
    /\ UNCHANGED <<work, wlock, stdy, srefcnt, content>>

\* SJ3_OPENDICT.  A dictionary that is not loaded starts with an empty lock
\* set (memset); the session's lock is put on the dictionary named in the
\* request, and on no other.
exec_opendict(c, d) ==
    /\ Serving(c) /\ c \in work
    /\ \A x \in Inherited(c) \cup {d} : refcnt[x] < MaxRefcnt
    /\ refcnt' = Opened(Opened(refcnt, {d}), Inherited(c))
    /\ dictlist' = [dictlist EXCEPT ![c] = @ \cup Inherited(c) \cup {d}]
    /\ LET fresh == [lock EXCEPT ![d] = IF refcnt[d] = 0 THEN {} ELSE @]
       IN  lock' = IF wlock[c] = c THEN lock_dict(fresh, {d} \ ReadOnly, c) ELSE fresh
    /\ Reply
    /\ UNCHANGED <<work, wlock, stdy, srefcnt, content>>

\* SJ3_OPENDICT when no list cell can be allocated for the dictionary: it is
\* closed again, and what was taken over from global_work_base stays.
exec_opendict_nomem(c, d) ==
    /\ Serving(c) /\ c \in work
    /\ d \notin dictlist[c] \cup Inherited(c)
    /\ \A x \in Inherited(c) : refcnt[x] < MaxRefcnt
    /\ refcnt' = Opened(refcnt, Inherited(c))
    /\ dictlist' = [dictlist EXCEPT ![c] = @ \cup Inherited(c)]
    /\ Reply
    /\ UNCHANGED <<work, wlock, stdy, lock, srefcnt, content>>

\* SJ3_CLOSEDICT
exec_closedict(c, d) ==
    /\ Serving(c) /\ c \in work /\ d \in dictlist[c]
    /\ lock' = unlock_dict(lock, {d}, c)
    /\ refcnt' = Closed(refcnt, {d})
    /\ dictlist' = [dictlist EXCEPT ![c] = @ \ {d}]
    /\ Reply
    /\ UNCHANGED <<work, wlock, stdy, srefcnt, content>>

\* SJ3_OPENSTDY.  No session is needed.
exec_openstdy(c, s) ==
    /\ Serving(c) /\ stdy[c] = NoStdy
    /\ srefcnt' = OpenedStdy(srefcnt, s)
    /\ stdy' = [stdy EXCEPT ![c] = s]
    /\ Reply
    /\ UNCHANGED <<work, wlock, dictlist, refcnt, lock, content>>

\* SJ3_CLOSESTDY
exec_closestdy(c) ==
    /\ Serving(c) /\ stdy[c] # NoStdy
    /\ DropStdy(c)
    /\ Reply
    /\ UNCHANGED <<work, wlock, dictlist, refcnt, lock, content>>

\* SJ3_LOCK: every dictionary of the session that can be written to.
exec_lock(c) ==
    /\ Serving(c) /\ c \in work
    /\ wlock[c] \in {NOTLOCKED, c}
    /\ wlock' = [wlock EXCEPT ![c] = c]
    /\ lock' = lock_dict(lock, dictlist[c] \ ReadOnly, c)
    /\ Reply
    /\ UNCHANGED <<work, dictlist, stdy, refcnt, srefcnt, content>>

\* Mutant: the session's lock is cleared to 0.
exec_unlock_zero(c) ==
    /\ Serving(c) /\ c \in work
    /\ wlock[c] = c
    /\ wlock' = [wlock EXCEPT ![c] = 0]
    /\ lock' = unlock_dict(lock, dictlist[c] \ ReadOnly, c)
    /\ Reply
    /\ UNCHANGED <<work, dictlist, stdy, refcnt, srefcnt, content>>

\* SJ3_UNLOCK
exec_unlock(c) ==
    /\ Serving(c) /\ c \in work
    /\ wlock[c] = c
    /\ wlock' = [wlock EXCEPT ![c] = NOTLOCKED]
    /\ lock' = unlock_dict(lock, dictlist[c] \ ReadOnly, c)
    /\ Reply
    /\ UNCHANGED <<work, dictlist, stdy, refcnt, srefcnt, content>>

\* is_dict_locked: any client's lock counts, the requester's own included.
is_dict_locked(d) == lock[d] # {}

\* SJ3_ADDDICT and SJ3_DELDICT (both encodings), when the word goes in or out.
exec_editdict(c, d) ==
    /\ Serving(c) /\ c \in work /\ d \in dictlist[c]
    /\ d \notin ReadOnly
    /\ ~is_dict_locked(d)
    /\ content' = [content EXCEPT ![d] = 1 - @]
    /\ Reply
    /\ UNCHANGED <<session, refcnt, lock, srefcnt>>

\* Every other request, and every request that is answered with an error:
\* none of the state modelled here changes.
exec_other(c) ==
    /\ Serving(c)
    /\ Reply
    /\ UNCHANGED <<session, files>>

\* server_terminate: close_socket, sj_closeall and exit; the kernel closes
\* every connection.
server_terminate ==
    /\ pc' = "exit" /\ cur' = 1 /\ readfds' = {}
    /\ client' = <<>> /\ client_num' = 0 /\ fds_org' = {} /\ maxfds' = 0
    /\ work' = {}
    /\ wlock' = [c \in Fd |-> NOTLOCKED]
    /\ dictlist' = [c \in Fd |-> {}]
    /\ stdy' = [c \in Fd |-> NoStdy]
    /\ refcnt' = [d \in Dict |-> 0]
    /\ lock' = [d \in Dict |-> {}]
    /\ srefcnt' = [s \in Stdy |-> 0]
    /\ peer' = [c \in Fd |-> "none"]
    /\ backlog' = 0
    /\ UNCHANGED content

\* Mutant: the client is unlinked and client_num keeps counting it.
disconnect_client_counted(c) ==
    /\ DropStdy(c)
    /\ FreeWorkarea(c)
    /\ fds_org' = fds_org \ {c}
    /\ maxfds' = clr_fd(c)
    /\ client' = Unlink(client, cur)
    /\ peer' = [peer EXCEPT ![c] = "none"]
    /\ pc' = "walk"
    /\ UNCHANGED <<client_num, cur, readfds, content, backlog>>

\* disconnect_client: give everything back, close the descriptor and unlink
\* the client; the walk goes on with its successor, which takes its place.
disconnect_client(c) ==
    /\ DropStdy(c)
    /\ FreeWorkarea(c)
    /\ fds_org' = fds_org \ {c}
    /\ maxfds' = clr_fd(c)
    /\ client' = Unlink(client, cur)
    /\ client_num' = client_num - 1
    /\ peer' = [peer EXCEPT ![c] = "none"]
    /\ pc' = "walk"
    /\ UNCHANGED <<cur, readfds, content, backlog>>

\* SJ3_KILL, and SJ3_QUIT when nobody else is connected: the reply is flushed
\* first, and a client that is gone is only disconnected.
exec_kill(c) ==
    /\ Serving(c)
    /\ IF peer[c] = "last" THEN disconnect_client(c) ELSE server_terminate

----------------------------------------------------------------------------
(* communicate() *)

\* What select() would report now.
Ready == {f \in fds_org : /\ f < maxfds
                          /\ IF f = ListenFd THEN backlog > 0
                             ELSE peer[f] # "idle"}

\* Mutant: a select() that a signal interrupted is taken for a successful one,
\* with readfds as it was passed in.
select_interrupted ==
    /\ pc = "select"
    /\ readfds' \in {Ready, fds_org}
    /\ cur' = 1
    /\ pc' = "walk"
    /\ UNCHANGED <<table, session, files, env>>

select ==
    /\ pc = "select"
    /\ Ready # {}
    /\ readfds' = Ready
    /\ cur' = 1
    /\ pc' = "walk"
    /\ UNCHANGED <<table, session, files, env>>

\* The client at the cursor was not reported.
SkipClient ==
    /\ pc = "walk" /\ cur <= Len(client)
    /\ cur_client \notin readfds
    /\ cur' = cur + 1
    /\ UNCHANGED <<pc, readfds, table, session, files, env>>

\* read() returns 0: longjmp(client_dead) out of get_buf.
ReadFail(c) ==
    /\ pc = "walk" /\ cur <= Len(client)
    /\ c = cur_client /\ c \in readfds
    /\ peer[c] = "eof"
    /\ disconnect_client(c)

\* put_flush writes the reply.
FlushReply(c) ==
    /\ pc = "flush" /\ c = cur_client
    /\ peer[c] = "request"
    /\ peer' = [peer EXCEPT ![c] = "idle"]
    /\ cur' = cur + 1
    /\ pc' = "walk"
    /\ UNCHANGED <<readfds, table, session, files, backlog>>

\* write() fails: longjmp(client_dead) out of put_flush, after the request
\* has taken effect.
FlushFail(c) ==
    /\ pc = "flush" /\ c = cur_client
    /\ peer[c] = "last"
    /\ disconnect_client(c)

\* Mutant: a round that served a client goes back to select() without
\* looking at the listening socket.
EndWalk_busy ==
    /\ pc = "walk" /\ cur > Len(client)
    /\ pc' = IF readfds \subseteq {ListenFd} THEN "connect" ELSE "select"
    /\ UNCHANGED <<cur, readfds, table, session, files, env>>

EndWalk ==
    /\ pc = "walk" /\ cur > Len(client)
    /\ pc' = "connect"
    /\ UNCHANGED <<cur, readfds, table, session, files, env>>

\* connect_client: one connection per round.
Accept(c) ==
    /\ pc = "connect" /\ ListenFd \in readfds
    /\ peer[c] = "none"
    /\ client_num < MaxClient
    /\ client' = <<c>> \o client
    /\ client_num' = client_num + 1
    /\ fds_org' = fds_org \cup {c}
    /\ maxfds' = set_fd(c)
    /\ peer' = [peer EXCEPT ![c] = "idle"]
    /\ backlog' = backlog - 1
    /\ pc' = "select" /\ cur' = 1 /\ readfds' = {}
    /\ UNCHANGED <<session, files>>

\* The table is full, malloc() fails or the connection was aborted before
\* accept(): nothing is kept of it.  (An accept() that fails for lack of
\* descriptors leaves the connection in the queue; that is not modelled.)
Refuse ==
    /\ pc = "connect" /\ ListenFd \in readfds
    /\ backlog' = backlog - 1
    /\ pc' = "select" /\ cur' = 1 /\ readfds' = {}
    /\ UNCHANGED <<table, session, files, peer>>

NoConnection ==
    /\ pc = "connect" /\ ListenFd \notin readfds
    /\ pc' = "select" /\ cur' = 1 /\ readfds' = {}
    /\ UNCHANGED <<table, session, files, env>>

\* SIGTERM or SIGINT.
terminate_handler == pc # "exit" /\ server_terminate

----------------------------------------------------------------------------
(* The clients *)

PeerConnect ==
    /\ pc # "exit" /\ backlog < MaxBacklog
    /\ backlog' = backlog + 1
    /\ UNCHANGED <<loop, table, session, files, peer>>

\* The first bytes of a request, or all of it, arrive.
PeerSend(c) ==
    /\ peer[c] = "idle"
    /\ \E p \in {"partial", "request"} : peer' = [peer EXCEPT ![c] = p]
    /\ UNCHANGED <<loop, table, session, files, backlog>>

PeerFinish(c) ==
    /\ peer[c] = "partial"
    /\ peer' = [peer EXCEPT ![c] = "request"]
    /\ UNCHANGED <<loop, table, session, files, backlog>>

PeerClose(c) ==
    /\ peer[c] \in {"idle", "partial", "request"}
    /\ peer' = [peer EXCEPT ![c] = IF @ = "request" THEN "last" ELSE "eof"]
    /\ UNCHANGED <<loop, table, session, files, backlog>>

\* The process is gone.
Exited == pc = "exit" /\ UNCHANGED vars

----------------------------------------------------------------------------

Execute(c) ==
    \/ exec_connect(c) \/ exec_disconnect(c)
    \/ \E d \in Dict : \/ exec_opendict(c, d) \/ exec_opendict_nomem(c, d)
                       \/ exec_closedict(c, d) \/ exec_editdict(c, d)
    \/ \E s \in Stdy : exec_openstdy(c, s)
    \/ exec_closestdy(c)
    \/ exec_lock(c) \/ exec_unlock(c)
    \/ exec_other(c)
    \/ exec_kill(c)

Communicate ==
    \/ select \/ SkipClient \/ EndWalk \/ Refuse \/ NoConnection
    \/ \E c \in Fd : Accept(c) \/ ReadFail(c) \/ FlushReply(c) \/ FlushFail(c)

Peers == PeerConnect \/ \E c \in Fd : PeerSend(c) \/ PeerFinish(c) \/ PeerClose(c)

Next ==
    \/ \E c \in Fd : Execute(c)
    \/ Communicate
    \/ terminate_handler
    \/ Peers
    \/ Exited

Spec == Init /\ [][Next]_vars

\* Fairness.  sj3serv is one sequential process the kernel keeps scheduling,
\* so it takes the step it is at; in get_buf that step waits for input.  A
\* client that has begun a request sends the rest of it: the client library
\* writes a request as a whole, without waiting for anything in between.
ServerStep == Communicate \/ \E c \in Fd : Execute(c)
FairSpec == Spec /\ WF_vars(ServerStep) /\ \A c \in Fd : WF_vars(PeerFinish(c))

----------------------------------------------------------------------------
(* Properties *)

Holders(d) == {c \in Fd : d \in dictlist[c]}
Connected == {c \in Fd : peer[c] # "none"}

\* Every list that names a dictionary is counted in its DictFile.refcnt, so
\* closedict never frees a dictionary that the list of another session, or
\* of the server itself, still points to.
RefcntCoversHolders ==
    pc # "exit" => \A d \in Dict :
        Cardinality(Holders(d)) + One(d \in PreOpened) + One(d \in PreLoaded) <= refcnt[d]

\* A study file is open exactly as often as clients use it, however they
\* come and go: openstdy and closestdy neither leak nor free too early.
StdyRefcntExact ==
    \A s \in Stdy : srefcnt[s] = Cardinality({c \in Fd : stdy[c] = s})

\* A lock on a dictionary belongs to a connected client that has the
\* dictionary open and has asked for the lock, and is one exec_unlock takes
\* off again: no lock survives its session, where it would bar everybody from
\* the dictionary and pass to the next client given the same descriptor.
NoStaleLock ==
    \A d \in Dict : \A c \in lock[d] :
        /\ c \in Connected /\ c \in work
        /\ wlock[c] = c
        /\ d \in dictlist[c] \ ReadOnly

\* Connections, list cells, client_num and the descriptors select() looks at
\* agree after any order of connects, requests and deaths in the middle of a
\* walk: every connection has one cell, client_num counts them and the
\* configured limit holds, a descriptor that is not connected owns no session
\* and no study file, every study file is counted once for each client that
\* uses it, and set_fd and clr_fd keep maxfds one above the highest watched
\* descriptor.
ClientTable ==
    /\ client_num = Len(client) /\ client_num <= MaxClient
    /\ {client[i] : i \in 1 .. Len(client)} = Connected
    /\ \A i, j \in 1 .. Len(client) : client[i] = client[j] => i = j
    /\ \A c \in Fd \ Connected : c \notin work /\ stdy[c] = NoStdy
    /\ StdyRefcntExact
    /\ pc # "exit" => /\ fds_org = Connected \cup {ListenFd}
                      /\ \A f \in fds_org : f < maxfds
                      /\ maxfds - 1 \in fds_org

\* The loop reads only from clients that have something to be read, and
\* accepts only when a connection waits.  readfds is a snapshot, and clients
\* die and descriptors are reused after it is taken; were it to name a client
\* that has sent nothing, the read would block the whole server.
NoBlockingRead ==
    /\ pc = "walk" => \A i \in cur .. Len(client) :
          client[i] \in readfds => peer[client[i]] # "idle"
    /\ ListenFd \in readfds => backlog > 0

\* While a client holds the lock, no word is added to or removed from a
\* dictionary it has open, so the study IDs it holds keep naming the words
\* they were returned for.
LockedDictionaryUnchanged ==
    [][\A d \in Dict : content'[d] # content[d] =>
          \A c \in Fd : ~(wlock[c] = c /\ d \in dictlist[c])]_vars

\* A request is eventually answered, whatever the other clients do, and a
\* client that goes away, in the middle of anything, is eventually
\* disconnected: its descriptor and its session are free again.
ClientServed ==
    \A c \in Fd : /\ peer[c] = "request" ~> peer[c] # "request"
                 /\ peer[c] \in {"eof", "last"} ~> peer[c] = "none"

\* A waiting connection is eventually taken off the listen queue, however
\* busy the connected clients keep the server.
ConnectionTaken == backlog = MaxBacklog ~> backlog < MaxBacklog
=============================================================================
