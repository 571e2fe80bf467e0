------------------------------ MODULE ClientLib ------------------------------
(***************************************************************************)
(* The client library sj3lib: the one connection of a process to sj3serv.  *)
(* level1.c sends one request and reads its reply; sj.c strings such       *)
(* exchanges together to open and close a session and to serve the         *)
(* requests of the application.                                            *)
(*                                                                         *)
(* An exchange is one step.  The connection may be lost in any of them,    *)
(* while the request is written or while the reply is read, and the way    *)
(* level1.c reports the loss depends on the place: put_flush and get_buffer *)
(* set sj3_error_number to SJ3_ServerDown, but most functions then store   *)
(* the integer they failed to read, 0, in the same variable.               *)
(*                                                                         *)
(* Dictionary ids are inode numbers.  What is converted, learned or        *)
(* registered is left out.  The server is external: a session is the user, *)
(* the dictionaries and the study file it has open.                        *)
(***************************************************************************)
EXTENDS Integers, Sequences, FiniteSets

CONSTANTS
    User,         \* users an application may connect for
    NoUser,       \* a connection that no CONNECT was accepted on
    NoSess,       \* no connection at the server
    MainDict,     \* the id of sj3main.dic
    Private,      \* Private[u]: the id of user/u/private.dic
    DictLists,    \* lists of dictionaries given to sj3_open_with_list
    AppFd,        \* descriptors the application has open itself
    MaxFd         \* bound: the highest descriptor of the process

ASSUME IdAssumption == /\ MainDict \in Nat \ {0}
                       /\ Private \in [User -> Nat \ {0}]
                       /\ \A l \in DictLists : l \in Seq(Nat \ {0})
\* What the server keeps for a connection.
Session == [user : User \cup {NoUser}, dicts : SUBSET Int, stdy : BOOLEAN]
ASSUME SessAssumption == NoSess \notin Session
ASSUME FdAssumption == /\ AppFd \subseteq 0 .. MaxFd /\ MaxFd \in Nat
                       /\ 2 \in AppFd

VARIABLES
    fd,           \* client.fd
    errno,        \* sj3_error_number
    svr,          \* client.svr_version
    mdicid, udicid,
    list,         \* dicid_list with dicid_num entries; <<>> is NULL
    freed,        \* dicid_list points to memory that was freed
    pc, arg, err, \* the call in progress, its arguments, its status so far
    k,            \* its loop counter
    ret,          \* what the last call returned
    open,         \* descriptors of the process
    sess,         \* the server's end of the connection
    fs            \* fs[u]: the files of user/u that exist

env   == <<fd, errno, open, sess, fs>>
ids   == <<mdicid, udicid, list, freed>>
call  == <<pc, arg, err, k, ret>>
vars  == <<env, svr, ids, call>>

NoFd  == -1
ERROR == -1
ServerDown       == 1
OpenSocket       == 2
ConnectSocket    == 3
GetHostByName    == 4
NotOpened        == 5
DifferentVersion == 11
NotAllowedUser   == 14
BadDictID        == 31
CannotOpenFile   == 37
StdyFileNotOpened == 52
LockedByOther    == 61
NotLocked        == 62
NoSuchDict       == 71
DictLocked       == 73
AlreadyExistWord == 82
NoSuchWord       == 92
NoMoreDictData   == 111

Linked(u) == [user |-> u, dicts |-> {}, stdy |-> FALSE]
Files     == {"dir", "private.dic", "study.dat"}
-----------------------------------------------------------------------------
(* level1.c *)

\* A reply of the server: its error code, the value the function returns for
\* it, and the session and the files after the request.
Rep(c, v, s, f) == [code |-> c, val |-> v, sess |-> s, fs |-> f]

\* Mutant: client.fd keeps the number of the closed descriptor.
Lost_kept(no, f) == [ret |-> ERROR, errno |-> no, fd |-> fd, open |-> open \ {fd},
                     sess |-> NoSess, fs |-> f]
\* The connection is closed and forgotten, with sj3_error_number as given.
Lost(no, f) == [ret |-> ERROR, errno |-> no, fd |-> NoFd, open |-> open \ {fd},
                sess |-> NoSess, fs |-> f]

\* A connection attempt that failed may leave fd at a number that is no socket
\* of the library.
Stray == sess = NoSess /\ fd \in AppFd \cap open

\* Writing fails when the server is gone or the descriptor is no connection; a
\* descriptor of the application takes what is written to it.
put_flush == IF Stray THEN {} ELSE {Lost(ServerDown, fs)}

\* Reading fails before or after the server has executed the request.
get_buffer(no, R) == IF Stray \/ sess # NoSess
                     THEN {Lost(n, f) : n \in no, f \in {fs} \cup {r.fs : r \in R}}
                     ELSE {}

\* One request and its reply.  no: what sj3_error_number may hold after the
\* reply could not be read.
Exchange(R, no) ==
    LET Q == IF sess = NoSess THEN {} ELSE R
    IN  IF fd = NoFd
        THEN {[ret |-> ERROR, errno |-> NotOpened, fd |-> fd, open |-> open,
               sess |-> sess, fs |-> fs]}
        ELSE put_flush \cup get_buffer(no, Q)
             \cup {[ret |-> r.val, errno |-> r.code, fd |-> fd, open |-> open,
                    sess |-> r.sess, fs |-> r.fs] : r \in Q}

\* The error code is read straight into sj3_error_number, 0 when it is lost.
Coded(R) == Exchange(R, {0})
\* A value follows the error code: when only that is lost ServerDown stays.
Valued(R) == Exchange(R, {0, ServerDown})

sj3_open_dictionary(d, there) ==
    Valued({Rep(CannotOpenFile, 0, sess, fs)}
           \cup IF there THEN {Rep(0, d, [sess EXCEPT !.dicts = @ \cup {d}], fs)} ELSE {})

sj3_close_dictionary(d) ==
    Coded(IF sess # NoSess /\ d \in sess.dicts
          THEN {Rep(0, 0, [sess EXCEPT !.dicts = @ \ {d}], fs)}
          ELSE {Rep(BadDictID, ERROR, sess, fs)})

StudyOpened(there) ==
    Coded({Rep(CannotOpenFile, ERROR, sess, fs)}
          \cup IF there THEN {Rep(0, 0, [sess EXCEPT !.stdy = TRUE], fs)} ELSE {})

\* Mutant: ReadErrorFlag is not looked at.
sj3_open_study_file_unchecked(there) ==
    {IF o.fd = NoFd /\ o.errno = 0 THEN [o EXCEPT !.ret = 0] ELSE o : o \in StudyOpened(there)}
sj3_open_study_file(there) == StudyOpened(there)

sj3_close_study_file ==
    Coded(IF sess # NoSess /\ sess.stdy
          THEN {Rep(0, 0, [sess EXCEPT !.stdy = FALSE], fs)}
          ELSE {Rep(StdyFileNotOpened, ERROR, sess, fs)})

\* access() answers 0 or -1, and sj3_error_number is cleared before it is read.
sj3_access(u, f) ==
    Exchange({Rep(0, IF f \in fs[u] THEN 0 ELSE ERROR, sess, fs)}, {ServerDown})

\* A file can be made in a directory that is there, a second time never.
Make(u, f) ==
    Coded({Rep(CannotOpenFile, ERROR, sess, fs)}
          \cup IF f \in fs[u] \/ (f # "dir" /\ "dir" \notin fs[u]) THEN {}
               ELSE {Rep(0, 0, sess, [fs EXCEPT ![u] = @ \cup {f}])})
sj3_make_directory(u)  == Make(u, "dir")
sj3_make_dict_file(u)  == Make(u, "private.dic")
sj3_make_study_file(u) == Make(u, "study.dat")

\* The descriptor is closed whatever the server answers.
sj3_erase_connection ==
    {[o EXCEPT !.open = o.open \ {fd}, !.fd = NoFd, !.sess = NoSess] :
        o \in Coded({Rep(0, 0, NoSess, fs)})}
-----------------------------------------------------------------------------
(* sj.c: opening a session *)

NoArg == [fn |-> "none", user |-> NoUser, dicts |-> <<>>]
NoRet == [fn |-> "none", val |-> 0]
Take(o)   == /\ fd' = o.fd /\ errno' = o.errno /\ open' = o.open
             /\ sess' = o.sess /\ fs' = o.fs
Goto(l)   == pc' = l /\ UNCHANGED <<arg, ret>>
\* The local variables of the call go out of scope; what it was called with is
\* remembered after a success only.
Return(v) == /\ pc' = "idle" /\ ret' = [fn |-> arg.fn, val |-> v]
             /\ arg' = IF v = {} THEN arg ELSE NoArg
             /\ err' = {} /\ k' = 0
Failed(o) == o.ret = ERROR
Dead(o)   == o.errno = ServerDown

\* Everything but the connection stays as it is.
Steady == UNCHANGED <<ids, svr>>

\* sj3_open and sj3_open_with_list start alike.  host: the kind of socket the
\* server's name asks for.
Begin(fn, host, u, ds) ==
    /\ pc = "idle"
    /\ arg' = [fn |-> fn, user |-> u, dicts |-> ds]
    /\ err' = {} /\ k' = 0
    /\ IF fd # NoFd
       THEN pc' = "idle" /\ ret' = [fn |-> fn, val |-> {"ALREADY_CONNECTED"}]
       ELSE pc' = host /\ ret' = NoRet
    /\ Steady /\ UNCHANGED env
sj3_open(host, u) == Begin("sj3_open", host, u, <<>>)
sj3_open_with_list(host, u, ds) == Begin("sj3_open_with_list", host, u, ds)

NewFd   == {n \in 0 .. MaxFd : n \notin open /\ \A m \in 0 .. n - 1 : m \in open}
Refused == Return({"CONNECT_ERROR"})
Connected(n) == /\ fd' = n /\ open' = open \cup {n} /\ sess' = Linked(NoUser)
                /\ Goto("connect") /\ UNCHANGED <<errno, err, k>>

\* A socket that cannot be connected is left open.
open_unix ==
    /\ pc = "unix"
    /\ \/ /\ NewFd = {} /\ errno' = OpenSocket
          /\ UNCHANGED <<fd, open, sess>> /\ Refused
       \/ \E n \in NewFd : /\ open' = open \cup {n} /\ errno' = ConnectSocket
                           /\ UNCHANGED <<fd, sess>> /\ Refused
       \/ \E n \in NewFd : Connected(n)
    /\ Steady /\ UNCHANGED fs

\* When no address can be reached the error code is returned, and taken for a
\* descriptor by sj3_make_connection.
open_inet ==
    /\ pc = "inet"
    /\ \/ errno' = GetHostByName /\ UNCHANGED <<fd, open, sess>> /\ Refused
       \/ /\ fd' = IF NewFd = {} THEN OpenSocket ELSE ConnectSocket
          /\ Goto("connect") /\ UNCHANGED <<open, sess, errno, err, k>>
       \/ \E n \in NewFd : Connected(n)
    /\ Steady /\ UNCHANGED fs

\* free() of a pointer that was not allocated, or was freed before.
Aborted == pc' = "aborted" /\ arg' = NoArg /\ ret' = NoRet /\ err' = {} /\ k' = 0

\* The list made by this call is freed, but dicid_list keeps pointing to it; if
\* the call made none, dict_idx was never set and free() may get anything.
FreeList ==
    \/ arg.fn = "sj3_open" /\ UNCHANGED <<list, freed>> /\ Return({"SERVER_DEAD"})
    \/ /\ arg.fn # "sj3_open" /\ pc \notin {"connect", "connect1", "stdysize"}
       /\ arg.dicts # <<>> /\ freed' = TRUE /\ UNCHANGED list
       /\ Return({"SERVER_DEAD"})
    \/ /\ arg.fn # "sj3_open"
       /\ pc \in {"connect", "connect1", "stdysize"} \/ arg.dicts = <<>>
       /\ Return({"SERVER_DEAD"}) \/ Aborted
       /\ UNCHANGED <<list, freed>>
server_dead == mdicid' = 0 /\ udicid' = 0 /\ FreeList /\ UNCHANGED svr

\* sj3_make_connection up to the first reply.  The integer read goes to a
\* local variable and sj3_error_number is cleared before the loss is noticed.
NewServer == -2
Version(tmp) == IF tmp = 0 THEN 1 ELSE -tmp
Connect(label, replies, next) ==
    /\ pc = label
    /\ \E o \in Exchange({Rep(c, c, IF c \in {0, NewServer} THEN Linked(arg.user) ELSE sess, fs) :
                             c \in replies}, {0}) :
        /\ Take(o)
        /\ \/ Failed(o) /\ Dead(o) /\ server_dead
           \/ /\ Failed(o) /\ ~Dead(o) /\ svr' = Version(0)
              /\ Refused /\ UNCHANGED ids
           \/ /\ o.ret \in {0, NewServer} /\ svr' = Version(o.ret)
              /\ Goto("stdysize") /\ UNCHANGED <<ids, err, k>>
           \/ /\ o.ret > 0
              /\ Goto(IF o.ret = DifferentVersion THEN next ELSE "erase")
              /\ Steady /\ UNCHANGED <<err, k>>
ConnectNew == Connect("connect", {NewServer, DifferentVersion, NotAllowedUser}, "connect1")
ConnectOld == Connect("connect1", {0, NotAllowedUser}, "erase")

\* The server's study record may be larger than this library's.
StdySize ==
    /\ pc = "stdysize"
    /\ \E o \in Exchange({Rep(0, n, sess, fs) : n \in {0, 1}}, {ServerDown}) :
        /\ Take(o)
        /\ \/ Failed(o) /\ server_dead
           \/ /\ ~Failed(o) /\ Steady
              /\ err' = {} /\ k' = IF arg.fn = "sj3_open" THEN 2 ELSE 0
              /\ Goto(IF o.ret = 1 THEN "mismatch"
                      ELSE IF arg.fn = "sj3_open" THEN "mdict" ELSE "malloc")
Erase ==
    /\ pc \in {"erase", "mismatch"}
    /\ \E o \in sj3_erase_connection :
        Take(IF pc = "erase" THEN [o EXCEPT !.errno = NotAllowedUser] ELSE o)
    /\ Steady /\ Refused

\* The main dictionary.  Only 0 is taken for a failure, although a lost
\* connection makes sj3_open_dictionary return ERROR: the test for ServerDown
\* under it cannot succeed.
OpenMain ==
    /\ pc = "mdict"
    /\ \E o \in sj3_open_dictionary(MainDict, TRUE) :
        /\ Take(o) /\ mdicid' = o.ret
        /\ err' = IF o.ret = 0 THEN err \cup {"CANNOT_OPEN_MDICT"} ELSE err
    /\ Goto("dirs") /\ UNCHANGED <<udicid, list, freed, svr, k>>

\* The connection stays open when there is no memory for the list.
AllocList ==
    /\ pc = "malloc"
    /\ \/ arg.dicts # <<>> /\ Refused /\ UNCHANGED ids
       \/ /\ arg.dicts # <<>> /\ list' = [n \in 1 .. Len(arg.dicts) |-> 0]
          /\ freed' = FALSE /\ Goto("list") /\ UNCHANGED <<mdicid, udicid, err, k>>
       \/ arg.dicts = <<>> /\ Goto("dirs") /\ UNCHANGED <<ids, err, k>>
    /\ UNCHANGED <<env, svr>>
\* mdicid becomes the first dictionary that opens, unless it is set already.
OpenList ==
    /\ pc = "list" /\ k < Len(list)
    /\ \E o \in sj3_open_dictionary(arg.dicts[k + 1], TRUE) :
        /\ Take(o) /\ list' = [list EXCEPT ![k + 1] = o.ret]
        /\ mdicid' = IF mdicid = 0 THEN o.ret ELSE mdicid
    /\ k' = k + 1 /\ Goto("list") /\ UNCHANGED <<udicid, freed, svr, err>>
EndList ==
    /\ pc = "list" /\ k = Len(list) /\ k' = 0
    /\ IF \A n \in DOMAIN list : list[n] = 0
       THEN err' = err \cup {"CANNOT_OPEN_MDICT"} /\ mdicid' = 0
       ELSE UNCHANGED <<err, mdicid>>
    /\ Goto("dirs") /\ UNCHANGED <<env, svr, udicid, list, freed>>

\* make_dirs asks for the whole path once for each of the k delimiters in it:
\* two in the path sj3_open gives it, none in the one sj3_open_with_list does.
make_dirs ==
    \/ pc = "dirs" /\ k = 0 /\ Goto("udict?") /\ Steady /\ UNCHANGED <<env, err, k>>
    \/ /\ pc = "dirs" /\ k > 0
       /\ \E o \in sj3_access(arg.user, "dir") :
           /\ Take(o)
           /\ \/ ~Failed(o) /\ k' = k - 1 /\ Goto("dirs") /\ Steady /\ UNCHANGED err
              \/ Failed(o) /\ Dead(o) /\ server_dead
              \/ Failed(o) /\ ~Dead(o) /\ Goto("mkdir") /\ Steady /\ UNCHANGED <<err, k>>
    \/ /\ pc = "mkdir"
       /\ \E o \in sj3_make_directory(arg.user) :
           /\ Take(o)
           /\ \/ ~Failed(o) /\ k' = k - 1 /\ Goto("dirs") /\ Steady /\ UNCHANGED err
              \/ Failed(o) /\ Dead(o) /\ server_dead
              \/ /\ Failed(o) /\ ~Dead(o) /\ Steady
                 /\ Return(err \cup {"CANNOT_MAKE_UDIR"})

\* Is the file there?  If not, make it; whether or not that worked, open it.
Probe(label, file, make, next) ==
    /\ pc = label
    /\ \E o \in sj3_access(arg.user, file) :
        /\ Take(o)
        /\ \/ Failed(o) /\ Dead(o) /\ server_dead
           \/ /\ ~(Failed(o) /\ Dead(o)) /\ Goto(IF Failed(o) THEN make ELSE next)
              /\ Steady /\ UNCHANGED <<err, k>>
MakeFile(label, outcomes, flag, next) ==
    /\ pc = label
    /\ \E o \in outcomes :
        /\ Take(o)
        /\ \/ Failed(o) /\ Dead(o) /\ server_dead
           \/ /\ ~(Failed(o) /\ Dead(o)) /\ Goto(next)
              /\ err' = IF Failed(o) THEN err \cup {flag} ELSE err
              /\ Steady /\ UNCHANGED k
ProbeDict  == Probe("udict?", "private.dic", "udict+", "udict")
MakeDict   == MakeFile("udict+", sj3_make_dict_file(arg.user), "CANNOT_MAKE_UDICT", "udict")
OpenUser ==
    /\ pc = "udict"
    /\ \E o \in sj3_open_dictionary(Private[arg.user], "private.dic" \in fs[arg.user]) :
        /\ Take(o) /\ udicid' = o.ret
        /\ err' = IF o.ret = 0 THEN err \cup {"CANNOT_OPEN_UDICT"} ELSE err
    /\ Goto("study?") /\ UNCHANGED <<mdicid, list, freed, svr, k>>
ProbeStudy == Probe("study?", "study.dat", "study+", "study")
MakeStudy  == MakeFile("study+", sj3_make_study_file(arg.user), "CANNOT_MAKE_STUDY", "study")
OpenStudy ==
    /\ pc = "study"
    /\ \E o \in sj3_open_study_file("study.dat" \in fs[arg.user]) :
        /\ Take(o)
        /\ \/ Failed(o) /\ Dead(o) /\ server_dead
           \/ /\ ~(Failed(o) /\ Dead(o))
              /\ Return(IF Failed(o) THEN err \cup {"CANNOT_OPEN_STUDY"} ELSE err)
              /\ Steady
-----------------------------------------------------------------------------
(* sj.c: closing it *)

sj3_close ==
    /\ pc = "idle" /\ arg' = [NoArg EXCEPT !.fn = "sj3_close"] /\ k' = 0
    /\ IF fd = NoFd
       THEN /\ pc' = "idle" /\ ret' = [fn |-> "sj3_close", val |-> {"NOT_CONNECTED"}]
            /\ err' = {}
       ELSE /\ err' = IF mdicid = 0 THEN {"NOT_OPENED_MDICT"} ELSE {}
            /\ pc' = IF mdicid = 0 THEN "close_udict"
                     ELSE IF list # <<>> THEN "close_list" ELSE "close_mdict"
            /\ ret' = NoRet
    /\ Steady /\ UNCHANGED env

close_dead == /\ mdicid' = 0 /\ udicid' = 0 /\ list' = <<>>
              /\ \/ Return({"SERVER_DEAD"})
                 \/ freed /\ Aborted
              /\ freed' = FALSE /\ UNCHANGED svr

\* What is read through a pointer to freed memory may be any id.
Garbage == {0, MainDict}
ListEnd == Len(list)
CloseList ==
    /\ pc = "close_list" /\ k < ListEnd
    /\ \E d \in IF freed THEN Garbage ELSE {list[k + 1]} :
       \E o \in sj3_close_dictionary(d) :
        /\ Take(o)
        /\ \/ Failed(o) /\ Dead(o) /\ close_dead
           \/ /\ ~(Failed(o) /\ Dead(o)) /\ k' = k + 1 /\ Goto("close_list")
              /\ err' = IF Failed(o) THEN err \cup {"CLOSE_MDICT_ERROR"} ELSE err
              /\ Steady
\* Freeing the list a second time may abort the process.
EndCloseList ==
    /\ pc = "close_list" /\ k = ListEnd /\ list' = <<>> /\ freed' = FALSE
    /\ \/ mdicid' = 0 /\ Goto("close_udict") /\ UNCHANGED <<err, k>>
       \/ freed /\ UNCHANGED mdicid /\ Aborted
    /\ UNCHANGED <<env, svr, udicid>>
CloseMain ==
    /\ pc = "close_mdict"
    /\ \E o \in sj3_close_dictionary(mdicid) :
        /\ Take(o)
        /\ \/ Failed(o) /\ Dead(o) /\ close_dead
           \/ /\ ~(Failed(o) /\ Dead(o)) /\ mdicid' = 0 /\ Goto("close_udict")
              /\ err' = IF Failed(o) THEN err \cup {"CLOSE_MDICT_ERROR"} ELSE err
              /\ UNCHANGED <<udicid, list, freed, svr, k>>
CloseUser ==
    /\ pc = "close_udict"
    /\ \/ /\ udicid = 0 /\ err' = err \cup {"NOT_OPENED_UDICT"}
          /\ Goto("close_study") /\ Steady /\ UNCHANGED <<env, k>>
       \/ /\ udicid # 0
          /\ \E o \in sj3_close_dictionary(udicid) :
              /\ Take(o)
              /\ \/ Failed(o) /\ Dead(o) /\ close_dead
                 \/ /\ ~(Failed(o) /\ Dead(o)) /\ udicid' = 0 /\ Goto("close_study")
                    /\ err' = IF Failed(o) THEN err \cup {"CLOSE_UDICT_ERROR"} ELSE err
                    /\ UNCHANGED <<mdicid, list, freed, svr, k>>
\* Mutant: an error of the study file ends the function.
CloseStudy_return ==
    /\ pc = "close_study"
    /\ \E o \in sj3_close_study_file :
        /\ Take(o)
        /\ \/ Failed(o) /\ Dead(o) /\ close_dead
           \/ Failed(o) /\ ~Dead(o) /\ Return(err \cup {"CLOSE_STUDY_ERROR"}) /\ Steady
           \/ ~Failed(o) /\ Goto("disconnect") /\ Steady /\ UNCHANGED <<err, k>>
CloseStudy ==
    /\ pc = "close_study"
    /\ \E o \in sj3_close_study_file :
        /\ Take(o)
        /\ \/ Failed(o) /\ Dead(o) /\ close_dead
           \/ /\ ~(Failed(o) /\ Dead(o)) /\ Goto("disconnect")
              /\ err' = err \cup (CASE ~Failed(o) -> {}
                                  [] Failed(o) /\ o.errno = StdyFileNotOpened -> {"NOT_OPENED_STUDY"}
                                  [] OTHER -> {"CLOSE_STUDY_ERROR"})
              /\ Steady /\ UNCHANGED k
Disconnect ==
    /\ pc = "disconnect"
    /\ \E o \in sj3_erase_connection :
        /\ Take(o)
        /\ \/ Failed(o) /\ Dead(o) /\ close_dead
           \/ /\ ~(Failed(o) /\ Dead(o))
              /\ Return(IF Failed(o) THEN err \cup {"DISCONNECT_ERROR"} ELSE err)
              /\ Steady
-----------------------------------------------------------------------------
(* sj.c: the requests of the application *)

\* Mutant: the error number instead of the connection is tested.
ServerGone_errno(o) == o.errno = ServerDown
ServerGone(o) == o.fd = NoFd

\* A request is one exchange, sj3_getkan's loop of them included: what it
\* returns is decided by the last.  refuse gives what the function returns for an
\* error of the server, vals what it may return otherwise.
Request(outcomes, refuse, vals) ==
    /\ pc = "idle" /\ arg' = NoArg /\ UNCHANGED <<pc, err, k, list, freed, svr>>
    /\ \E o \in outcomes :
        /\ Take(o)
        /\ \/ /\ ~Failed(o) /\ UNCHANGED <<mdicid, udicid>>
              /\ \E v \in vals : ret' = [fn |-> "request", val |-> v]
           \/ /\ Failed(o) /\ ServerGone(o) /\ mdicid' = 0 /\ udicid' = 0
              /\ ret' = [fn |-> "request", val |-> -1]
           \/ /\ Failed(o) /\ ~ServerGone(o) /\ UNCHANGED <<mdicid, udicid>>
              /\ ret' = [fn |-> "request", val |-> refuse[o.errno]]

\* An empty or overlong reading is answered with 0 and nothing is sent.  The
\* _euc functions give an old server Shift JIS: text that cannot be converted is
\* refused before anything is sent, a reply after it was read.
NotSent(status) ==
    /\ pc = "idle"
    /\ status = 0 \/ svr = 1
    /\ ret' = [fn |-> "not_sent", val |-> status]
    /\ arg' = NoArg /\ Steady /\ UNCHANGED <<env, pc, err, k>>
OrBad(v, bad) == {v} \cup IF svr = 1 THEN {bad} ELSE {}

\* The server's answers to a request that needs no dictionary, and to one on
\* the user dictionary.
Answers(codes) == {Rep(0, 0, sess, fs)} \cup {Rep(c, ERROR, sess, fs) : c \in codes}
OnDict(codes)  == IF sess # NoSess /\ udicid \in sess.dicts THEN Answers(codes)
                  ELSE {Rep(NoSuchDict, ERROR, sess, fs)}
Code == 0 .. NoMoreDictData
Zero == [no \in Code |-> 0]
One  == [no \in Code |-> 1]
TourokuStatus == [no \in Code |->
    CASE no = NoSuchDict -> 1 [] no = DictLocked -> 2 [] no = AlreadyExistWord -> 6
      [] OTHER -> 10]
SyoukyoStatus == [no \in Code |->
    CASE no = NoSuchDict -> 1 [] no = DictLocked -> 2 [] no = NoSuchWord -> 6
      [] OTHER -> 10]

sj3_ikkatu_henkan    == Valued(Answers({LockedByOther}))
sj3_bunsetu_kouhosuu == Valued(Answers({LockedByOther}))
sj3_bunsetu_zenkouho == Valued(Answers({LockedByOther}))
sj3_tango_gakusyuu   == Coded(Answers({LockedByOther}))
sj3_bunsetu_gakusyuu == Coded(Answers({LockedByOther}))
sj3_tango_touroku    == Coded(OnDict({DictLocked, AlreadyExistWord}))
sj3_tango_sakujo     == Coded(OnDict({DictLocked, NoSuchWord}))
sj3_tango_syutoku    == Valued(OnDict({NoMoreDictData}))
sj3_tango_jikouho    == Valued(OnDict({NoMoreDictData}))
sj3_tango_maekouho   == Valued(OnDict({NoMoreDictData}))
sj3_lock_server      == Coded(Answers({LockedByOther}))
sj3_unlock_server    == Coded(Answers({NotLocked, LockedByOther}))

sj3_getkan     == Request(sj3_ikkatu_henkan, Zero, OrBad(1, 0))
sj3_douoncnt   == Request(sj3_bunsetu_kouhosuu, Zero, {1})
sj3_getdouon   == Request(sj3_bunsetu_zenkouho, Zero, OrBad(1, 0))
sj3_gakusyuu   == Request(sj3_tango_gakusyuu, One, {0})
sj3_gakusyuu2  == Request(sj3_bunsetu_gakusyuu, One, {0})
sj3_touroku    == Request(sj3_tango_touroku, TourokuStatus, {0})
sj3_syoukyo    == Request(sj3_tango_sakujo, SyoukyoStatus, {0})
sj3_getdict    == Request(sj3_tango_syutoku, One, OrBad(0, 1))
sj3_nextdict   == Request(sj3_tango_jikouho, One, OrBad(0, 1))
sj3_prevdict   == Request(sj3_tango_maekouho, One, OrBad(0, 1))
sj3_lockserv   == Request(sj3_lock_server, One, {0})
sj3_unlockserv == Request(sj3_unlock_server, One, {0})
-----------------------------------------------------------------------------
Init ==
    /\ fd = NoFd /\ errno = 0 /\ svr = 0 /\ open = AppFd /\ sess = NoSess
    /\ mdicid = 0 /\ udicid = 0 /\ list = <<>> /\ freed = FALSE
    /\ pc = "idle" /\ arg = NoArg /\ err = {} /\ k = 0 /\ ret = NoRet
    /\ fs = [u \in User |-> {}]

\* The application ends, or crashes, and is started again: the kernel closes
\* the connection and the library starts from its initial values.
AppExit ==
    /\ fd' = NoFd /\ errno' = 0 /\ svr' = 0 /\ open' = AppFd /\ sess' = NoSess
    /\ mdicid' = 0 /\ udicid' = 0 /\ list' = <<>> /\ freed' = FALSE
    /\ pc' = "idle" /\ arg' = NoArg /\ err' = {} /\ k' = 0 /\ ret' = NoRet
    /\ UNCHANGED fs

\* Another client of the same user makes the files.
OtherClient(u) ==
    /\ \E f \in Files \ fs[u] : /\ f # "dir" => "dir" \in fs[u]
                                /\ fs' = [fs EXCEPT ![u] = @ \cup {f}]
    /\ UNCHANGED <<fd, errno, open, sess, svr, ids, call>>

Open  == \E h \in {"unix", "inet"}, u \in User :
            sj3_open(h, u) \/ \E l \in DictLists : sj3_open_with_list(h, u, l)
MakeConnection == open_unix \/ open_inet \/ ConnectNew \/ ConnectOld \/ StdySize \/ Erase
OpenFiles == \/ OpenMain \/ AllocList \/ OpenList \/ EndList \/ make_dirs
             \/ ProbeDict \/ MakeDict \/ OpenUser \/ ProbeStudy \/ MakeStudy \/ OpenStudy
Close == \/ sj3_close \/ CloseList \/ EndCloseList \/ CloseMain
         \/ CloseUser \/ CloseStudy \/ Disconnect
Requests == \/ sj3_getkan \/ sj3_douoncnt \/ sj3_getdouon \/ sj3_gakusyuu \/ sj3_gakusyuu2
            \/ sj3_touroku \/ sj3_syoukyo \/ sj3_getdict \/ sj3_nextdict \/ sj3_prevdict
            \/ sj3_lockserv \/ sj3_unlockserv
            \/ \E v \in {0, 1, 3, 4} : NotSent(v)

Next == \/ Open \/ MakeConnection \/ OpenFiles \/ Close \/ Requests \/ AppExit
        \/ \E u \in User : OtherClient(u)
Spec == Init /\ [][Next]_vars
-----------------------------------------------------------------------------
Opening == {"unix", "inet", "connect", "connect1", "stdysize", "erase", "mismatch",
            "malloc", "mdict", "list", "dirs", "mkdir", "udict?", "udict+", "udict",
            "study?", "study+", "study"}
Closing == {"close_list", "close_mdict", "close_udict", "close_study", "disconnect"}
OpenFn  == {"sj3_open", "sj3_open_with_list"}

\* The type invariant.
TypeOK ==
    /\ fd \in Int /\ open \subseteq Int /\ errno \in Int /\ svr \in 0 .. 2
    /\ mdicid \in Int /\ udicid \in Int /\ list \in Seq(Int) /\ freed \in BOOLEAN
    /\ sess \in Session \cup {NoSess} /\ fs \in [User -> SUBSET Files]
    /\ pc \in Opening \cup Closing \cup {"idle", "aborted"} /\ k \in Nat
    /\ arg \in [fn : OpenFn \cup {"sj3_close", "none"}, user : User \cup {NoUser},
                dicts : Seq(Int)]

\* sj3_open and sj3_open_with_list return 0 only for a session that is usable:
\* although losing the connection while a dictionary is opened goes unnoticed,
\* one of the exchanges that follow reports it.
OpenReady ==
    pc = "idle" /\ ret.fn \in OpenFn /\ ret.val = {} =>
        /\ fd # NoFd /\ sess # NoSess /\ sess.user = arg.user /\ sess.stdy
        /\ udicid = Private[arg.user] /\ udicid \in sess.dicts
        /\ ret.fn = "sj3_open" => mdicid = MainDict /\ mdicid \in sess.dicts
        /\ arg.dicts # <<>> => \E n \in DOMAIN list : list[n] \in sess.dicts

\* A request returns -1 exactly when there is no connection (any more), and
\* the ids of the lost session are forgotten with it, although the error
\* number does not tell a lost reply from a good one.
RequestsReportDown ==
    pc = "idle" /\ ret.fn = "request" =>
        /\ ret.val = -1 <=> fd = NoFd
        /\ fd = NoFd => mdicid = 0 /\ udicid = 0

\* Whatever sj3_close returns, the connection is closed on both ends, and it
\* reports no error only if it has closed every dictionary and the study file,
\* whatever earlier sessions of the process left behind.
CloseDisconnects ==
    /\ pc = "idle" /\ ret.fn = "sj3_close" => fd = NoFd /\ sess = NoSess
    /\ pc = "disconnect" /\ err = {} => sess = NoSess \/ (sess.dicts = {} /\ ~sess.stdy)

\* Between calls a connection the library believes in is a descriptor that is
\* open and leads to the server.
LiveDescriptor == pc = "idle" /\ fd # NoFd => fd \in open /\ sess # NoSess
=============================================================================
