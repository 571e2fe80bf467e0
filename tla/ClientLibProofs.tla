-------------------------- MODULE ClientLibProofs --------------------------
(***************************************************************************)
(* Proofs about ClientLib for any users, dictionaries and dictionary lists *)
(* and any number of descriptors.                                          *)
(***************************************************************************)
EXTENDS ClientLib, TLAPS

----------------------------------------------------------------------------
(* The invariants, in two layers.                                          *)
(*                                                                         *)
(* The first is about the connection: when the library and the server      *)
(* agree that there is one.  The second is about what the server has open  *)
(* for it: which ids the library will find it under when it closes the     *)
(* session, and what an opening call without an error so far has opened.   *)

\* A connection at the server is an open descriptor of the library.  The
\* converse fails only after open_inet has taken an error code for a
\* descriptor, until the first exchange on it.
Linkage ==
    /\ sess # NoSess => fd # NoFd /\ fd \in open
    /\ fd # NoFd /\ sess = NoSess => pc = "connect"
    /\ pc \in {"unix", "inet"} => fd = NoFd

\* Which call is in progress, and how far it is through its list.
Calls ==
    /\ pc \in Opening => arg.fn \in OpenFn /\ arg.user \in User
    /\ pc \in Closing => arg.fn = "sj3_close"
    /\ pc \in Opening /\ arg.fn = "sj3_open" => arg.dicts = <<>>
    /\ pc = "mdict" => arg.fn = "sj3_open"
    /\ pc \in {"malloc", "list"} => arg.fn = "sj3_open_with_list"
    /\ pc = "malloc" => k = 0
    /\ pc = "mkdir" => k > 0
    /\ pc = "list" => Len(list) = Len(arg.dicts) /\ k <= Len(list)
    /\ pc = "close_list" => list # <<>> /\ k <= Len(list)
    /\ pc = "close_mdict" => list = <<>>

\* The part of CloseDisconnects that is about the moment after the call.
Closed == pc = "idle" /\ ret.fn = "sj3_close" => fd = NoFd /\ sess = NoSess

LinkInv == TypeOK /\ Linkage /\ Calls /\ Closed /\ RequestsReportDown

\* The entries of the list from a to b.
Listed(a, b) == {list[n] : n \in a .. b}

\* The dictionaries of a session have been opened by sj3_open, or are in the
\* list of sj3_open_with_list, which is still allocated; u is the user
\* dictionary's id, if that has been opened.
Known(u) == \/ sess.dicts \subseteq {MainDict} \cup u
            \/ freed = FALSE /\ sess.dicts \subseteq Listed(1, Len(list)) \cup u

\* What a session holds while it is being opened.
OpenedSoFar ==
    /\ pc \in {"connect", "connect1", "stdysize", "malloc", "mdict"} => sess.dicts = {}
    /\ pc \in Opening \ {"connect", "connect1", "erase"} => sess.user = arg.user
    /\ pc = "list" => /\ freed = FALSE /\ sess.dicts \subseteq Listed(1, k)
                      /\ \A n \in 1 .. k : list[n] # 0 => list[n] \in sess.dicts
    /\ pc \in {"dirs", "mkdir", "udict?", "udict+", "udict"} => Known({})
    /\ pc \in {"study?", "study+", "study", "idle"} => Known({udicid})

\* What it holds if there has been no error so far.
OpenedWell ==
    /\ pc \in {"dirs", "mkdir", "udict?", "udict+", "udict", "study?", "study+", "study"}
       /\ err = {} =>
            /\ arg.fn = "sj3_open" => mdicid = MainDict /\ mdicid \in sess.dicts
            /\ arg.dicts # <<>> => \E n \in DOMAIN list : list[n] \in sess.dicts
    /\ pc \in {"study?", "study+", "study"} /\ err = {} =>
            udicid = Private[arg.user] /\ udicid \in sess.dicts

\* What is left of it while it is being closed without an error.  Closing a
\* list that an earlier session has left behind succeeds only for dictionaries
\* that are open, so that every success takes one of the two away.
LeftToClose ==
    /\ pc = "close_list" =>
        \/ /\ sess.dicts \subseteq {MainDict, udicid}
           /\ k > 0 => MainDict \notin sess.dicts \/ udicid \notin sess.dicts
        \/ freed = FALSE /\ sess.dicts \subseteq Listed(k + 1, Len(list)) \cup {udicid}
    /\ pc = "close_mdict" => sess.dicts \subseteq {MainDict, udicid}
    /\ pc = "close_udict" => sess.dicts \subseteq {udicid} \/ udicid \notin sess.dicts
    /\ pc = "close_study" => sess.dicts = {}
    /\ pc = "disconnect"  => sess.dicts = {} /\ sess.stdy = FALSE

SessInv ==
    /\ sess # NoSess => /\ OpenedSoFar /\ OpenedWell
                        /\ err = {} => LeftToClose
    /\ OpenReady

----------------------------------------------------------------------------
(* What an exchange can lead to *)

\* The connection is gone on both ends.
Down(o) == o.ret = ERROR /\ o.fd = NoFd /\ o.sess = NoSess

\* The server has answered on a connection that stays.
Answered(o) == fd # NoFd /\ sess # NoSess /\ o.fd = fd /\ o.open = open

\* Outcomes keep their types.
OutcomeOK(o) == /\ o.errno \in Int /\ o.ret \in Int /\ o.open \subseteq Int
                /\ o.fs \in [User -> SUBSET Files]

\* A reply as the server may give it.
Reply(r) == r.code \in Int /\ r.val \in Int /\ r.fs \in [User -> SUBSET Files]

\* The part of the type invariant that an exchange depends on.
EnvOK == /\ fd \in Int /\ open \subseteq Int /\ fs \in [User -> SUBSET Files]
         /\ sess \in Session \cup {NoSess} /\ NoSess \notin Session
LEMMA EnvTypes == ASSUME TypeOK PROVE EnvOK
BY SessAssumption DEF TypeOK, EnvOK

\* A session stays one when a dictionary is opened or closed in it, or its study
\* file.
LEMMA SessionOpens ==
    ASSUME NEW s \in Session, NEW d \in Int
    PROVE  LET t == [s EXCEPT !.dicts = @ \cup {d}]
           IN  t \in Session /\ t.dicts = s.dicts \cup {d} /\ t.user = s.user
BY DEF Session
LEMMA SessionCloses ==
    ASSUME NEW s \in Session, NEW d
    PROVE  LET t == [s EXCEPT !.dicts = @ \ {d}]
           IN  t \in Session /\ t.dicts = s.dicts \ {d} /\ t.user = s.user
BY DEF Session
LEMMA SessionStudies ==
    ASSUME NEW s \in Session, NEW b \in BOOLEAN
    PROVE  LET t == [s EXCEPT !.stdy = b]
           IN  t \in Session /\ t.stdy = b /\ t.dicts = s.dicts /\ t.user = s.user
BY DEF Session

\* The connection is lost, or the server has answered.
LEMMA Outcome ==
    ASSUME EnvOK, Linkage, NEW R, NEW no, \A n \in no : n \in Int,
           \A r \in R : Reply(r),
           NEW o \in Exchange(R, no)
    PROVE  /\ OutcomeOK(o)
           /\ \/ Down(o)
              \/ /\ Answered(o)
                 /\ \E r \in R : /\ o.ret = r.val /\ o.errno = r.code
                                 /\ o.sess = r.sess /\ o.fs = r.fs
<1>1. CASE fd = NoFd
  BY <1>1 DEF Exchange, OutcomeOK, Down, EnvOK, Linkage, ERROR, NoFd, NotOpened
<1>2. CASE fd # NoFd
  <2> DEFINE Q == IF sess = NoSess THEN {} ELSE R
  <2>1. \/ o \in put_flush
        \/ o \in get_buffer(no, Q)
        \/ \E r \in Q : o = [ret |-> r.val, errno |-> r.code, fd |-> fd, open |-> open,
                             sess |-> r.sess, fs |-> r.fs]
    BY <1>2 DEF Exchange
  <2>5. ASSUME NEW n \in Int, NEW f \in [User -> SUBSET Files], o = Lost(n, f)
        PROVE  OutcomeOK(o) /\ Down(o)
    <3>1. o.open \subseteq Int
      BY <2>5 DEF Lost, EnvOK
    <3> QED BY <2>5, <3>1 DEF Lost, OutcomeOK, Down, ERROR, NoFd
  <2>2. CASE o \in put_flush
    <3>1. o = Lost(ServerDown, fs)
      BY <2>2 DEF put_flush
    <3> QED BY <3>1, <2>5 DEF ServerDown, EnvOK
  <2>3. CASE o \in get_buffer(no, Q)
    <3>1. PICK n \in no, f \in {fs} \cup {r.fs : r \in Q} : o = Lost(n, f)
      BY <2>3 DEF get_buffer
    <3>2. f \in [User -> SUBSET Files]
      BY <3>1 DEF EnvOK, Reply
    <3> QED BY <3>1, <3>2, <2>5
  <2>4. CASE \E r \in Q : o = [ret |-> r.val, errno |-> r.code, fd |-> fd, open |-> open,
                               sess |-> r.sess, fs |-> r.fs]
    BY <1>2, <2>4 DEF Answered, OutcomeOK, EnvOK, Reply
  <2> QED BY <2>1, <2>2, <2>3, <2>4
<1> QED BY <1>1, <1>2

\* Opening a dictionary: 0 and nothing changes, or the id and it is open.
LEMMA OpenDictionary ==
    ASSUME EnvOK, Linkage, NEW d \in Int, NEW there, NEW o \in sj3_open_dictionary(d, there)
    PROVE  /\ OutcomeOK(o)
           /\ \/ Down(o)
              \/ Answered(o) /\ o.ret = 0 /\ o.sess = sess
              \/ Answered(o) /\ o.ret = d /\ o.sess = [sess EXCEPT !.dicts = @ \cup {d}]
<1> DEFINE no == {0, ServerDown}
           s1 == [sess EXCEPT !.dicts = @ \cup {d}]
           R  == {Rep(CannotOpenFile, 0, sess, fs)}
                 \cup IF there THEN {Rep(0, d, s1, fs)} ELSE {}
<1>1. \A r \in R : r = Rep(CannotOpenFile, 0, sess, fs) \/ r = Rep(0, d, s1, fs)
  OBVIOUS
<1>2. o \in Exchange(R, no)
  BY DEF sj3_open_dictionary, Valued
<1>3. \A n \in no : n \in Int
  BY DEF ServerDown
<1> HIDE DEF R, no, s1
<1>4. \A r \in R : /\ Reply(r)
                   /\ (r.val = 0 /\ r.sess = sess) \/ (r.val = d /\ r.sess = s1)
  BY <1>1 DEF Rep, Reply, EnvOK, CannotOpenFile
<1>5. /\ OutcomeOK(o)
      /\ \/ Down(o)
         \/ Answered(o) /\ \E r \in R : o.ret = r.val /\ o.sess = r.sess
  BY <1>2, <1>3, <1>4, Outcome
<1> QED BY <1>4, <1>5 DEF s1

\* Closing one: it was open and is not any more, or nothing changes and the
\* error is not taken for a lost connection.
LEMMA CloseDictionary ==
    ASSUME EnvOK, Linkage, NEW d, NEW o \in sj3_close_dictionary(d)
    PROVE  /\ OutcomeOK(o)
           /\ \/ Down(o)
              \/ /\ Answered(o) /\ o.ret = 0 /\ d \in sess.dicts
                 /\ o.sess = [sess EXCEPT !.dicts = @ \ {d}]
              \/ Answered(o) /\ Failed(o) /\ ~Dead(o) /\ o.sess = sess
<1> DEFINE no == {0}
           s1 == [sess EXCEPT !.dicts = @ \ {d}]
           R  == IF sess # NoSess /\ d \in sess.dicts
                 THEN {Rep(0, 0, s1, fs)}
                 ELSE {Rep(BadDictID, ERROR, sess, fs)}
<1>1. \A r \in R : \/ r = Rep(0, 0, s1, fs) /\ d \in sess.dicts
                   \/ r = Rep(BadDictID, ERROR, sess, fs)
  OBVIOUS
<1>2. o \in Exchange(R, no)
  BY DEF sj3_close_dictionary, Coded
<1>3. \A n \in no : n \in Int
  OBVIOUS
<1> HIDE DEF R, no, s1
<1>4. \A r \in R : /\ Reply(r)
                   /\ \/ r.val = 0 /\ d \in sess.dicts /\ r.sess = s1
                      \/ r.val = ERROR /\ r.code = BadDictID /\ r.sess = sess
  BY <1>1 DEF Rep, Reply, EnvOK, BadDictID, ERROR
<1>5. /\ OutcomeOK(o)
      /\ \/ Down(o)
         \/ Answered(o) /\ \E r \in R : o.ret = r.val /\ o.errno = r.code /\ o.sess = r.sess
  BY <1>2, <1>3, <1>4, Outcome
<1> QED BY <1>4, <1>5 DEF s1, Failed, Dead, BadDictID, ServerDown

\* Opening the study file.
LEMMA OpenStudyFile ==
    ASSUME EnvOK, Linkage, NEW there, NEW o \in sj3_open_study_file(there)
    PROVE  /\ OutcomeOK(o)
           /\ \/ Down(o)
              \/ Answered(o) /\ o.ret = 0 /\ o.sess = [sess EXCEPT !.stdy = TRUE]
              \/ Answered(o) /\ Failed(o) /\ ~Dead(o) /\ o.sess = sess
<1> DEFINE no == {0}
           s1 == [sess EXCEPT !.stdy = TRUE]
           R  == {Rep(CannotOpenFile, ERROR, sess, fs)}
                 \cup IF there THEN {Rep(0, 0, s1, fs)} ELSE {}
<1>1. \A r \in R : r = Rep(CannotOpenFile, ERROR, sess, fs) \/ r = Rep(0, 0, s1, fs)
  OBVIOUS
<1>2. o \in Exchange(R, no)
  BY DEF sj3_open_study_file, StudyOpened, Coded
<1>3. \A n \in no : n \in Int
  OBVIOUS
<1> HIDE DEF R, no, s1
<1>4. \A r \in R : /\ Reply(r)
                   /\ \/ r.val = 0 /\ r.sess = s1
                      \/ r.val = ERROR /\ r.code = CannotOpenFile /\ r.sess = sess
  BY <1>1 DEF Rep, Reply, EnvOK, CannotOpenFile, ERROR
<1>5. /\ OutcomeOK(o)
      /\ \/ Down(o)
         \/ Answered(o) /\ \E r \in R : o.ret = r.val /\ o.errno = r.code /\ o.sess = r.sess
  BY <1>2, <1>3, <1>4, Outcome
<1>6. /\ OutcomeOK(o)
      /\ \/ Down(o)
         \/ Answered(o) /\ o.ret = 0 /\ o.sess = s1
         \/ Answered(o) /\ Failed(o) /\ ~Dead(o) /\ o.sess = sess
  BY <1>4, <1>5 DEF Failed, Dead, CannotOpenFile, ServerDown
<1> QED BY <1>6 DEF s1

\* Closing it.
LEMMA CloseStudyFile ==
    ASSUME EnvOK, Linkage, NEW o \in sj3_close_study_file
    PROVE  /\ OutcomeOK(o)
           /\ \/ Down(o)
              \/ Answered(o) /\ o.ret = 0 /\ o.sess = [sess EXCEPT !.stdy = FALSE]
              \/ Answered(o) /\ Failed(o) /\ ~Dead(o) /\ o.sess = sess
<1> DEFINE no == {0}
           s1 == [sess EXCEPT !.stdy = FALSE]
           R  == IF sess # NoSess /\ sess.stdy
                 THEN {Rep(0, 0, s1, fs)}
                 ELSE {Rep(StdyFileNotOpened, ERROR, sess, fs)}
<1>1. \A r \in R : r = Rep(StdyFileNotOpened, ERROR, sess, fs) \/ r = Rep(0, 0, s1, fs)
  OBVIOUS
<1>2. o \in Exchange(R, no)
  BY DEF sj3_close_study_file, Coded
<1>3. \A n \in no : n \in Int
  OBVIOUS
<1> HIDE DEF R, no, s1
<1>4. \A r \in R : /\ Reply(r)
                   /\ \/ r.val = 0 /\ r.sess = s1
                      \/ r.val = ERROR /\ r.code = StdyFileNotOpened /\ r.sess = sess
  BY <1>1 DEF Rep, Reply, EnvOK, StdyFileNotOpened, ERROR
<1>5. /\ OutcomeOK(o)
      /\ \/ Down(o)
         \/ Answered(o) /\ \E r \in R : o.ret = r.val /\ o.errno = r.code /\ o.sess = r.sess
  BY <1>2, <1>3, <1>4, Outcome
<1>6. /\ OutcomeOK(o)
      /\ \/ Down(o)
         \/ Answered(o) /\ o.ret = 0 /\ o.sess = s1
         \/ Answered(o) /\ Failed(o) /\ ~Dead(o) /\ o.sess = sess
  BY <1>4, <1>5 DEF Failed, Dead, StdyFileNotOpened, ServerDown
<1> QED BY <1>6 DEF s1

\* Asking for a file leaves the session alone, and its failure is not taken for
\* a lost connection.
LEMMA AccessFile ==
    ASSUME EnvOK, Linkage, NEW u \in User, NEW f, NEW o \in sj3_access(u, f)
    PROVE  /\ OutcomeOK(o)
           /\ Down(o) \/ (Answered(o) /\ ~Dead(o) /\ o.sess = sess)
<1> DEFINE no == {ServerDown}
           R  == {Rep(0, IF f \in fs[u] THEN 0 ELSE ERROR, sess, fs)}
<1>1. \A r \in R : Reply(r) /\ r.code = 0 /\ r.sess = sess
  BY DEF Rep, Reply, EnvOK, ERROR
<1>2. o \in Exchange(R, no)
  BY DEF sj3_access
<1>3. \A n \in no : n \in Int
  BY DEF ServerDown
<1> HIDE DEF R, no
<1>5. /\ OutcomeOK(o)
      /\ \/ Down(o)
         \/ Answered(o) /\ \E r \in R : o.errno = r.code /\ o.sess = r.sess
  BY <1>1, <1>2, <1>3, Outcome
<1> QED BY <1>1, <1>5 DEF Dead, ServerDown

\* Nor does making one.
LEMMA MakeAFile ==
    ASSUME EnvOK, Linkage, NEW u \in User, NEW f \in Files, NEW o \in Make(u, f)
    PROVE  /\ OutcomeOK(o)
           /\ Down(o) \/ (Answered(o) /\ ~Dead(o) /\ o.sess = sess)
<1> DEFINE no == {0}
           f1 == [fs EXCEPT ![u] = @ \cup {f}]
           R  == {Rep(CannotOpenFile, ERROR, sess, fs)}
                 \cup IF f \in fs[u] \/ (f # "dir" /\ "dir" \notin fs[u]) THEN {}
                      ELSE {Rep(0, 0, sess, f1)}
<1>1. \A r \in R : r = Rep(CannotOpenFile, ERROR, sess, fs) \/ r = Rep(0, 0, sess, f1)
  OBVIOUS
<1>2. o \in Exchange(R, no)
  BY DEF Make, Coded
<1>3. \A n \in no : n \in Int
  OBVIOUS
<1>4. f1 \in [User -> SUBSET Files]
  BY DEF EnvOK
<1> HIDE DEF R, no, f1
<1>5. \A r \in R : Reply(r) /\ r.code \in {0, CannotOpenFile} /\ r.sess = sess
  BY <1>1, <1>4 DEF Rep, Reply, EnvOK, CannotOpenFile, ERROR
<1>6. /\ OutcomeOK(o)
      /\ \/ Down(o)
         \/ Answered(o) /\ \E r \in R : o.errno = r.code /\ o.sess = r.sess
  BY <1>2, <1>3, <1>5, Outcome
<1> QED BY <1>5, <1>6 DEF Dead, CannotOpenFile, ServerDown

\* After DISCONNECT there is no connection, whatever the server answered.
LEMMA EraseConnection ==
    ASSUME EnvOK, Linkage, NEW o \in sj3_erase_connection
    PROVE  OutcomeOK(o) /\ o.fd = NoFd /\ o.sess = NoSess
<1> DEFINE no == {0}
           R  == {Rep(0, 0, NoSess, fs)}
<1>1. \A r \in R : Reply(r)
  BY DEF Rep, Reply, EnvOK
<1>2. PICK p \in Exchange(R, no) :
           o = [p EXCEPT !.open = p.open \ {fd}, !.fd = NoFd, !.sess = NoSess]
  BY DEF sj3_erase_connection, Coded
<1>3. \A n \in no : n \in Int
  OBVIOUS
<1>6. \A q \in Exchange(R, no) : /\ DOMAIN q = {"ret", "errno", "fd", "open", "sess", "fs"}
                                 /\ q = [x \in DOMAIN q |-> q[x]]
  BY DEF Exchange, put_flush, get_buffer, Lost
<1> HIDE DEF R, no
<1>4. OutcomeOK(p)
  BY <1>1, <1>3, Outcome
<1>5. /\ o.errno = p.errno /\ o.ret = p.ret /\ o.open = p.open \ {fd} /\ o.fs = p.fs
      /\ o.fd = NoFd /\ o.sess = NoSess
  BY <1>2, <1>6
<1> QED BY <1>4, <1>5 DEF OutcomeOK

\* The requests of the application leave the session alone, and the error they
\* are refused with is one of the codes that the library translates.
LEMMA Answering ==
    ASSUME EnvOK, Linkage, NEW R, NEW no, \A n \in no : n \in Int,
           \A r \in R : r.code \in Code /\ r.val \in Int /\ r.sess = sess /\ r.fs = fs,
           NEW o \in Exchange(R, no)
    PROVE  /\ OutcomeOK(o)
           /\ Down(o) \/ (Answered(o) /\ o.sess = sess /\ o.errno \in Code)
<1>1. \A r \in R : Reply(r)
  BY DEF Reply, EnvOK, Code
<1>2. /\ OutcomeOK(o)
      /\ \/ Down(o)
         \/ Answered(o) /\ \E r \in R : o.errno = r.code /\ o.sess = r.sess
  BY <1>1, Outcome
<1> QED BY <1>2

----------------------------------------------------------------------------
(* The parts of the type invariant, and the ways in which a step ends *)

IdsOK  == /\ mdicid \in Int /\ udicid \in Int /\ list \in Seq(Int) /\ freed \in BOOLEAN
          /\ svr \in 0 .. 2
CallOK == /\ pc \in Opening \cup Closing \cup {"idle", "aborted"} /\ k \in Nat
          /\ arg \in [fn : OpenFn \cup {"sj3_close", "none"}, user : User \cup {NoUser},
                      dicts : Seq(Int)]

LEMMA TypeParts == TypeOK <=> EnvOK /\ errno \in Int /\ IdsOK /\ CallOK
BY SessAssumption DEF TypeOK, EnvOK, IdsOK, CallOK

\* The same in the next state.
LEMMA TypeParts1 ==
    ASSUME EnvOK', errno' \in Int, IdsOK', CallOK' PROVE TypeOK'
BY DEF TypeOK, EnvOK, IdsOK, CallOK

\* The connection is lost in a step, or lives through it.
Lose == fd' = NoFd /\ sess' = NoSess
Keep == fd # NoFd /\ sess # NoSess /\ fd' = fd /\ open' = open /\ sess' # NoSess

\* What taking an outcome does to the environment.
LEMMA TakeOutcome ==
    ASSUME EnvOK, NEW o, OutcomeOK(o), Take(o)
    PROVE  /\ errno' \in Int
           /\ o.fd = NoFd /\ o.sess = NoSess => Lose /\ EnvOK'
           /\ Answered(o) /\ o.sess \in Session => Keep /\ EnvOK'
BY DEF EnvOK, OutcomeOK, Take, Lose, Keep, Answered, NoFd

LEMMA LinkageKept ==
    ASSUME Linkage, Lose \/ (Keep /\ pc' \notin {"unix", "inet"})
    PROVE  Linkage'
BY DEF Linkage, Lose, Keep, NoFd

\* The parts of the type invariant from it.
LEMMA Parts == ASSUME TypeOK PROVE EnvOK /\ errno \in Int /\ IdsOK /\ CallOK
BY TypeParts

\* A call returns.
LEMMA Returns ==
    ASSUME LinkInv, pc \in Opening \cup Closing, EnvOK', errno' \in Int, IdsOK',
           Lose \/ (Keep /\ pc \in Opening), NEW v, Return(v)
    PROVE  LinkInv'
<1> USE DEF LinkInv
<1>1. CallOK /\ Calls
  BY Parts
<1>2. CallOK'
  <2>1. NoArg \in [fn : OpenFn \cup {"sj3_close", "none"}, user : User \cup {NoUser},
                   dicts : Seq(Int)]
    BY DEF NoArg
  <2> QED BY <1>1, <2>1 DEF Return, CallOK
<1>3. Linkage'
  BY LinkageKept DEF Return
<1>4. Calls'
  BY DEF Return, Calls, Opening, Closing
<1>5. ret'.fn = arg.fn
  BY DEF Return
<1>6. Closed' /\ RequestsReportDown'
  BY <1>1, <1>5 DEF Closed, RequestsReportDown, Calls, Lose, OpenFn, Opening, Closing
<1> QED BY <1>2, <1>3, <1>4, <1>6, TypeParts1

\* free() aborts the process.
LEMMA Aborts ==
    ASSUME LinkInv, EnvOK', errno' \in Int, IdsOK', Lose \/ Keep, Aborted
    PROVE  LinkInv'
<1> USE DEF LinkInv
<1>1. CallOK'
  <2>1. NoArg \in [fn : OpenFn \cup {"sj3_close", "none"}, user : User \cup {NoUser},
                   dicts : Seq(Int)]
    BY DEF NoArg
  <2> QED BY <2>1 DEF Aborted, CallOK
<1>2. Linkage'
  BY LinkageKept DEF Aborted
<1>3. Calls' /\ Closed' /\ RequestsReportDown'
  BY DEF Aborted, Calls, Closed, RequestsReportDown, Opening, Closing
<1> QED BY <1>1, <1>2, <1>3, TypeParts1

\* A call goes on.
LEMMA GoesOn ==
    ASSUME LinkInv, EnvOK', errno' \in Int, IdsOK', k' \in Nat,
           NEW l \in (Opening \cup Closing) \ {"unix", "inet"}, Goto(l),
           Lose \/ Keep, Calls'
    PROVE  LinkInv'
<1> USE DEF LinkInv
<1>1. CallOK'
  BY Parts DEF Goto, CallOK
<1>2. Linkage'
  BY LinkageKept DEF Goto
<1>3. Closed' /\ RequestsReportDown'
  BY DEF Goto, Closed, RequestsReportDown, Opening, Closing
<1> QED BY <1>1, <1>2, <1>3, TypeParts1

\* The connection was found lost while a session was opened.
LEMMA ServerDead ==
    ASSUME LinkInv, pc \in Opening, EnvOK', errno' \in Int, Lose, server_dead
    PROVE  LinkInv'
<1>1. IdsOK
  BY Parts DEF LinkInv
<1>2. IdsOK'
  <2>1. freed' \in BOOLEAN
    BY <1>1, Zenon DEF IdsOK, server_dead, FreeList
  <2>2. list' \in Seq(Int) /\ svr' \in 0 .. 2 /\ mdicid' \in Int /\ udicid' \in Int
    BY <1>1 DEF IdsOK, server_dead, FreeList
  <2> QED BY <2>1, <2>2 DEF IdsOK
<1>3. Return({"SERVER_DEAD"}) \/ Aborted
  BY DEF server_dead, FreeList
<1> QED BY <1>2, <1>3, Returns, Aborts

\* Or while one was closed.
LEMMA CloseDead ==
    ASSUME LinkInv, pc \in Closing, EnvOK', errno' \in Int, Lose, close_dead
    PROVE  LinkInv'
<1>1. IdsOK
  BY Parts DEF LinkInv
<1>2. IdsOK'
  <2>1. freed' \in BOOLEAN
    BY <1>1, Zenon DEF IdsOK, close_dead
  <2>2. list' \in Seq(Int) /\ svr' \in 0 .. 2 /\ mdicid' \in Int /\ udicid' \in Int
    BY <1>1 DEF IdsOK, close_dead
  <2> QED BY <2>1, <2>2 DEF IdsOK
<1>3. Return({"SERVER_DEAD"}) \/ Aborted
  BY DEF close_dead
<1> QED BY <1>2, <1>3, Returns, Aborts

----------------------------------------------------------------------------
(* Opening a session *)

Inv == LinkInv /\ SessInv

LEMMA SteadyIds == ASSUME IdsOK, Steady PROVE IdsOK'
BY DEF IdsOK, Steady, ids

\* Nothing is claimed about a session that is gone, once the call has failed.
LEMMA SessLost ==
    ASSUME Lose, pc' # "idle" \/ ret'.fn \notin OpenFn \/ ret'.val # {}
    PROVE  SessInv'
BY DEF SessInv, Lose, OpenReady

LEMMA Dying ==
    ASSUME LinkInv, EnvOK', errno' \in Int, Lose,
           (pc \in Opening /\ server_dead) \/ (pc \in Closing /\ close_dead)
    PROVE  Inv'
<1>1. LinkInv'
  BY ServerDead, CloseDead
<1>2. pc' # "idle" \/ ret'.val # {}
  BY DEF server_dead, close_dead, FreeList, Return, Aborted
<1> QED BY <1>1, <1>2, SessLost DEF Inv

\* The environment after an outcome.
LEMMA Takes ==
    ASSUME LinkInv, NEW o, OutcomeOK(o), Take(o),
           (o.fd = NoFd /\ o.sess = NoSess) \/ (Answered(o) /\ o.sess \in Session)
    PROVE  /\ errno' \in Int /\ EnvOK' /\ sess' = o.sess
           /\ \/ o.fd = NoFd /\ Lose
              \/ Answered(o) /\ sess' \in Session /\ Keep
<1>1. EnvOK
  BY Parts DEF LinkInv
<1> QED BY <1>1, TakeOutcome DEF Take

LEMMA BeginStep ==
    ASSUME Inv, NEW fn \in OpenFn, NEW h \in {"unix", "inet"}, NEW u \in User,
           NEW ds \in Seq(Int), fn = "sj3_open" => ds = <<>>, Begin(fn, h, u, ds)
    PROVE  Inv'
<1>1. EnvOK /\ errno \in Int /\ IdsOK /\ CallOK
  BY Parts DEF Inv, LinkInv
<1>2. EnvOK' /\ errno' \in Int /\ IdsOK'
  BY <1>1, SteadyIds DEF Begin, env, EnvOK
<1>3. CallOK'
  BY DEF CallOK, Begin, Opening
<1>6. /\ fd' = fd /\ open' = open /\ sess' = sess /\ pc = "idle"
      /\ pc' = (IF fd = NoFd THEN h ELSE "idle")
      /\ arg'.fn = fn /\ arg'.user = u /\ arg'.dicts = ds
  BY DEF Begin, env
<1>7. ret'.fn \notin {"request", "sj3_close"}
  BY DEF Begin, NoRet, OpenFn
<1>4. Linkage' /\ Calls' /\ Closed' /\ RequestsReportDown'
  <2>1. Linkage'
    BY <1>6 DEF Inv, LinkInv, Linkage
  <2>2. Calls'
    BY <1>6 DEF Calls, Opening, Closing
  <2>3. Closed' /\ RequestsReportDown'
    BY <1>7 DEF Closed, RequestsReportDown
  <2> QED BY <2>1, <2>2, <2>3
<1>5. SessInv'
  <2>1. CASE fd = NoFd
    <3>1. Lose /\ pc' # "idle"
      BY <2>1 DEF Begin, env, Lose, Inv, LinkInv, Linkage
    <3> QED BY <3>1, SessLost
  <2>2. CASE fd # NoFd
    <3>1. pc' = pc /\ pc = "idle" /\ UNCHANGED <<sess, list, freed, udicid>>
      BY <2>2, <1>6 DEF Begin, Steady, ids
    <3>2. ret'.val # {}
      <4>1. ret' = [fn |-> fn, val |-> {"ALREADY_CONNECTED"}]
        BY <2>2 DEF Begin
      <4>2. ret'.val = {"ALREADY_CONNECTED"}
        BY <4>1
      <4> QED BY <4>2
    <3> QED BY <3>1, <3>2 DEF Inv, SessInv, OpenedSoFar, OpenedWell, LeftToClose, OpenReady,
                        Opening, Known, Listed
  <2> QED BY <2>1, <2>2
<1> QED BY <1>2, <1>3, <1>4, <1>5, TypeParts1 DEF Inv, LinkInv

\* A connection has been made: the server has nothing open for it.
LEMMA ConnectedStep ==
    ASSUME Inv, pc \in {"unix", "inet"}, NEW n \in NewFd, Connected(n), Steady, UNCHANGED fs
    PROVE  Inv'
<1>1. EnvOK /\ errno \in Int /\ IdsOK /\ CallOK
  BY Parts DEF Inv, LinkInv
<1>2. Linked(NoUser) \in Session /\ Linked(NoUser) # NoSess /\ Linked(NoUser).dicts = {}
  <2>1. Linked(NoUser) \in Session
    BY DEF Linked, Session
  <2>2. Linked(NoUser).dicts = {}
    BY DEF Linked
  <2> QED BY <2>1, <2>2, <1>1 DEF EnvOK
<1>3. n \in Int /\ n # NoFd
  BY FdAssumption DEF NewFd, NoFd
<1>4. EnvOK' /\ errno' \in Int /\ IdsOK'
  BY <1>1, <1>2, <1>3, SteadyIds DEF Connected, EnvOK
<1>5. CallOK'
  BY <1>1 DEF CallOK, Connected, Goto, Opening
<1>6. Linkage'
  BY <1>3 DEF Linkage, Connected, Goto
<1>7. Calls' /\ Closed' /\ RequestsReportDown'
  BY DEF Inv, LinkInv, Calls, Closed, RequestsReportDown, Connected, Goto, Opening, Closing
<1>8. SessInv'
  BY <1>2 DEF SessInv, OpenedSoFar, OpenedWell, LeftToClose, OpenReady, Opening, Connected, Goto
<1> QED BY <1>4, <1>5, <1>6, <1>7, <1>8, TypeParts1 DEF Inv, LinkInv

\* No connection could be made.
LEMMA RefusedStep ==
    ASSUME LinkInv, pc \in Opening, EnvOK', errno' \in Int, IdsOK', Lose, Refused
    PROVE  Inv'
<1>1. LinkInv'
  BY Returns DEF Refused
<1>2. SessInv'
  BY SessLost DEF Refused, Return
<1> QED BY <1>1, <1>2 DEF Inv

LEMMA OpenUnixStep == ASSUME Inv, open_unix PROVE Inv'
<1>1. EnvOK /\ errno \in Int /\ IdsOK
  BY Parts DEF Inv, LinkInv
<1>2. pc \in Opening /\ fd = NoFd /\ sess = NoSess
  BY DEF open_unix, Opening, Inv, LinkInv, Linkage
<1>3. IdsOK'
  BY <1>1, SteadyIds DEF open_unix
<1>4. CASE NewFd = {} /\ errno' = OpenSocket /\ UNCHANGED <<fd, open, sess>> /\ Refused
  <2>1. EnvOK' /\ errno' \in Int /\ Lose
    BY <1>1, <1>2, <1>4 DEF EnvOK, Lose, open_unix, OpenSocket
  <2> QED BY <1>2, <1>3, <1>4, <2>1, RefusedStep DEF Inv
<1>5. CASE \E n \in NewFd : /\ open' = open \cup {n} /\ errno' = ConnectSocket
                            /\ UNCHANGED <<fd, sess>> /\ Refused
  <2>1. EnvOK' /\ errno' \in Int /\ Lose
    BY <1>1, <1>2, <1>5 DEF EnvOK, Lose, open_unix, ConnectSocket, NewFd
  <2> QED BY <1>2, <1>3, <1>5, <2>1, RefusedStep DEF Inv
<1>6. CASE \E n \in NewFd : Connected(n)
  BY <1>6, ConnectedStep DEF open_unix
<1> QED BY <1>4, <1>5, <1>6 DEF open_unix

LEMMA OpenInetStep == ASSUME Inv, open_inet PROVE Inv'
<1>1. EnvOK /\ errno \in Int /\ IdsOK /\ CallOK
  BY Parts DEF Inv, LinkInv
<1>2. pc \in Opening /\ fd = NoFd /\ sess = NoSess
  BY DEF open_inet, Opening, Inv, LinkInv, Linkage
<1>3. IdsOK'
  BY <1>1, SteadyIds DEF open_inet
<1>4. CASE errno' = GetHostByName /\ UNCHANGED <<fd, open, sess>> /\ Refused
  <2>1. EnvOK' /\ errno' \in Int /\ Lose
    BY <1>1, <1>2, <1>4 DEF EnvOK, Lose, open_inet, GetHostByName
  <2> QED BY <1>2, <1>3, <1>4, <2>1, RefusedStep DEF Inv
<1>5. CASE /\ fd' = IF NewFd = {} THEN OpenSocket ELSE ConnectSocket
           /\ Goto("connect") /\ UNCHANGED <<open, sess, errno, err, k>>
  <2>1. EnvOK' /\ errno' \in Int
    BY <1>1, <1>2, <1>5 DEF EnvOK, open_inet, OpenSocket, ConnectSocket
  <2>2. Linkage'
    BY <1>2, <1>5 DEF Linkage, Goto
  <2>3. CallOK'
    BY <1>1, <1>5 DEF CallOK, Goto, Opening
  <2>4. Calls' /\ Closed' /\ RequestsReportDown'
    BY <1>2, <1>5 DEF Inv, LinkInv, Calls, Closed, RequestsReportDown, Goto, Opening, Closing
  <2>5. SessInv'
    BY <1>2, <1>5 DEF SessInv, OpenReady, Goto
  <2> QED BY <1>3, <2>1, <2>2, <2>3, <2>4, <2>5, TypeParts1 DEF Inv, LinkInv
<1>6. CASE \E n \in NewFd : Connected(n)
  BY <1>6, ConnectedStep DEF open_inet
<1> QED BY <1>4, <1>5, <1>6 DEF open_inet

\* CONNECT: the server accepts the user, or the session stays as it is.
LEMMA ConnectOutcome ==
    ASSUME EnvOK, Linkage, arg.user \in User, NEW replies \in SUBSET Int,
           NEW o \in Exchange({Rep(c, c, IF c \in {0, NewServer} THEN Linked(arg.user)
                                         ELSE sess, fs) : c \in replies}, {0})
    PROVE  /\ OutcomeOK(o)
           /\ \/ Down(o)
              \/ Answered(o) /\ o.ret \in replies /\ o.sess = Linked(arg.user)
              \/ Answered(o) /\ o.ret \in replies \ {0, NewServer} /\ o.sess = sess
<1> DEFINE no == {0}
           R  == {Rep(c, c, IF c \in {0, NewServer} THEN Linked(arg.user) ELSE sess, fs) :
                     c \in replies}
<1>1. \A r \in R : \E c \in replies :
          r = Rep(c, c, IF c \in {0, NewServer} THEN Linked(arg.user) ELSE sess, fs)
  OBVIOUS
<1>2. o \in Exchange(R, no)
  OBVIOUS
<1>3. \A n \in no : n \in Int
  OBVIOUS
<1> HIDE DEF R, no
<1>4. \A r \in R : /\ Reply(r) /\ r.val \in replies
                   /\ \/ r.sess = Linked(arg.user)
                      \/ r.sess = sess /\ r.val \notin {0, NewServer}
  BY <1>1 DEF Rep, Reply, EnvOK
<1>5. /\ OutcomeOK(o)
      /\ \/ Down(o)
         \/ Answered(o) /\ \E r \in R : o.ret = r.val /\ o.sess = r.sess
  BY <1>2, <1>3, <1>4, Outcome
<1> QED BY <1>4, <1>5

LEMMA LinkedSession ==
    ASSUME NEW u \in User
    PROVE  Linked(u) \in Session /\ Linked(u).dicts = {} /\ Linked(u).user = u
<1>1. Linked(u) \in Session
  BY DEF Linked, Session
<1>2. Linked(u).dicts = {} /\ Linked(u).user = u
  BY DEF Linked
<1> QED BY <1>1, <1>2

LEMMA ConnectStep ==
    ASSUME Inv, NEW label \in {"connect", "connect1"}, NEW next \in {"connect1", "erase"},
           NEW replies \in SUBSET Int, ERROR \notin replies,
           Connect(label, replies, next)
    PROVE  Inv'
<1>1. LinkInv /\ EnvOK /\ IdsOK /\ CallOK
  BY Parts DEF Inv, LinkInv
<1>2. pc = label /\ pc \in Opening /\ arg.user \in User /\ Linkage
  BY DEF Connect, Opening, Inv, LinkInv, Calls
<1>3. PICK o \in Exchange({Rep(c, c, IF c \in {0, NewServer} THEN Linked(arg.user) ELSE sess,
                                fs) : c \in replies}, {0}) :
        /\ Take(o)
        /\ \/ Failed(o) /\ Dead(o) /\ server_dead
           \/ /\ Failed(o) /\ ~Dead(o) /\ svr' = Version(0)
              /\ Refused /\ UNCHANGED ids
           \/ /\ o.ret \in {0, NewServer} /\ svr' = Version(o.ret)
              /\ Goto("stdysize") /\ UNCHANGED <<ids, err, k>>
           \/ /\ o.ret > 0
              /\ Goto(IF o.ret = DifferentVersion THEN next ELSE "erase")
              /\ Steady /\ UNCHANGED <<err, k>>
  BY DEF Connect
<1>4. /\ OutcomeOK(o)
      /\ \/ Down(o)
         \/ Answered(o) /\ o.ret \in replies /\ o.sess = Linked(arg.user)
         \/ Answered(o) /\ o.ret \in replies \ {0, NewServer} /\ o.sess = sess
  BY <1>1, <1>2, ConnectOutcome
<1>5. Linked(arg.user) \in Session /\ Linked(arg.user).dicts = {}
      /\ Linked(arg.user).user = arg.user
  BY <1>2, LinkedSession
<1>6. /\ errno' \in Int /\ EnvOK' /\ sess' = o.sess
      /\ \/ o.fd = NoFd /\ Lose
         \/ Answered(o) /\ sess' \in Session /\ Keep
  BY <1>1, <1>3, <1>4, <1>5, Takes DEF Down, Answered, EnvOK
<1>7. CASE Failed(o)
  <2>1. Down(o)
    BY <1>4, <1>7 DEF Failed
  <2>2. Lose
    BY <1>6, <2>1 DEF Down, Answered, Keep
  <2>3. CASE Dead(o) /\ server_dead
    BY <1>1, <1>2, <1>6, <2>2, <2>3, Dying
  <2>4. CASE svr' = Version(0) /\ Refused /\ UNCHANGED ids
    <3>1. IdsOK'
      BY <1>1, <2>4 DEF IdsOK, ids, Version
    <3> QED BY <1>1, <1>2, <1>6, <2>2, <2>4, <3>1, RefusedStep
  <2> QED BY <1>3, <1>7, <2>3, <2>4 DEF Failed, ERROR, NewServer
<1>8. CASE ~Failed(o)
  <2>1. ~Down(o) /\ Keep
    BY <1>4, <1>6, <1>8 DEF Down, Failed, Answered
  <2>2. CASE /\ o.ret \in {0, NewServer} /\ svr' = Version(o.ret)
             /\ Goto("stdysize") /\ UNCHANGED <<ids, err, k>>
    <3>1. IdsOK'
      BY <1>1, <2>2 DEF IdsOK, ids, Version, NewServer
    <3>2. Calls' /\ k' \in Nat /\ "stdysize" \in (Opening \cup Closing) \ {"unix", "inet"}
      BY <1>1, <1>2, <2>2 DEF LinkInv, Calls, Goto, Opening, Closing, CallOK
    <3>3. LinkInv'
      BY <1>1, <1>6, <2>1, <2>2, <3>1, <3>2, GoesOn
    <3>4. sess' = Linked(arg.user) /\ arg' = arg /\ pc' = "stdysize"
      BY <1>4, <1>6, <2>1, <2>2 DEF Goto
    <3>5. SessInv'
      BY <1>5, <3>4 DEF SessInv, OpenedSoFar, OpenedWell, LeftToClose, OpenReady, Opening
    <3> QED BY <3>3, <3>5 DEF Inv
  <2>3. CASE /\ o.ret > 0
             /\ Goto(IF o.ret = DifferentVersion THEN next ELSE "erase")
             /\ Steady /\ UNCHANGED <<err, k>>
    <3> DEFINE l == IF o.ret = DifferentVersion THEN next ELSE "erase"
    <3>1. l \in {"connect1", "erase"} /\ Goto(l)
      BY <2>3
    <3> HIDE DEF l
    <3>2. IdsOK' /\ k' \in Nat
      BY <1>1, <2>3, SteadyIds DEF CallOK
    <3>3. Calls' /\ l \in (Opening \cup Closing) \ {"unix", "inet"}
      BY <1>1, <1>2, <3>1 DEF LinkInv, Calls, Goto, Opening, Closing, CallOK
    <3>4. LinkInv'
      BY <1>1, <1>6, <2>1, <3>1, <3>2, <3>3, GoesOn
    <3>5. sess'.dicts = {} /\ pc' = l
      BY <1>2, <1>4, <1>5, <1>6, <2>1, <3>1 DEF Goto, Inv, SessInv, OpenedSoFar, Answered
    <3>6. SessInv'
      BY <3>1, <3>5 DEF SessInv, OpenedSoFar, OpenedWell, LeftToClose, OpenReady, Opening
    <3> QED BY <3>4, <3>6 DEF Inv
  <2> QED BY <1>3, <1>8, <2>2, <2>3
<1> QED BY <1>7, <1>8

LEMMA StdySizeStep == ASSUME Inv, StdySize PROVE Inv'
<1>1. LinkInv /\ EnvOK /\ IdsOK /\ CallOK /\ Linkage
  BY Parts DEF Inv, LinkInv
<1> DEFINE no == {ServerDown}
           R  == {Rep(0, n, sess, fs) : n \in {0, 1}}
<1>2. PICK o \in Exchange(R, no) :
        /\ Take(o)
        /\ \/ Failed(o) /\ server_dead
           \/ /\ ~Failed(o) /\ Steady
              /\ err' = {} /\ k' = IF arg.fn = "sj3_open" THEN 2 ELSE 0
              /\ Goto(IF o.ret = 1 THEN "mismatch"
                      ELSE IF arg.fn = "sj3_open" THEN "mdict" ELSE "malloc")
  BY DEF StdySize
<1>3. \A r \in R : Reply(r) /\ r.val \in {0, 1} /\ r.sess = sess
  BY <1>1 DEF Rep, Reply, EnvOK
<1>4. \A n \in no : n \in Int
  BY DEF ServerDown
<1> HIDE DEF R, no
<1>5. /\ OutcomeOK(o)
      /\ Down(o) \/ (Answered(o) /\ o.ret \in {0, 1} /\ o.sess = sess)
  <2>1. /\ OutcomeOK(o)
        /\ Down(o) \/ (Answered(o) /\ \E r \in R : o.ret = r.val /\ o.sess = r.sess)
    BY <1>1, <1>2, <1>3, <1>4, Outcome
  <2> QED BY <1>3, <2>1
<1>6. /\ errno' \in Int /\ EnvOK' /\ sess' = o.sess
      /\ \/ o.fd = NoFd /\ Lose
         \/ Answered(o) /\ sess' \in Session /\ Keep
  BY <1>1, <1>2, <1>5, Takes DEF Down, Answered, EnvOK
<1>7. pc = "stdysize" /\ pc \in Opening /\ arg.fn \in OpenFn
  BY <1>1 DEF StdySize, Opening, LinkInv, Calls
<1>8. CASE Failed(o) /\ server_dead
  <2>1. Lose
    BY <1>5, <1>6, <1>8 DEF Failed, Down, Answered, ERROR, Keep
  <2> QED BY <1>1, <1>6, <1>7, <1>8, <2>1, Dying
<1>9. CASE /\ ~Failed(o) /\ Steady
           /\ err' = {} /\ k' = IF arg.fn = "sj3_open" THEN 2 ELSE 0
           /\ Goto(IF o.ret = 1 THEN "mismatch"
                   ELSE IF arg.fn = "sj3_open" THEN "mdict" ELSE "malloc")
  <2> DEFINE l == IF o.ret = 1 THEN "mismatch"
                  ELSE IF arg.fn = "sj3_open" THEN "mdict" ELSE "malloc"
  <2>1. Goto(l) /\ k' \in Nat /\ IdsOK'
    BY <1>1, <1>9, SteadyIds
  <2>2. /\ l \in {"mismatch", "mdict", "malloc"}
        /\ l = "mdict" => arg.fn = "sj3_open"
        /\ l = "malloc" => arg.fn # "sj3_open" /\ k' = 0
    BY <1>9
  <2> HIDE DEF l
  <2>3. Keep /\ sess' = sess
    BY <1>5, <1>6, <1>9 DEF Down, Failed, Answered
  <2>4. Calls' /\ l \in (Opening \cup Closing) \ {"unix", "inet"}
    BY <1>1, <1>7, <2>1, <2>2 DEF LinkInv, Calls, Goto, Opening, Closing, OpenFn
  <2>5. LinkInv'
    BY <1>1, <1>6, <2>1, <2>2, <2>3, <2>4, GoesOn
  <2>6. sess.dicts = {} /\ sess.user = arg.user /\ pc' = l /\ arg' = arg
    BY <1>7, <2>1, <2>3 DEF Inv, SessInv, OpenedSoFar, Keep, Goto, Opening
  <2>7. SessInv'
    BY <2>2, <2>3, <2>6 DEF SessInv, OpenedSoFar, OpenedWell, LeftToClose, OpenReady, Opening
  <2> QED BY <2>5, <2>7 DEF Inv
<1> QED BY <1>2, <1>8, <1>9

LEMMA EraseStep == ASSUME Inv, Erase PROVE Inv'
<1>1. LinkInv /\ EnvOK /\ IdsOK /\ CallOK /\ Linkage
  BY Parts DEF Inv, LinkInv
<1>2. PICK o \in sj3_erase_connection :
          Take(IF pc = "erase" THEN [o EXCEPT !.errno = NotAllowedUser] ELSE o)
  BY DEF Erase
<1>3. OutcomeOK(o) /\ o.fd = NoFd /\ o.sess = NoSess
  BY <1>1, EraseConnection
<1>4. EnvOK' /\ errno' \in Int /\ Lose
  BY <1>1, <1>2, <1>3 DEF Take, EnvOK, Lose, OutcomeOK, NoFd, NotAllowedUser
<1>5. pc \in Opening /\ IdsOK' /\ Refused
  BY <1>1, SteadyIds DEF Erase, Opening
<1> QED BY <1>1, <1>4, <1>5, RefusedStep

LEMMA OpenMainStep == ASSUME Inv, OpenMain PROVE Inv'
<1>1. LinkInv /\ EnvOK /\ IdsOK /\ CallOK /\ Linkage /\ MainDict \in Int /\ MainDict # 0
  BY Parts, IdAssumption DEF Inv, LinkInv
<1>2. PICK o \in sj3_open_dictionary(MainDict, TRUE) :
        /\ Take(o) /\ mdicid' = o.ret
        /\ err' = IF o.ret = 0 THEN err \cup {"CANNOT_OPEN_MDICT"} ELSE err
  BY DEF OpenMain
<1> DEFINE s1 == [sess EXCEPT !.dicts = @ \cup {MainDict}]
<1>3. /\ OutcomeOK(o)
      /\ \/ Down(o)
         \/ Answered(o) /\ o.ret = 0 /\ o.sess = sess
         \/ Answered(o) /\ o.ret = MainDict /\ o.sess = s1
  BY <1>1, OpenDictionary
<1>4. sess # NoSess => /\ sess.dicts = {} /\ sess.user = arg.user
                       /\ s1 \in Session /\ s1.dicts = {MainDict} /\ s1.user = sess.user
  <2>1. sess # NoSess => sess.dicts = {} /\ sess.user = arg.user /\ sess \in Session
    BY <1>1 DEF Inv, SessInv, OpenedSoFar, OpenMain, Opening, EnvOK
  <2>2. sess # NoSess => /\ s1 \in Session /\ s1.dicts = sess.dicts \cup {MainDict}
                         /\ s1.user = sess.user
    BY <1>1, <2>1, SessionOpens
  <2> QED BY <2>1, <2>2
<1> HIDE DEF s1
<1>5. /\ errno' \in Int /\ EnvOK' /\ sess' = o.sess
      /\ \/ o.fd = NoFd /\ Lose
         \/ Answered(o) /\ sess' \in Session /\ Keep
  BY <1>1, <1>2, <1>3, <1>4, Takes DEF Down, Answered, EnvOK
<1>6. pc = "mdict" /\ Goto("dirs") /\ arg' = arg /\ pc' = "dirs"
      /\ UNCHANGED <<udicid, list, freed, svr, k>>
  BY DEF OpenMain, Goto
<1>7. IdsOK' /\ k' \in Nat
  BY <1>1, <1>2, <1>3, <1>6 DEF IdsOK, OutcomeOK, CallOK
<1>8. Calls' /\ "dirs" \in (Opening \cup Closing) \ {"unix", "inet"}
  BY <1>1, <1>6 DEF LinkInv, Calls, Opening, Closing
<1>9. LinkInv'
  BY <1>1, <1>5, <1>6, <1>7, <1>8, GoesOn
<1>10. CASE Lose
  BY <1>6, <1>9, <1>10, SessLost DEF Inv
<1>11. CASE Keep
  <2>1. \/ o.ret = 0 /\ sess' = sess
        \/ o.ret = MainDict /\ sess' = s1
    BY <1>3, <1>5, <1>11 DEF Down, Answered, Keep
  <2>2. sess'.dicts \subseteq {MainDict} /\ sess'.user = arg'.user
    BY <1>4, <1>6, <1>11, <2>1 DEF Keep
  <2>3. arg.fn = "sj3_open" /\ arg.dicts = <<>>
    BY <1>1, <1>6 DEF LinkInv, Calls, Opening
  <2>4. err' = {} => mdicid' = MainDict /\ mdicid' \in sess'.dicts
    BY <1>1, <1>2, <1>4, <1>11, <2>1 DEF Keep
  <2>5. SessInv'
    BY <1>6, <2>2, <2>3, <2>4 DEF SessInv, OpenedSoFar, OpenedWell, LeftToClose, OpenReady,
                                  Opening, Known
  <2> QED BY <1>9, <2>5 DEF Inv
<1> QED BY <1>5, <1>10, <1>11

LEMMA AllocListStep == ASSUME Inv, AllocList PROVE Inv'
<1>1. LinkInv /\ EnvOK /\ errno \in Int /\ IdsOK /\ CallOK /\ Linkage /\ arg.dicts \in Seq(Int)
  BY Parts DEF Inv, LinkInv, CallOK
<1>2. pc = "malloc" /\ pc \in Opening /\ UNCHANGED <<fd, errno, open, sess, fs, svr>>
  BY DEF AllocList, env, Opening
<1>3. EnvOK' /\ errno' \in Int
  BY <1>1, <1>2 DEF EnvOK
<1>4. IF sess = NoSess THEN Lose ELSE Keep
  BY <1>1, <1>2 DEF Lose, Keep, Linkage
<1>5. sess # NoSess => sess.dicts = {} /\ sess.user = arg.user
  BY <1>2 DEF Inv, SessInv, OpenedSoFar, Opening
<1>6. CASE Refused /\ UNCHANGED ids
  <2>1. IdsOK'
    BY <1>1, <1>2, <1>6 DEF IdsOK, ids
  <2>2. LinkInv'
    BY <1>1, <1>2, <1>3, <1>4, <1>6, <2>1, Returns DEF Refused
  <2>3. pc' = "idle" /\ ret'.val # {}
    BY <1>6 DEF Refused, Return
  <2>4. SessInv'
    BY <1>2, <1>5, <2>3 DEF SessInv, OpenedSoFar, OpenedWell, LeftToClose, OpenReady,
                            Opening, Known
  <2> QED BY <2>2, <2>4 DEF Inv
<1>7. CASE /\ list' = [n \in 1 .. Len(arg.dicts) |-> 0]
           /\ freed' = FALSE /\ Goto("list") /\ UNCHANGED <<mdicid, udicid, err, k>>
  <2>1. list' \in Seq(Int) /\ Len(list') = Len(arg.dicts)
    BY <1>1, <1>7
  <2>2. IdsOK' /\ k' \in Nat
    BY <1>1, <1>2, <1>7, <2>1 DEF IdsOK, CallOK
  <2>3. pc' = "list" /\ arg' = arg /\ k' = k
    BY <1>7 DEF Goto
  <2>4. k = 0
    BY <1>1, <1>2 DEF LinkInv, Calls
  <2>5. Calls' /\ "list" \in (Opening \cup Closing) \ {"unix", "inet"}
    BY <1>1, <1>2, <2>1, <2>3, <2>4 DEF LinkInv, Calls, Opening, Closing
  <2>6. LinkInv'
    BY <1>1, <1>3, <1>4, <1>7, <2>2, <2>5, GoesOn
  <2>7. SessInv'
    BY <1>2, <1>5, <1>7, <2>3, <2>4 DEF SessInv, OpenedSoFar, OpenedWell, LeftToClose,
                                        OpenReady, Opening
  <2> QED BY <2>6, <2>7 DEF Inv
<1>8. CASE arg.dicts = <<>> /\ Goto("dirs") /\ UNCHANGED <<ids, err, k>>
  <2>1. IdsOK' /\ k' \in Nat
    BY <1>1, <1>2, <1>8 DEF IdsOK, ids, CallOK
  <2>2. pc' = "dirs" /\ arg' = arg
    BY <1>8 DEF Goto
  <2>3. Calls' /\ "dirs" \in (Opening \cup Closing) \ {"unix", "inet"}
    BY <1>1, <1>2, <2>2 DEF LinkInv, Calls, Opening, Closing
  <2>4. LinkInv'
    BY <1>1, <1>3, <1>4, <1>8, <2>1, <2>3, GoesOn
  <2>5. arg.fn # "sj3_open"
    BY <1>1, <1>2 DEF LinkInv, Calls
  <2>6. SessInv'
    BY <1>2, <1>5, <1>8, <2>2, <2>5 DEF SessInv, OpenedSoFar, OpenedWell, LeftToClose,
                                        OpenReady, Opening, Known
  <2> QED BY <2>4, <2>6 DEF Inv
<1> QED BY <1>6, <1>7, <1>8 DEF AllocList

LEMMA OpenListStep == ASSUME Inv, OpenList PROVE Inv'
<1>1. LinkInv /\ EnvOK /\ IdsOK /\ CallOK /\ Linkage /\ arg.dicts \in Seq(Int) /\ list \in Seq(Int)
      /\ k \in Nat
  BY Parts DEF Inv, LinkInv, CallOK, IdsOK
<1>2. /\ pc = "list" /\ k < Len(list) /\ Len(list) = Len(arg.dicts) /\ k' = k + 1
      /\ Goto("list") /\ arg' = arg /\ pc' = "list" /\ UNCHANGED <<udicid, freed, svr, err>>
  BY <1>1 DEF OpenList, LinkInv, Calls, Goto
<1> DEFINE d == arg.dicts[k + 1]
<1>3. d \in Int
  BY <1>1, <1>2
<1>4. PICK o \in sj3_open_dictionary(d, TRUE) :
        /\ Take(o) /\ list' = [list EXCEPT ![k + 1] = o.ret]
        /\ mdicid' = IF mdicid = 0 THEN o.ret ELSE mdicid
  BY DEF OpenList
<1> DEFINE s1 == [sess EXCEPT !.dicts = @ \cup {d}]
<1> HIDE DEF d
<1>5. /\ OutcomeOK(o)
      /\ \/ Down(o)
         \/ Answered(o) /\ o.ret = 0 /\ o.sess = sess
         \/ Answered(o) /\ o.ret = d /\ o.sess = s1
  BY <1>1, <1>3, OpenDictionary
<1>6. sess # NoSess => /\ s1 \in Session /\ s1.dicts = sess.dicts \cup {d}
                       /\ s1.user = sess.user
  BY <1>1, <1>3, SessionOpens DEF EnvOK
<1> HIDE DEF s1
<1>7. /\ errno' \in Int /\ EnvOK' /\ sess' = o.sess
      /\ \/ o.fd = NoFd /\ Lose
         \/ Answered(o) /\ sess' \in Session /\ Keep
  BY <1>1, <1>4, <1>5, <1>6, Takes DEF Down, Answered, EnvOK
<1>8. /\ list' \in Seq(Int) /\ Len(list') = Len(list) /\ list'[k + 1] = o.ret
      /\ \A n \in 1 .. k : list'[n] = list[n]
  BY <1>1, <1>2, <1>4, <1>5 DEF OutcomeOK
<1>9. IdsOK' /\ k' \in Nat
  BY <1>1, <1>2, <1>4, <1>5, <1>8 DEF IdsOK, OutcomeOK
<1>10. Calls' /\ "list" \in (Opening \cup Closing) \ {"unix", "inet"}
  BY <1>1, <1>2, <1>8 DEF LinkInv, Calls, Opening, Closing
<1>11. LinkInv'
  BY <1>1, <1>2, <1>7, <1>9, <1>10, GoesOn
<1>12. CASE Lose
  BY <1>2, <1>11, <1>12, SessLost DEF Inv
<1>13. CASE Keep
  <2>1. \/ o.ret = 0 /\ sess' = sess
        \/ o.ret = d /\ sess' = s1
    BY <1>5, <1>7, <1>13 DEF Down, Answered, Keep
  <2>2. /\ freed = FALSE /\ sess.dicts \subseteq Listed(1, k) /\ sess.user = arg.user
        /\ \A n \in 1 .. k : list[n] # 0 => list[n] \in sess.dicts
    BY <1>2, <1>13 DEF Inv, SessInv, OpenedSoFar, Opening, Keep
  <2>3. /\ sess'.user = arg'.user /\ sess.dicts \subseteq sess'.dicts
        /\ sess'.dicts \subseteq sess.dicts \cup {o.ret}
        /\ o.ret # 0 => o.ret \in sess'.dicts
    BY <1>2, <1>6, <1>13, <2>1, <2>2 DEF Keep
  <2>4. \A n \in 1 .. k' : list'[n] # 0 => list'[n] \in sess'.dicts
    <3> SUFFICES ASSUME NEW n \in 1 .. k', list'[n] # 0 PROVE list'[n] \in sess'.dicts
      OBVIOUS
    <3>1. n \in 1 .. k \/ n = k + 1
      BY <1>1, <1>2
    <3>2. CASE n \in 1 .. k
      BY <1>8, <2>2, <2>3, <3>2
    <3>3. CASE n = k + 1
      BY <1>8, <2>3, <3>3
    <3> QED BY <3>1, <3>2, <3>3
  <2>5. sess'.dicts \subseteq (Listed(1, k))'
    <3>1. ASSUME NEW x \in sess'.dicts PROVE \E n \in 1 .. k' : x = list'[n]
      <4>1. CASE x = o.ret
        BY <1>1, <1>2, <1>8, <4>1
      <4>2. CASE x \in sess.dicts
        <5>1. PICK n \in 1 .. k : x = list[n]
          BY <2>2, <4>2 DEF Listed
        <5> QED BY <1>1, <1>2, <1>8, <5>1
      <4> QED BY <2>3, <3>1, <4>1, <4>2
    <3> QED BY <3>1 DEF Listed
  <2>6. freed' = FALSE
    BY <1>2, <2>2
  <2>7. SessInv'
    BY <1>2, <2>3, <2>4, <2>5, <2>6 DEF SessInv, OpenedSoFar, OpenedWell, LeftToClose,
                                        OpenReady, Opening
  <2> QED BY <1>11, <2>7 DEF Inv
<1> QED BY <1>7, <1>12, <1>13

LEMMA EndListStep == ASSUME Inv, EndList PROVE Inv'
<1>1. LinkInv /\ EnvOK /\ errno \in Int /\ IdsOK /\ CallOK /\ Linkage /\ list \in Seq(Int)
  BY Parts DEF Inv, LinkInv, IdsOK
<1>2. /\ pc = "list" /\ k = Len(list) /\ k' = 0 /\ Goto("dirs") /\ arg' = arg /\ pc' = "dirs"
      /\ UNCHANGED <<fd, errno, open, sess, fs, svr, udicid, list, freed>>
  BY DEF EndList, Goto, env
<1>3. EnvOK' /\ errno' \in Int
  BY <1>1, <1>2 DEF EnvOK
<1>4. IF sess = NoSess THEN Lose ELSE Keep
  BY <1>1, <1>2 DEF Lose, Keep, Linkage
<1>5. mdicid' \in Int
  BY <1>1 DEF EndList, IdsOK
<1>6. IdsOK' /\ k' \in Nat
  BY <1>1, <1>2, <1>5 DEF IdsOK
<1>7. Calls' /\ "dirs" \in (Opening \cup Closing) \ {"unix", "inet"}
  BY <1>1, <1>2 DEF LinkInv, Calls, Opening, Closing
<1>8. LinkInv'
  BY <1>1, <1>2, <1>3, <1>4, <1>6, <1>7, GoesOn
<1>9. CASE sess = NoSess
  BY <1>2, <1>4, <1>8, <1>9, SessLost DEF Inv
<1>10. CASE sess # NoSess
  <2>1. /\ freed = FALSE /\ sess.dicts \subseteq Listed(1, k) /\ sess.user = arg.user
        /\ \A n \in 1 .. k : list[n] # 0 => list[n] \in sess.dicts
    BY <1>2, <1>10 DEF Inv, SessInv, OpenedSoFar, Opening
  <2>2. err' = {} => \E n \in DOMAIN list : list[n] \in sess.dicts
    BY <1>1, <1>2, <2>1 DEF EndList
  <2>3. arg.fn # "sj3_open"
    BY <1>1, <1>2 DEF LinkInv, Calls
  <2>4. Known({})'
    BY <1>2, <2>1 DEF Known, Listed
  <2>5. SessInv'
    BY <1>2, <2>1, <2>2, <2>3, <2>4 DEF SessInv, OpenedSoFar, OpenedWell, LeftToClose,
                                        OpenReady, Opening
  <2> QED BY <1>8, <2>5 DEF Inv
<1> QED BY <1>9, <1>10

\* The labels before, and after, the user dictionary is opened.
Before == {"dirs", "mkdir", "udict?", "udict+", "udict"}
After  == {"study?", "study+", "study"}

\* An exchange that leaves the session alone, between two labels of one group.
LEMMA Carried ==
    ASSUME Inv, Keep, sess' = sess, Steady, EnvOK', errno' \in Int, k' \in Nat,
           NEW G \in {Before, After}, pc \in G, NEW l \in G, Goto(l), l = "mkdir" => k' > 0,
           err' = {} => err = {}
    PROVE  Inv'
<1>1. LinkInv /\ IdsOK
  BY Parts DEF Inv, LinkInv
<1>2. IdsOK' /\ UNCHANGED <<mdicid, udicid, list, freed, arg, sess>> /\ pc' = l
  BY <1>1, SteadyIds DEF Steady, ids, Goto
<1>3. pc \in Opening /\ l \in Opening \ {"unix", "inet", "mdict", "malloc", "list"}
  BY DEF Before, After, Opening
<1>4. Calls' /\ l \in (Opening \cup Closing) \ {"unix", "inet"}
  BY <1>1, <1>2, <1>3 DEF LinkInv, Calls, Opening, Closing
<1>5. LinkInv'
  BY <1>1, <1>2, <1>4, GoesOn
<1>6. /\ sess.user = arg.user
      /\ G = Before => Known({})
      /\ G = After => Known({udicid})
      /\ err = {} => /\ arg.fn = "sj3_open" => mdicid = MainDict /\ mdicid \in sess.dicts
                     /\ arg.dicts # <<>> => \E n \in DOMAIN list : list[n] \in sess.dicts
                     /\ G = After => udicid = Private[arg.user] /\ udicid \in sess.dicts
  BY DEF Inv, SessInv, OpenedSoFar, OpenedWell, Opening, Before, After, Keep
<1>7. (Known({}))' = Known({}) /\ (Known({udicid}))' = Known({udicid})
  BY <1>2 DEF Known, Listed
<1>8. SessInv'
  <2>1. CASE G = Before
    BY <1>2, <1>6, <1>7, <2>1 DEF SessInv, OpenedSoFar, OpenedWell, LeftToClose, OpenReady,
                                  Before, Opening
  <2>2. CASE G = After
    BY <1>2, <1>6, <1>7, <2>2 DEF SessInv, OpenedSoFar, OpenedWell, LeftToClose, OpenReady,
                                  After, Opening
  <2> QED BY <2>1, <2>2
<1> QED BY <1>5, <1>8 DEF Inv

\* An exchange that leaves the session alone: the connection is lost, or stays.
LEMMA Asking ==
    ASSUME Inv, NEW o, OutcomeOK(o), Take(o),
           Down(o) \/ (Answered(o) /\ ~Dead(o) /\ o.sess = sess)
    PROVE  /\ errno' \in Int /\ EnvOK'
           /\ (Lose /\ Failed(o)) \/ (Keep /\ sess' = sess /\ ~Dead(o))
<1>1. LinkInv /\ EnvOK
  BY Parts DEF Inv, LinkInv
<1> QED BY <1>1, Takes DEF Down, Answered, EnvOK, Failed

\* The connection is lost, but that goes unnoticed for now.
LEMMA Unnoticed ==
    ASSUME Inv, Lose, Steady, EnvOK', errno' \in Int, k' \in Nat,
           NEW G \in {Before, After}, pc \in G, NEW l \in G, Goto(l), l = "mkdir" => k' > 0
    PROVE  Inv'
<1>1. LinkInv /\ IdsOK
  BY Parts DEF Inv, LinkInv
<1>2. IdsOK' /\ arg' = arg /\ pc' = l
  BY <1>1, SteadyIds DEF Goto
<1>3. pc \in Opening /\ l \in Opening \ {"unix", "inet", "mdict", "malloc", "list"}
  BY DEF Before, After, Opening
<1>4. Calls' /\ l \in (Opening \cup Closing) \ {"unix", "inet"} /\ l # "idle"
  BY <1>1, <1>2, <1>3 DEF LinkInv, Calls, Opening, Closing
<1>5. LinkInv'
  BY <1>1, <1>2, <1>4, GoesOn
<1> QED BY <1>2, <1>4, <1>5, SessLost DEF Inv

LEMMA FileUser ==
    ASSUME Inv, pc \in Before \cup After
    PROVE  LinkInv /\ EnvOK /\ Linkage /\ CallOK /\ k \in Nat /\ pc \in Opening /\ arg.user \in User
BY Parts DEF Inv, LinkInv, Calls, Before, After, Opening, CallOK

LEMMA ProbeStep ==
    ASSUME Inv, NEW G \in {Before, After}, NEW label \in G, NEW make \in G \ {"mkdir"},
           NEW next \in G \ {"mkdir"},
           NEW file, Probe(label, file, make, next)
    PROVE  Inv'
<1>1. /\ LinkInv /\ EnvOK /\ Linkage /\ k \in Nat /\ pc \in Opening /\ arg.user \in User
      /\ pc \in G
  BY FileUser DEF Probe
<1>2. PICK o \in sj3_access(arg.user, file) :
        /\ Take(o)
        /\ \/ Failed(o) /\ Dead(o) /\ server_dead
           \/ /\ ~(Failed(o) /\ Dead(o)) /\ Goto(IF Failed(o) THEN make ELSE next)
              /\ Steady /\ UNCHANGED <<err, k>>
  BY DEF Probe
<1>3. OutcomeOK(o) /\ (Down(o) \/ (Answered(o) /\ ~Dead(o) /\ o.sess = sess))
  BY <1>1, AccessFile
<1>4. /\ errno' \in Int /\ EnvOK'
      /\ (Lose /\ Failed(o)) \/ (Keep /\ sess' = sess /\ ~Dead(o))
  BY <1>2, <1>3, Asking
<1>5. CASE Failed(o) /\ Dead(o) /\ server_dead
  BY <1>1, <1>4, <1>5, Dying
<1>6. CASE Goto(IF Failed(o) THEN make ELSE next) /\ Steady /\ UNCHANGED <<err, k>>
  <2>1. PICK l \in G \ {"mkdir"} : Goto(l)
    BY <1>6
  <2>2. CASE Lose
    BY <1>1, <1>4, <1>6, <2>1, <2>2, Unnoticed
  <2>3. CASE Keep /\ sess' = sess
    BY <1>1, <1>4, <1>6, <2>1, <2>3, Carried
  <2> QED BY <1>4, <2>2, <2>3
<1> QED BY <1>2, <1>5, <1>6

LEMMA MakeFileStep ==
    ASSUME Inv, NEW G \in {Before, After}, NEW label \in G, NEW next \in G \ {"mkdir"},
           NEW file \in Files, NEW flag, MakeFile(label, Make(arg.user, file), flag, next)
    PROVE  Inv'
<1>1. /\ LinkInv /\ EnvOK /\ Linkage /\ k \in Nat /\ pc \in Opening /\ arg.user \in User
      /\ pc \in G
  BY FileUser DEF MakeFile
<1>2. PICK o \in Make(arg.user, file) :
        /\ Take(o)
        /\ \/ Failed(o) /\ Dead(o) /\ server_dead
           \/ /\ ~(Failed(o) /\ Dead(o)) /\ Goto(next)
              /\ err' = IF Failed(o) THEN err \cup {flag} ELSE err
              /\ Steady /\ UNCHANGED k
  BY DEF MakeFile
<1>3. OutcomeOK(o) /\ (Down(o) \/ (Answered(o) /\ ~Dead(o) /\ o.sess = sess))
  BY <1>1, MakeAFile
<1>4. /\ errno' \in Int /\ EnvOK'
      /\ (Lose /\ Failed(o)) \/ (Keep /\ sess' = sess /\ ~Dead(o))
  BY <1>2, <1>3, Asking
<1>5. CASE Failed(o) /\ Dead(o) /\ server_dead
  BY <1>1, <1>4, <1>5, Dying
<1>6. CASE /\ Goto(next) /\ err' = (IF Failed(o) THEN err \cup {flag} ELSE err)
           /\ Steady /\ UNCHANGED k
  <2>1. err' = {} => err = {}
    BY <1>6
  <2>2. CASE Lose
    BY <1>1, <1>4, <1>6, <2>2, Unnoticed
  <2>3. CASE Keep /\ sess' = sess
    BY <1>1, <1>4, <1>6, <2>1, <2>3, Carried
  <2> QED BY <1>4, <2>2, <2>3
<1> QED BY <1>2, <1>5, <1>6

\* The session stays open although the directory could not be made.
LEMMA MakeDirFails ==
    ASSUME Inv, pc = "mkdir", Lose \/ (Keep /\ sess' = sess), Steady, EnvOK', errno' \in Int,
           Return(err \cup {"CANNOT_MAKE_UDIR"})
    PROVE  Inv'
<1>1. LinkInv /\ IdsOK /\ pc \in Opening
  BY Parts DEF Inv, LinkInv, Opening
<1>2. IdsOK' /\ UNCHANGED <<mdicid, udicid, list, freed>>
  BY <1>1, SteadyIds DEF Steady, ids
<1>3. LinkInv'
  BY <1>1, <1>2, Returns
<1>4. pc' = "idle" /\ ret'.val # {}
  BY DEF Return
<1>5. CASE Lose
  BY <1>3, <1>4, <1>5, SessLost DEF Inv
<1>6. CASE Keep /\ sess' = sess
  <2>1. Known({})
    BY <1>6 DEF Inv, SessInv, OpenedSoFar, Keep
  <2>2. (Known({udicid}))'
    BY <1>2, <1>6, <2>1 DEF Known, Listed
  <2>3. SessInv'
    BY <1>4, <2>2 DEF SessInv, OpenedSoFar, OpenedWell, LeftToClose, OpenReady, Opening
  <2> QED BY <1>3, <2>3 DEF Inv
<1> QED BY <1>5, <1>6

LEMMA MakeDirsStep == ASSUME Inv, make_dirs PROVE Inv'
<1>1. /\ LinkInv /\ EnvOK /\ Linkage /\ k \in Nat /\ pc \in Opening /\ arg.user \in User
      /\ pc \in Before /\ errno \in Int
  BY FileUser, Parts DEF make_dirs, Before, LinkInv
<1>2. "dirs" \in Before /\ "mkdir" \in Before /\ "udict?" \in Before
  BY DEF Before
<1>3. CASE /\ pc = "dirs" /\ k = 0 /\ Goto("udict?") /\ Steady /\ UNCHANGED <<env, err, k>>
  <2>1. EnvOK' /\ errno' \in Int /\ k' \in Nat
    BY <1>1, <1>3 DEF EnvOK, env
  <2>2. Lose \/ (Keep /\ sess' = sess)
    BY <1>1, <1>3 DEF Lose, Keep, Linkage, env
  <2> QED BY <1>1, <1>2, <1>3, <2>1, <2>2, Unnoticed, Carried
<1>4. CASE /\ pc = "dirs" /\ k > 0
           /\ \E o \in sj3_access(arg.user, "dir") :
               /\ Take(o)
               /\ \/ ~Failed(o) /\ k' = k - 1 /\ Goto("dirs") /\ Steady /\ UNCHANGED err
                  \/ Failed(o) /\ Dead(o) /\ server_dead
                  \/ Failed(o) /\ ~Dead(o) /\ Goto("mkdir") /\ Steady /\ UNCHANGED <<err, k>>
  <2>1. PICK o \in sj3_access(arg.user, "dir") :
          /\ Take(o)
          /\ \/ ~Failed(o) /\ k' = k - 1 /\ Goto("dirs") /\ Steady /\ UNCHANGED err
             \/ Failed(o) /\ Dead(o) /\ server_dead
             \/ Failed(o) /\ ~Dead(o) /\ Goto("mkdir") /\ Steady /\ UNCHANGED <<err, k>>
    BY <1>4
  <2>2. OutcomeOK(o) /\ (Down(o) \/ (Answered(o) /\ ~Dead(o) /\ o.sess = sess))
    BY <1>1, AccessFile
  <2>3. /\ errno' \in Int /\ EnvOK'
        /\ (Lose /\ Failed(o)) \/ (Keep /\ sess' = sess /\ ~Dead(o))
    BY <2>1, <2>2, Asking
  <2>4. CASE Failed(o) /\ Dead(o) /\ server_dead
    BY <1>1, <2>3, <2>4, Dying
  <2>5. CASE \/ k' = k - 1 /\ Goto("dirs") /\ Steady /\ UNCHANGED err
             \/ Goto("mkdir") /\ Steady /\ UNCHANGED <<err, k>>
    <3>1. k' \in Nat /\ (UNCHANGED k => k' > 0)
      BY <1>1, <1>4, <2>5
    <3> QED BY <1>1, <1>2, <2>3, <2>5, <3>1, Unnoticed, Carried
  <2> QED BY <2>1, <2>4, <2>5
<1>5. CASE /\ pc = "mkdir"
           /\ \E o \in sj3_make_directory(arg.user) :
               /\ Take(o)
               /\ \/ ~Failed(o) /\ k' = k - 1 /\ Goto("dirs") /\ Steady /\ UNCHANGED err
                  \/ Failed(o) /\ Dead(o) /\ server_dead
                  \/ /\ Failed(o) /\ ~Dead(o) /\ Steady
                     /\ Return(err \cup {"CANNOT_MAKE_UDIR"})
  <2>1. PICK o \in sj3_make_directory(arg.user) :
          /\ Take(o)
          /\ \/ ~Failed(o) /\ k' = k - 1 /\ Goto("dirs") /\ Steady /\ UNCHANGED err
             \/ Failed(o) /\ Dead(o) /\ server_dead
             \/ Failed(o) /\ ~Dead(o) /\ Steady /\ Return(err \cup {"CANNOT_MAKE_UDIR"})
    BY <1>5
  <2>2. OutcomeOK(o) /\ (Down(o) \/ (Answered(o) /\ ~Dead(o) /\ o.sess = sess))
    BY <1>1, MakeAFile DEF sj3_make_directory, Files
  <2>3. /\ errno' \in Int /\ EnvOK'
        /\ (Lose /\ Failed(o)) \/ (Keep /\ sess' = sess /\ ~Dead(o))
    BY <2>1, <2>2, Asking
  <2>4. CASE Failed(o) /\ Dead(o) /\ server_dead
    BY <1>1, <2>3, <2>4, Dying
  <2>5. CASE k' = k - 1 /\ Goto("dirs") /\ Steady /\ UNCHANGED err
    <3>1. k' \in Nat
      BY <1>1, <1>5, <2>5 DEF LinkInv, Calls
    <3> QED BY <1>1, <1>2, <2>3, <2>5, <3>1, Unnoticed, Carried
  <2>6. CASE Steady /\ Return(err \cup {"CANNOT_MAKE_UDIR"})
    BY <1>5, <2>3, <2>6, MakeDirFails
  <2> QED BY <2>1, <2>4, <2>5, <2>6
<1> QED BY <1>3, <1>4, <1>5 DEF make_dirs

LEMMA OpenUserStep == ASSUME Inv, OpenUser PROVE Inv'
<1>1. LinkInv /\ EnvOK /\ IdsOK /\ CallOK /\ Linkage
  BY Parts DEF Inv, LinkInv
<1>2. /\ pc = "udict" /\ Goto("study?") /\ arg' = arg /\ pc' = "study?"
      /\ UNCHANGED <<mdicid, list, freed, svr, k>> /\ arg.user \in User
  BY <1>1 DEF OpenUser, Goto, LinkInv, Calls, Opening
<1> DEFINE d     == Private[arg.user]
           there == "private.dic" \in fs[arg.user]
           s1    == [sess EXCEPT !.dicts = @ \cup {d}]
<1>3. d \in Int /\ d # 0
  BY <1>2, IdAssumption
<1>4. PICK o \in sj3_open_dictionary(d, there) :
        /\ Take(o) /\ udicid' = o.ret
        /\ err' = IF o.ret = 0 THEN err \cup {"CANNOT_OPEN_UDICT"} ELSE err
  BY DEF OpenUser
<1> HIDE DEF d, there
<1>5. /\ OutcomeOK(o)
      /\ \/ Down(o)
         \/ Answered(o) /\ o.ret = 0 /\ o.sess = sess
         \/ Answered(o) /\ o.ret = d /\ o.sess = s1
  BY <1>1, <1>3, OpenDictionary
<1>6. sess # NoSess => /\ s1 \in Session /\ s1.dicts = sess.dicts \cup {d}
                       /\ s1.user = sess.user
  BY <1>1, <1>3, SessionOpens DEF EnvOK
<1> HIDE DEF s1
<1>7. /\ errno' \in Int /\ EnvOK' /\ sess' = o.sess
      /\ \/ o.fd = NoFd /\ Lose
         \/ Answered(o) /\ sess' \in Session /\ Keep
  BY <1>1, <1>4, <1>5, <1>6, Takes DEF Down, Answered, EnvOK
<1>8. IdsOK' /\ k' \in Nat
  BY <1>1, <1>2, <1>4, <1>5 DEF IdsOK, OutcomeOK, CallOK
<1>9. Calls' /\ "study?" \in (Opening \cup Closing) \ {"unix", "inet"}
  BY <1>1, <1>2 DEF LinkInv, Calls, Opening, Closing
<1>10. LinkInv'
  BY <1>1, <1>2, <1>7, <1>8, <1>9, GoesOn
<1>11. CASE Lose
  BY <1>2, <1>10, <1>11, SessLost DEF Inv
<1>12. CASE Keep
  <2>1. \/ o.ret = 0 /\ sess' = sess
        \/ o.ret = d /\ sess' = s1
    BY <1>5, <1>7, <1>12 DEF Down, Answered, Keep
  <2>2. /\ sess.user = arg.user /\ Known({})
        /\ err = {} => /\ arg.fn = "sj3_open" => mdicid = MainDict /\ mdicid \in sess.dicts
                       /\ arg.dicts # <<>> => \E n \in DOMAIN list : list[n] \in sess.dicts
    BY <1>2, <1>12 DEF Inv, SessInv, OpenedSoFar, OpenedWell, Opening, Keep
  <2>3. /\ sess'.user = arg.user /\ sess.dicts \subseteq sess'.dicts
        /\ sess'.dicts \subseteq sess.dicts \cup {udicid'}
        /\ o.ret # 0 => udicid' = d /\ udicid' \in sess'.dicts
        /\ err' = {} => err = {} /\ o.ret # 0
    BY <1>3, <1>4, <1>6, <1>12, <2>1, <2>2 DEF Keep
  <2>4. (Known({udicid}))'
    BY <1>2, <2>2, <2>3 DEF Known, Listed
  <2>5. err' = {} => /\ arg.fn = "sj3_open" => mdicid' = MainDict /\ mdicid' \in sess'.dicts
                     /\ arg.dicts # <<>> => \E n \in DOMAIN list' : list'[n] \in sess'.dicts
                     /\ udicid' = Private[arg.user] /\ udicid' \in sess'.dicts
    BY <1>2, <2>2, <2>3 DEF d
  <2>6. SessInv'
    BY <1>2, <2>3, <2>4, <2>5 DEF SessInv, OpenedSoFar, OpenedWell, LeftToClose, OpenReady,
                                  Opening
  <2> QED BY <1>10, <2>6 DEF Inv
<1> QED BY <1>7, <1>11, <1>12

LEMMA OpenStudyStep == ASSUME Inv, OpenStudy PROVE Inv'
<1>1. LinkInv /\ EnvOK /\ IdsOK /\ CallOK /\ Linkage
  BY Parts DEF Inv, LinkInv
<1>2. pc = "study" /\ pc \in Opening /\ arg.fn \in OpenFn
  BY <1>1 DEF OpenStudy, LinkInv, Calls, Opening
<1> DEFINE there == "study.dat" \in fs[arg.user]
           s1    == [sess EXCEPT !.stdy = TRUE]
<1>3. PICK o \in sj3_open_study_file(there) :
        /\ Take(o)
        /\ \/ Failed(o) /\ Dead(o) /\ server_dead
           \/ /\ ~(Failed(o) /\ Dead(o))
              /\ Return(IF Failed(o) THEN err \cup {"CANNOT_OPEN_STUDY"} ELSE err)
              /\ Steady
  BY DEF OpenStudy
<1> HIDE DEF there
<1>4. /\ OutcomeOK(o)
      /\ \/ Down(o)
         \/ Answered(o) /\ o.ret = 0 /\ o.sess = s1
         \/ Answered(o) /\ Failed(o) /\ ~Dead(o) /\ o.sess = sess
  BY <1>1, OpenStudyFile
<1>5. sess # NoSess => /\ s1 \in Session /\ s1.stdy = TRUE /\ s1.dicts = sess.dicts
                       /\ s1.user = sess.user
  BY <1>1, SessionStudies DEF EnvOK
<1> HIDE DEF s1
<1>6. /\ errno' \in Int /\ EnvOK' /\ sess' = o.sess
      /\ \/ o.fd = NoFd /\ Lose
         \/ Answered(o) /\ sess' \in Session /\ Keep
  BY <1>1, <1>3, <1>4, <1>5, Takes DEF Down, Answered, EnvOK
<1>7. CASE Failed(o) /\ Dead(o) /\ server_dead
  <2>1. Lose
    BY <1>4, <1>6, <1>7 DEF Failed, Answered, Down, Keep, ERROR
  <2> QED BY <1>1, <1>2, <1>6, <1>7, <2>1, Dying
<1>8. CASE /\ Return(IF Failed(o) THEN err \cup {"CANNOT_OPEN_STUDY"} ELSE err)
           /\ Steady
  <2> DEFINE v == IF Failed(o) THEN err \cup {"CANNOT_OPEN_STUDY"} ELSE err
  <2>1. /\ pc' = "idle" /\ ret' = [fn |-> arg.fn, val |-> v] /\ arg' = IF v = {} THEN arg ELSE NoArg
        /\ UNCHANGED <<mdicid, udicid, list, freed>> /\ IdsOK'
    BY <1>1, <1>8, SteadyIds DEF Return, Steady, ids
  <2>2. ret'.fn = arg.fn /\ ret'.val = v
    BY <2>1
  <2>3. v = {} => ~Failed(o) /\ err = {}
    OBVIOUS
  <2>4. LinkInv'
    BY <1>1, <1>2, <1>6, <1>8, <2>1, Returns
  <2> HIDE DEF v
  <2>5. CASE Lose
    <3>1. Failed(o)
      BY <1>4, <1>6, <2>5 DEF Down, Failed, Answered, Lose, Keep
    <3> QED BY <2>2, <2>3, <2>4, <2>5, <3>1, SessLost DEF Inv
  <2>6. CASE Keep
    <3>1. /\ sess.user = arg.user /\ Known({udicid})
          /\ err = {} => /\ arg.fn = "sj3_open" => mdicid = MainDict /\ mdicid \in sess.dicts
                         /\ arg.dicts # <<>> => \E n \in DOMAIN list : list[n] \in sess.dicts
                         /\ udicid = Private[arg.user] /\ udicid \in sess.dicts
      BY <1>2, <2>6 DEF Inv, SessInv, OpenedSoFar, OpenedWell, Opening, Keep
    <3>2. /\ sess'.user = sess.user /\ sess'.dicts = sess.dicts
          /\ v = {} => sess'.stdy = TRUE
      BY <1>4, <1>5, <1>6, <2>3, <2>6 DEF Down, Keep, Answered
    <3>3. (Known({udicid}))'
      BY <2>1, <3>1, <3>2 DEF Known, Listed
    <3>4. OpenReady'
      <4> SUFFICES ASSUME v = {} PROVE OpenReady'
        BY <2>2 DEF OpenReady
      <4>1. sess'.stdy
        BY <3>2
      <4>2. fd' # NoFd /\ sess' # NoSess /\ arg' = arg /\ err = {}
        BY <2>1, <2>3, <2>6 DEF Keep
      <4> QED BY <2>1, <2>2, <3>1, <3>2, <4>1, <4>2 DEF OpenReady
    <3>5. SessInv'
      BY <2>1, <3>3, <3>4 DEF SessInv, OpenedSoFar, OpenedWell, LeftToClose, Opening
    <3> QED BY <2>4, <3>5 DEF Inv
  <2> QED BY <1>6, <2>5, <2>6
<1> QED BY <1>3, <1>7, <1>8

----------------------------------------------------------------------------
(* Closing it *)

LEMMA SjCloseStep == ASSUME Inv, sj3_close PROVE Inv'
<1>1. LinkInv /\ EnvOK /\ errno \in Int /\ IdsOK /\ CallOK /\ Linkage
  BY Parts DEF Inv, LinkInv
<1>2. /\ pc = "idle" /\ k' = 0 /\ Steady
      /\ UNCHANGED <<fd, errno, open, sess, fs, mdicid, udicid, list, freed>>
  BY DEF sj3_close, env, Steady, ids
<1>3. EnvOK' /\ errno' \in Int /\ IdsOK'
  BY <1>1, <1>2, SteadyIds DEF EnvOK
<1>4. /\ arg' \in [fn : OpenFn \cup {"sj3_close", "none"}, user : User \cup {NoUser},
                   dicts : Seq(Int)]
      /\ arg'.fn = "sj3_close"
  <2>1. arg' = [fn |-> "sj3_close", user |-> NoUser, dicts |-> <<>>]
    BY DEF sj3_close, NoArg
  <2> QED BY <2>1
<1>5. /\ fd = NoFd => pc' = "idle"
      /\ fd # NoFd => pc' = IF mdicid = 0 THEN "close_udict"
                            ELSE IF list # <<>> THEN "close_list" ELSE "close_mdict"
      /\ fd # NoFd => err' = IF mdicid = 0 THEN {"NOT_OPENED_MDICT"} ELSE {}
  BY DEF sj3_close
<1>6. ret'.fn \notin OpenFn \cup {"request"}
  <2>1. ret' = NoRet \/ ret' = [fn |-> "sj3_close", val |-> {"NOT_CONNECTED"}]
    BY DEF sj3_close
  <2>2. ret'.fn \in {"none", "sj3_close"}
    BY <2>1 DEF NoRet
  <2> QED BY <2>2 DEF OpenFn
<1>12. /\ pc' \in {"idle", "close_list", "close_mdict", "close_udict"}
       /\ pc' = "close_list" => list # <<>>
       /\ pc' = "close_mdict" => list = <<>>
  BY <1>5
<1>7. CallOK'
  BY <1>2, <1>4, <1>12 DEF CallOK, Closing
<1>8. Linkage'
  BY <1>1, <1>2, <1>5 DEF Linkage
<1>9. Calls'
  <2>1. 0 <= Len(list)
    BY <1>1 DEF IdsOK
  <2> QED BY <1>2, <1>4, <1>12, <2>1 DEF Calls, Opening, Closing
<1>10. Closed' /\ RequestsReportDown'
  BY <1>1, <1>2, <1>5, <1>6 DEF Closed, RequestsReportDown, Linkage
<1>11. SessInv'
  <2>1. CASE sess = NoSess
    BY <1>2, <1>6, <2>1 DEF SessInv, OpenReady
  <2>2. CASE sess # NoSess
    <3>1. fd # NoFd /\ Known({udicid})
      BY <1>1, <1>2, <2>2 DEF Linkage, Inv, SessInv, OpenedSoFar
    <3>2. CASE mdicid = 0
      BY <1>5, <1>6, <3>1, <3>2 DEF SessInv, OpenedSoFar, OpenedWell, OpenReady, Opening
    <3>3. CASE mdicid # 0 /\ list # <<>>
      <4>1. pc' = "close_list"
        BY <1>5, <3>1, <3>3
      <4>2. LeftToClose'
        <5>1. CASE sess.dicts \subseteq {MainDict} \cup {udicid}
          <6>1. sess'.dicts \subseteq {MainDict, udicid'} /\ ~(k' > 0)
            BY <1>2, <5>1
          <6> QED BY <4>1, <6>1 DEF LeftToClose, Listed
        <5>2. CASE freed = FALSE /\ sess.dicts \subseteq Listed(1, Len(list)) \cup {udicid}
          <6>1. freed' = FALSE /\ sess'.dicts \subseteq {list'[n] : n \in k' + 1 .. Len(list')}
                                                        \cup {udicid'}
            BY <1>2, <5>2 DEF Listed
          <6> QED BY <4>1, <6>1 DEF LeftToClose, Listed
        <5> QED BY <3>1, <5>1, <5>2 DEF Known
      <4> QED BY <1>6, <4>1, <4>2 DEF SessInv, OpenedSoFar, OpenedWell, OpenReady, Opening
    <3>4. CASE mdicid # 0 /\ list = <<>>
      <4>1. pc' = "close_mdict"
        BY <1>5, <3>1, <3>4
      <4>2. Listed(1, Len(list)) = {}
        BY <3>4 DEF Listed
      <4>3. LeftToClose'
        BY <1>2, <3>1, <4>1, <4>2 DEF LeftToClose, Known
      <4> QED BY <1>6, <4>1, <4>3 DEF SessInv, OpenedSoFar, OpenedWell, OpenReady, Opening
    <3> QED BY <3>2, <3>3, <3>4
  <2> QED BY <2>1, <2>2
<1> QED BY <1>3, <1>7, <1>8, <1>9, <1>10, <1>11, TypeParts1 DEF Inv, LinkInv

\* While a session is closed only what is left of it matters.
LEMMA ClosingOn ==
    ASSUME LinkInv', pc' \in Closing, Lose \/ Keep, Keep /\ err' = {} => LeftToClose'
    PROVE  Inv'
<1>1. sess' # NoSess => Keep
  BY DEF Lose
<1> QED BY <1>1 DEF Inv, SessInv, OpenedSoFar, OpenedWell, OpenReady, Opening, Closing

\* Closing a dictionary: the environment after it, and what is left of the
\* session if there was no error.
LEMMA ClosesOne ==
    ASSUME LinkInv, NEW d, NEW o \in sj3_close_dictionary(d), Take(o)
    PROVE  /\ errno' \in Int /\ EnvOK'
           /\ (Lose /\ Failed(o)) \/ (Keep /\ ~(Failed(o) /\ Dead(o)))
           /\ Keep /\ ~Failed(o) => d \in sess.dicts /\ sess'.dicts = sess.dicts \ {d}
<1>1. EnvOK /\ Linkage
  BY Parts DEF LinkInv
<1> DEFINE s1 == [sess EXCEPT !.dicts = @ \ {d}]
<1>2. /\ OutcomeOK(o)
      /\ \/ Down(o)
         \/ Answered(o) /\ o.ret = 0 /\ d \in sess.dicts /\ o.sess = s1
         \/ Answered(o) /\ Failed(o) /\ ~Dead(o) /\ o.sess = sess
  BY <1>1, CloseDictionary
<1>3. sess # NoSess => s1 \in Session /\ s1.dicts = sess.dicts \ {d}
  BY <1>1, SessionCloses DEF EnvOK
<1> HIDE DEF s1
<1>4. /\ errno' \in Int /\ EnvOK' /\ sess' = o.sess
      /\ \/ o.fd = NoFd /\ Lose
         \/ Answered(o) /\ sess' \in Session /\ Keep
  BY <1>1, <1>2, <1>3, Takes DEF Down, Answered, EnvOK
<1>5. Lose => ~Keep
  BY DEF Lose, Keep
<1>6. CASE Down(o)
  BY <1>4, <1>5, <1>6 DEF Down, Failed, Answered
<1>7. CASE Answered(o) /\ o.ret = 0 /\ d \in sess.dicts /\ o.sess = s1
  BY <1>3, <1>4, <1>7 DEF Answered, Failed, ERROR
<1>8. CASE Answered(o) /\ Failed(o) /\ ~Dead(o) /\ o.sess = sess
  BY <1>4, <1>8 DEF Answered
<1> QED BY <1>2, <1>6, <1>7, <1>8

LEMMA NonEmptyLen == ASSUME NEW s \in Seq(Int) PROVE s # <<>> => Len(s) > 0
OBVIOUS

LEMMA CloseListStep == ASSUME Inv, CloseList PROVE Inv'
<1>1. LinkInv /\ IdsOK /\ CallOK /\ list \in Seq(Int) /\ k \in Nat
  BY Parts DEF Inv, LinkInv, CallOK, IdsOK
<1>2. pc = "close_list" /\ pc \in Closing /\ k < Len(list)
  BY DEF CloseList, ListEnd, Closing
<1>7. PICK d :
        /\ d \in IF freed THEN Garbage ELSE {list[k + 1]}
        /\ \E o \in sj3_close_dictionary(d) :
            /\ Take(o)
            /\ \/ Failed(o) /\ Dead(o) /\ close_dead
               \/ /\ ~(Failed(o) /\ Dead(o)) /\ k' = k + 1 /\ Goto("close_list")
                  /\ err' = IF Failed(o) THEN err \cup {"CLOSE_MDICT_ERROR"} ELSE err
                  /\ Steady
  BY DEF CloseList
<1>3. PICK o \in sj3_close_dictionary(d) :
          /\ Take(o)
          /\ \/ Failed(o) /\ Dead(o) /\ close_dead
             \/ /\ ~(Failed(o) /\ Dead(o)) /\ k' = k + 1 /\ Goto("close_list")
                /\ err' = IF Failed(o) THEN err \cup {"CLOSE_MDICT_ERROR"} ELSE err
                /\ Steady
  BY <1>7
<1>4. /\ errno' \in Int /\ EnvOK'
      /\ (Lose /\ Failed(o)) \/ (Keep /\ ~(Failed(o) /\ Dead(o)))
      /\ Keep /\ ~Failed(o) => d \in sess.dicts /\ sess'.dicts = sess.dicts \ {d}
  BY <1>1, <1>3, ClosesOne
<1>5. CASE Failed(o) /\ Dead(o) /\ close_dead
  BY <1>1, <1>2, <1>4, <1>5, Dying
<1>6. CASE /\ k' = k + 1 /\ Goto("close_list") /\ Steady
           /\ err' = IF Failed(o) THEN err \cup {"CLOSE_MDICT_ERROR"} ELSE err
  <2>5. k' = k + 1 /\ k \in Nat /\ k < Len(list) /\ Len(list) \in Nat
    BY <1>1, <1>2, <1>6
  <2>6. k' \in Nat /\ k' <= Len(list)
    BY <2>5
  <2>7. IdsOK'
    BY <1>1, <1>6, SteadyIds
  <2>1. IdsOK' /\ k' \in Nat /\ UNCHANGED <<list, freed, udicid, arg>> /\ pc' = "close_list"
    BY <1>6, <2>6, <2>7 DEF Steady, ids, Goto
  <2>2. Calls' /\ "close_list" \in (Opening \cup Closing) \ {"unix", "inet"}
    BY <1>1, <1>2, <2>1, <2>6 DEF LinkInv, Calls, Opening, Closing
  <2>3. LinkInv'
    BY <1>1, <1>4, <1>6, <2>1, <2>2, GoesOn
  <2>4. ASSUME Keep, err' = {} PROVE LeftToClose'
    <3>1. ~Failed(o) /\ err = {}
      BY <1>6, <2>4
    <3>2. d \in sess.dicts /\ sess'.dicts = sess.dicts \ {d}
      BY <1>4, <2>4, <3>1
    <3>3. CASE sess.dicts \subseteq {MainDict, udicid}
      <4>1. /\ sess'.dicts \subseteq {MainDict, udicid'}
            /\ MainDict \notin sess'.dicts \/ udicid' \notin sess'.dicts
        BY <2>1, <3>2, <3>3
      <4> QED BY <2>1, <4>1 DEF LeftToClose, Listed
    <3>4. CASE freed = FALSE /\ sess.dicts \subseteq Listed(k + 1, Len(list)) \cup {udicid}
      <4>1. d = list[k + 1]
        BY <1>7, <3>4
      <4>2. ASSUME NEW x \in sess'.dicts, x # udicid
            PROVE  \E n \in k' + 1 .. Len(list') : x = list'[n]
        <5>1. x \in Listed(k + 1, Len(list)) /\ x # list[k + 1]
          BY <3>2, <3>4, <4>1, <4>2
        <5>2. PICK n \in k + 1 .. Len(list) : x = list[n]
          BY <5>1 DEF Listed
        <5>3. n \in k' + 1 .. Len(list)
          BY <2>5, <5>1, <5>2
        <5> QED BY <2>1, <5>2, <5>3
      <4>3. freed' = FALSE
        BY <2>1, <3>4
      <4>4. sess'.dicts \subseteq {list'[n] : n \in k' + 1 .. Len(list')} \cup {udicid'}
        BY <2>1, <4>2
      <4> QED BY <2>1, <4>3, <4>4 DEF LeftToClose, Listed
    <3> QED BY <1>2, <2>4, <3>1, <3>3, <3>4 DEF Inv, SessInv, LeftToClose, Keep
  <2> QED BY <1>4, <2>1, <2>3, <2>4, ClosingOn DEF Closing
<1> QED BY <1>3, <1>5, <1>6

LEMMA EndCloseListStep == ASSUME Inv, EndCloseList PROVE Inv'
<1>1. LinkInv /\ EnvOK /\ errno \in Int /\ IdsOK /\ CallOK /\ Linkage /\ list \in Seq(Int)
      /\ k \in Nat
  BY Parts DEF Inv, LinkInv, IdsOK, CallOK
<1>2. /\ pc = "close_list" /\ k = Len(list) /\ list' = <<>> /\ list # <<>>
      /\ UNCHANGED <<fd, errno, open, sess, fs, svr, udicid>> /\ pc \in Closing
  BY <1>1 DEF EndCloseList, ListEnd, env, LinkInv, Calls, Closing
<1>3. EnvOK' /\ errno' \in Int
  BY <1>1, <1>2 DEF EnvOK
<1>4. Lose \/ Keep
  BY <1>1, <1>2 DEF Lose, Keep, Linkage
<1>5. IdsOK'
  <2>1. freed' \in BOOLEAN
    BY Zenon DEF EndCloseList
  <2>2. mdicid' = 0 \/ mdicid' = mdicid
    BY Zenon DEF EndCloseList
  <2>3. list' \in Seq(Int)
    BY <1>2
  <2>4. mdicid' \in Int /\ udicid' \in Int /\ svr' \in 0 .. 2
    BY <1>1, <1>2, <2>2 DEF IdsOK
  <2> QED BY <2>1, <2>3, <2>4 DEF IdsOK
<1>6. CASE mdicid' = 0 /\ Goto("close_udict") /\ UNCHANGED <<err, k>>
  <2>1. k' \in Nat /\ pc' = "close_udict" /\ arg' = arg
    BY <1>1, <1>6 DEF Goto
  <2>2. Calls' /\ "close_udict" \in (Opening \cup Closing) \ {"unix", "inet"}
    BY <1>1, <1>2, <2>1 DEF LinkInv, Calls, Opening, Closing
  <2>3. LinkInv'
    BY <1>1, <1>3, <1>4, <1>5, <1>6, <2>1, <2>2, GoesOn
  <2>4. ASSUME Keep, err' = {} PROVE LeftToClose'
    <3>1. \/ /\ sess.dicts \subseteq {MainDict, udicid}
             /\ k > 0 => MainDict \notin sess.dicts \/ udicid \notin sess.dicts
          \/ sess.dicts \subseteq Listed(k + 1, Len(list)) \cup {udicid}
      BY <1>2, <1>6, <2>4 DEF Inv, SessInv, LeftToClose, Keep
    <3>2. k > 0
      BY <1>1, <1>2, NonEmptyLen
    <3>3. Listed(k + 1, Len(list)) = {}
      BY <1>1, <1>2 DEF Listed
    <3>4. sess.dicts \subseteq {udicid} \/ udicid \notin sess.dicts
      BY <3>1, <3>2, <3>3
    <3> QED BY <1>2, <2>1, <3>4 DEF LeftToClose
  <2> QED BY <1>4, <2>1, <2>3, <2>4, ClosingOn DEF Closing
<1>7. CASE Aborted
  <2>1. LinkInv' /\ pc' = "aborted"
    BY <1>1, <1>3, <1>4, <1>5, <1>7, Aborts DEF Aborted
  <2>2. SessInv'
    BY <2>1 DEF SessInv, OpenedSoFar, OpenedWell, LeftToClose, OpenReady, Opening
  <2> QED BY <2>1, <2>2 DEF Inv
<1> QED BY <1>6, <1>7 DEF EndCloseList

LEMMA CloseMainStep == ASSUME Inv, CloseMain PROVE Inv'
<1>1. LinkInv /\ IdsOK /\ CallOK
  BY Parts DEF Inv, LinkInv
<1>2. pc = "close_mdict" /\ pc \in Closing
  BY DEF CloseMain, Closing
<1>3. PICK o \in sj3_close_dictionary(mdicid) :
        /\ Take(o)
        /\ \/ Failed(o) /\ Dead(o) /\ close_dead
           \/ /\ ~(Failed(o) /\ Dead(o)) /\ mdicid' = 0 /\ Goto("close_udict")
              /\ err' = IF Failed(o) THEN err \cup {"CLOSE_MDICT_ERROR"} ELSE err
              /\ UNCHANGED <<udicid, list, freed, svr, k>>
  BY DEF CloseMain
<1>4. /\ errno' \in Int /\ EnvOK'
      /\ (Lose /\ Failed(o)) \/ (Keep /\ ~(Failed(o) /\ Dead(o)))
      /\ Keep /\ ~Failed(o) => /\ mdicid \in sess.dicts
                               /\ sess'.dicts = sess.dicts \ {mdicid}
  BY <1>1, <1>3, ClosesOne
<1>5. CASE Failed(o) /\ Dead(o) /\ close_dead
  BY <1>1, <1>2, <1>4, <1>5, Dying
<1>6. CASE /\ mdicid' = 0 /\ Goto("close_udict") /\ UNCHANGED <<udicid, list, freed, svr, k>>
           /\ err' = IF Failed(o) THEN err \cup {"CLOSE_MDICT_ERROR"} ELSE err
  <2>1. IdsOK' /\ k' \in Nat /\ pc' = "close_udict" /\ arg' = arg
    BY <1>1, <1>6 DEF IdsOK, CallOK, Goto
  <2>2. Calls' /\ "close_udict" \in (Opening \cup Closing) \ {"unix", "inet"}
    BY <1>1, <1>2, <2>1 DEF LinkInv, Calls, Opening, Closing
  <2>3. LinkInv'
    BY <1>1, <1>4, <1>6, <2>1, <2>2, GoesOn
  <2>4. ASSUME Keep, err' = {} PROVE LeftToClose'
    <3>1. ~Failed(o) /\ err = {}
      BY <1>6, <2>4
    <3>2. sess.dicts \subseteq {MainDict, udicid}
      BY <1>2, <2>4, <3>1 DEF Inv, SessInv, LeftToClose, Keep
    <3>3. sess'.dicts \subseteq {udicid'} \/ udicid' \notin sess'.dicts
      BY <1>4, <1>6, <2>4, <3>1, <3>2
    <3> QED BY <2>1, <3>3 DEF LeftToClose
  <2> QED BY <1>4, <2>1, <2>3, <2>4, ClosingOn DEF Closing
<1> QED BY <1>3, <1>5, <1>6

LEMMA CloseUserStep == ASSUME Inv, CloseUser PROVE Inv'
<1>1. LinkInv /\ EnvOK /\ errno \in Int /\ IdsOK /\ CallOK /\ Linkage
  BY Parts DEF Inv, LinkInv
<1>2. pc = "close_udict" /\ pc \in Closing
  BY DEF CloseUser, Closing
<1>3. ASSUME IdsOK', k' \in Nat, Goto("close_study"), EnvOK', errno' \in Int, Lose \/ Keep,
             Keep /\ err' = {} => sess'.dicts = {}
      PROVE  Inv'
  <2>1. pc' = "close_study" /\ arg' = arg
    BY <1>3 DEF Goto
  <2>2. Calls' /\ "close_study" \in (Opening \cup Closing) \ {"unix", "inet"}
    BY <1>1, <1>2, <2>1 DEF LinkInv, Calls, Opening, Closing
  <2>3. LinkInv'
    BY <1>1, <1>3, <2>2, GoesOn
  <2>4. Keep /\ err' = {} => LeftToClose'
    BY <1>3, <2>1 DEF LeftToClose
  <2> QED BY <1>3, <2>1, <2>3, <2>4, ClosingOn DEF Closing
<1>4. CASE /\ udicid = 0 /\ err' = err \cup {"NOT_OPENED_UDICT"}
           /\ Goto("close_study") /\ Steady /\ UNCHANGED <<env, k>>
  <2>1. IdsOK' /\ k' \in Nat /\ EnvOK' /\ errno' \in Int
    BY <1>1, <1>4, SteadyIds DEF CallOK, EnvOK, env
  <2>2. Lose \/ Keep
    BY <1>1, <1>2, <1>4 DEF Lose, Keep, Linkage, env
  <2>3. err' # {}
    BY <1>4
  <2> QED BY <1>3, <1>4, <2>1, <2>2, <2>3
<1>5. CASE /\ udicid # 0
           /\ \E o \in sj3_close_dictionary(udicid) :
               /\ Take(o)
               /\ \/ Failed(o) /\ Dead(o) /\ close_dead
                  \/ /\ ~(Failed(o) /\ Dead(o)) /\ udicid' = 0 /\ Goto("close_study")
                     /\ err' = IF Failed(o) THEN err \cup {"CLOSE_UDICT_ERROR"} ELSE err
                     /\ UNCHANGED <<mdicid, list, freed, svr, k>>
  <2>1. PICK o \in sj3_close_dictionary(udicid) :
          /\ Take(o)
          /\ \/ Failed(o) /\ Dead(o) /\ close_dead
             \/ /\ ~(Failed(o) /\ Dead(o)) /\ udicid' = 0 /\ Goto("close_study")
                /\ err' = IF Failed(o) THEN err \cup {"CLOSE_UDICT_ERROR"} ELSE err
                /\ UNCHANGED <<mdicid, list, freed, svr, k>>
    BY <1>5
  <2>2. /\ errno' \in Int /\ EnvOK'
        /\ (Lose /\ Failed(o)) \/ (Keep /\ ~(Failed(o) /\ Dead(o)))
        /\ Keep /\ ~Failed(o) => /\ udicid \in sess.dicts
                                 /\ sess'.dicts = sess.dicts \ {udicid}
    BY <1>1, <2>1, ClosesOne
  <2>3. CASE Failed(o) /\ Dead(o) /\ close_dead
    BY <1>1, <1>2, <2>2, <2>3, Dying
  <2>4. CASE /\ udicid' = 0 /\ Goto("close_study") /\ UNCHANGED <<mdicid, list, freed, svr, k>>
             /\ err' = IF Failed(o) THEN err \cup {"CLOSE_UDICT_ERROR"} ELSE err
    <3>1. IdsOK' /\ k' \in Nat
      BY <1>1, <2>4 DEF IdsOK, CallOK
    <3>2. ASSUME Keep, err' = {} PROVE sess'.dicts = {}
      <4>1. ~Failed(o) /\ err = {}
        BY <2>4, <3>2
      <4>2. sess.dicts \subseteq {udicid} \/ udicid \notin sess.dicts
        BY <1>2, <3>2, <4>1 DEF Inv, SessInv, LeftToClose, Keep
      <4> QED BY <2>2, <3>2, <4>1, <4>2
    <3> QED BY <1>3, <2>2, <2>4, <3>1, <3>2
  <2> QED BY <2>1, <2>3, <2>4
<1> QED BY <1>4, <1>5 DEF CloseUser

LEMMA CloseStudyStep == ASSUME Inv, CloseStudy PROVE Inv'
<1>1. LinkInv /\ EnvOK /\ IdsOK /\ CallOK /\ Linkage
  BY Parts DEF Inv, LinkInv
<1>2. pc = "close_study" /\ pc \in Closing
  BY DEF CloseStudy, Closing
<1>3. PICK o \in sj3_close_study_file :
        /\ Take(o)
        /\ \/ Failed(o) /\ Dead(o) /\ close_dead
           \/ /\ ~(Failed(o) /\ Dead(o)) /\ Goto("disconnect")
              /\ err' = err \cup (CASE ~Failed(o) -> {}
                                  [] Failed(o) /\ o.errno = StdyFileNotOpened -> {"NOT_OPENED_STUDY"}
                                  [] OTHER -> {"CLOSE_STUDY_ERROR"})
              /\ Steady /\ UNCHANGED k
  BY DEF CloseStudy
<1> DEFINE s1 == [sess EXCEPT !.stdy = FALSE]
<1>4. /\ OutcomeOK(o)
      /\ \/ Down(o)
         \/ Answered(o) /\ o.ret = 0 /\ o.sess = s1
         \/ Answered(o) /\ Failed(o) /\ ~Dead(o) /\ o.sess = sess
  BY <1>1, CloseStudyFile
<1>5. sess # NoSess => s1 \in Session /\ s1.stdy = FALSE /\ s1.dicts = sess.dicts
  BY <1>1, SessionStudies DEF EnvOK
<1> HIDE DEF s1
<1>6. /\ errno' \in Int /\ EnvOK' /\ sess' = o.sess
      /\ \/ o.fd = NoFd /\ Lose
         \/ Answered(o) /\ sess' \in Session /\ Keep
  BY <1>1, <1>3, <1>4, <1>5, Takes DEF Down, Answered, EnvOK
<1>7. CASE Failed(o) /\ Dead(o) /\ close_dead
  <2>1. Lose
    BY <1>4, <1>6, <1>7 DEF Failed, Answered, Down, Keep, ERROR
  <2> QED BY <1>1, <1>2, <1>6, <1>7, <2>1, Dying
<1>8. CASE /\ Goto("disconnect") /\ Steady /\ UNCHANGED k
           /\ err' = err \cup (CASE ~Failed(o) -> {}
                               [] Failed(o) /\ o.errno = StdyFileNotOpened -> {"NOT_OPENED_STUDY"}
                               [] OTHER -> {"CLOSE_STUDY_ERROR"})
  <2>1. IdsOK' /\ k' \in Nat /\ pc' = "disconnect" /\ arg' = arg
    BY <1>1, <1>8, SteadyIds DEF CallOK, Goto
  <2>2. Calls' /\ "disconnect" \in (Opening \cup Closing) \ {"unix", "inet"}
    BY <1>1, <1>2, <2>1 DEF LinkInv, Calls, Opening, Closing
  <2>3. LinkInv'
    BY <1>1, <1>6, <1>8, <2>1, <2>2, GoesOn
  <2>4. ASSUME Keep, err' = {} PROVE LeftToClose'
    <3>1. ~Failed(o) /\ err = {}
      BY <1>8, <2>4
    <3>2. sess.dicts = {}
      BY <1>2, <2>4, <3>1 DEF Inv, SessInv, LeftToClose, Keep
    <3>3. sess' = s1 /\ sess # NoSess
      BY <1>4, <1>6, <2>4, <3>1 DEF Down, Failed, Keep
    <3>4. sess'.dicts = {} /\ sess'.stdy = FALSE
      BY <1>5, <3>2, <3>3
    <3> QED BY <2>1, <3>4 DEF LeftToClose
  <2> QED BY <1>6, <2>1, <2>3, <2>4, ClosingOn DEF Closing
<1> QED BY <1>3, <1>7, <1>8

LEMMA DisconnectStep == ASSUME Inv, Disconnect PROVE Inv'
<1>1. LinkInv /\ EnvOK /\ IdsOK /\ CallOK /\ Linkage
  BY Parts DEF Inv, LinkInv
<1>2. pc = "disconnect" /\ pc \in Closing /\ arg.fn = "sj3_close"
  BY <1>1 DEF Disconnect, Closing, LinkInv, Calls
<1>3. PICK o \in sj3_erase_connection :
        /\ Take(o)
        /\ \/ Failed(o) /\ Dead(o) /\ close_dead
           \/ /\ ~(Failed(o) /\ Dead(o))
              /\ Return(IF Failed(o) THEN err \cup {"DISCONNECT_ERROR"} ELSE err)
              /\ Steady
  BY DEF Disconnect
<1>4. OutcomeOK(o) /\ o.fd = NoFd /\ o.sess = NoSess
  BY <1>1, EraseConnection
<1>5. errno' \in Int /\ EnvOK' /\ Lose
  BY <1>1, <1>3, <1>4, TakeOutcome
<1>6. CASE Failed(o) /\ Dead(o) /\ close_dead
  BY <1>1, <1>2, <1>5, <1>6, Dying
<1>7. CASE /\ Return(IF Failed(o) THEN err \cup {"DISCONNECT_ERROR"} ELSE err)
           /\ Steady
  <2>1. IdsOK'
    BY <1>1, <1>7, SteadyIds
  <2>2. LinkInv'
    BY <1>1, <1>2, <1>5, <1>7, <2>1, Returns
  <2>3. ret'.fn \notin OpenFn
    BY <1>2, <1>7 DEF Return, OpenFn
  <2> QED BY <1>5, <2>2, <2>3, SessLost DEF Inv
<1> QED BY <1>3, <1>6, <1>7

----------------------------------------------------------------------------
(* The requests of the application *)

\* An answer leaves the session alone and its error is one the library knows.
PlainReply(r) == r.code \in Code /\ r.val \in Int /\ r.sess = sess /\ r.fs = fs

LEMMA PlainReplies ==
    ASSUME NEW codes \in SUBSET Code
    PROVE  /\ \A r \in Answers(codes) : PlainReply(r)
           /\ \A r \in OnDict(codes) : PlainReply(r)
<1>1. \A r \in Answers(codes) : PlainReply(r)
  <2> SUFFICES ASSUME NEW r \in Answers(codes) PROVE PlainReply(r)
    OBVIOUS
  <2>1. r = Rep(0, 0, sess, fs) \/ \E c \in codes : r = Rep(c, ERROR, sess, fs)
    BY DEF Answers
  <2> QED BY <2>1 DEF PlainReply, Rep, ERROR, Code, NoMoreDictData
<1>2. PlainReply(Rep(NoSuchDict, ERROR, sess, fs))
  BY DEF PlainReply, Rep, ERROR, Code, NoMoreDictData, NoSuchDict
<1> QED BY <1>1, <1>2 DEF OnDict

LEMMA RequestOutcome ==
    ASSUME EnvOK, Linkage, NEW R, \A r \in R : PlainReply(r), NEW o \in Valued(R) \cup Coded(R)
    PROVE  /\ OutcomeOK(o)
           /\ Down(o) \/ (Answered(o) /\ o.sess = sess /\ o.errno \in Code)
<1> DEFINE n1 == {0, ServerDown}
           n2 == {0}
<1>1. o \in Exchange(R, n1) \/ o \in Exchange(R, n2)
  BY DEF Valued, Coded
<1>2. (\A n \in n1 : n \in Int) /\ (\A n \in n2 : n \in Int)
  BY DEF ServerDown
<1>3. \A r \in R : r.code \in Code /\ r.val \in Int /\ r.sess = sess /\ r.fs = fs
  BY DEF PlainReply
<1> HIDE DEF n1, n2
<1>4. CASE o \in Exchange(R, n1)
  BY <1>2, <1>3, <1>4, Answering
<1>5. CASE o \in Exchange(R, n2)
  BY <1>2, <1>3, <1>5, Answering
<1> QED BY <1>1, <1>4, <1>5

\* Between two calls, with the session as it was.
LEMMA StillIdle ==
    ASSUME Inv, pc = "idle", pc' = "idle", UNCHANGED <<sess, udicid, list, freed>>,
           ret'.fn \notin OpenFn
    PROVE  SessInv'
<1>1. sess # NoSess => Known({udicid})
  BY DEF Inv, SessInv, OpenedSoFar
<1>2. sess' # NoSess => (Known({udicid}))'
  BY <1>1 DEF Known, Listed
<1> QED BY <1>2 DEF SessInv, OpenedSoFar, OpenedWell, LeftToClose, OpenReady, Opening

LEMMA IdleCalls ==
    ASSUME CallOK, pc = "idle", arg' = NoArg, UNCHANGED <<pc, k>>
    PROVE  CallOK' /\ Calls'
<1>1. NoArg \in [fn : OpenFn \cup {"sj3_close", "none"}, user : User \cup {NoUser},
                 dicts : Seq(Int)]
  BY DEF NoArg
<1> QED BY <1>1 DEF CallOK, Calls, Opening, Closing

LEMMA RequestStep ==
    ASSUME Inv, NEW R, \A r \in R : PlainReply(r), NEW S \in {Valued(R), Coded(R)},
           NEW refuse \in [Code -> Nat], NEW vals \in SUBSET Nat, Request(S, refuse, vals)
    PROVE  Inv'
<1>1. LinkInv /\ EnvOK /\ IdsOK /\ CallOK /\ Linkage
  BY Parts DEF Inv, LinkInv
<1>2. pc = "idle" /\ arg' = NoArg /\ UNCHANGED <<pc, err, k, list, freed, svr>>
  BY DEF Request
<1>3. PICK o \in S :
        /\ Take(o)
        /\ \/ /\ ~Failed(o) /\ UNCHANGED <<mdicid, udicid>>
              /\ \E v \in vals : ret' = [fn |-> "request", val |-> v]
           \/ /\ Failed(o) /\ ServerGone(o) /\ mdicid' = 0 /\ udicid' = 0
              /\ ret' = [fn |-> "request", val |-> -1]
           \/ /\ Failed(o) /\ ~ServerGone(o) /\ UNCHANGED <<mdicid, udicid>>
              /\ ret' = [fn |-> "request", val |-> refuse[o.errno]]
  BY DEF Request
<1>4. /\ OutcomeOK(o)
      /\ Down(o) \/ (Answered(o) /\ o.sess = sess /\ o.errno \in Code)
  BY <1>1, <1>3, RequestOutcome
<1>5. /\ errno' \in Int /\ EnvOK' /\ sess' = o.sess
      /\ \/ o.fd = NoFd /\ Lose
         \/ Answered(o) /\ sess' \in Session /\ Keep
  BY <1>1, <1>3, <1>4, Takes DEF Down, Answered, EnvOK
<1>6. CallOK' /\ Calls' /\ pc' = "idle"
  BY <1>1, <1>2, IdleCalls
<1>7. Linkage'
  BY <1>1, <1>5, <1>6, LinkageKept
<1>8. mdicid' \in Int /\ udicid' \in Int
  BY <1>1, <1>3 DEF IdsOK
<1>9. IdsOK'
  BY <1>1, <1>2, <1>8 DEF IdsOK
<1>10. ret'.fn = "request"
  BY <1>3
<1>11. /\ ret'.val = -1 <=> fd' = NoFd
       /\ fd' = NoFd => mdicid' = 0 /\ udicid' = 0
  <2>1. CASE Down(o)
    BY <1>3, <1>5, <2>1 DEF Down, Failed, ServerGone, Lose, Answered
  <2>2. CASE Answered(o) /\ o.errno \in Code
    <3>1. fd' # NoFd /\ ~ServerGone(o)
      BY <1>5, <2>2 DEF Answered, Keep, ServerGone
    <3>2. \A v \in vals : v # -1
      OBVIOUS
    <3>3. refuse[o.errno] # -1
      BY <2>2
    <3> QED BY <1>3, <3>1, <3>2, <3>3
  <2> QED BY <1>4, <2>1, <2>2
<1>12. LinkInv'
  BY <1>5, <1>6, <1>7, <1>9, <1>10, <1>11, TypeParts1 DEF LinkInv, Closed, RequestsReportDown
<1>13. SessInv'
  <2>1. CASE Lose
    BY <1>10, <2>1, SessLost DEF OpenFn
  <2>2. CASE Keep
    <3>1. UNCHANGED <<udicid, sess>>
      BY <1>3, <1>4, <1>5, <2>2 DEF Down, Answered, ServerGone, Keep
    <3> QED BY <1>2, <1>6, <1>10, <3>1, StillIdle DEF OpenFn
  <2> QED BY <1>5, <2>1, <2>2
<1> QED BY <1>12, <1>13 DEF Inv

LEMMA NotSentStep == ASSUME Inv, NEW v, NotSent(v) PROVE Inv'
<1>1. LinkInv /\ EnvOK /\ errno \in Int /\ IdsOK /\ CallOK /\ Linkage
  BY Parts DEF Inv, LinkInv
<1>2. /\ pc = "idle" /\ arg' = NoArg /\ UNCHANGED <<fd, errno, open, sess, fs, pc, err, k>>
      /\ UNCHANGED <<mdicid, udicid, list, freed>> /\ ret'.fn = "not_sent"
  BY DEF NotSent, env, Steady, ids
<1>3. EnvOK' /\ errno' \in Int /\ IdsOK' /\ CallOK' /\ Calls'
  BY <1>1, <1>2, SteadyIds, IdleCalls DEF NotSent, EnvOK
<1>4. Linkage' /\ Closed' /\ RequestsReportDown'
  BY <1>1, <1>2 DEF Linkage, Closed, RequestsReportDown
<1>5. SessInv'
  BY <1>2, StillIdle DEF OpenFn
<1> QED BY <1>3, <1>4, <1>5, TypeParts1 DEF Inv, LinkInv

LEMMA RequestsStep == ASSUME Inv, Requests PROVE Inv'
<1>1. Zero \in [Code -> Nat] /\ One \in [Code -> Nat]
  BY DEF Zero, One
<1>2. TourokuStatus \in [Code -> Nat] /\ SyoukyoStatus \in [Code -> Nat]
  BY DEF TourokuStatus, SyoukyoStatus
<1>3. /\ {0} \in SUBSET Nat /\ {1} \in SUBSET Nat
      /\ OrBad(0, 1) \in SUBSET Nat /\ OrBad(1, 0) \in SUBSET Nat
  BY DEF OrBad
<1>4. /\ {LockedByOther} \in SUBSET Code /\ {NotLocked, LockedByOther} \in SUBSET Code
      /\ {DictLocked, AlreadyExistWord} \in SUBSET Code
      /\ {DictLocked, NoSuchWord} \in SUBSET Code
      /\ {NoMoreDictData} \in SUBSET Code
  BY DEF Code, LockedByOther, NotLocked, DictLocked, AlreadyExistWord, NoSuchWord,
         NoMoreDictData
<1>5. /\ \A r \in Answers({LockedByOther}) : PlainReply(r)
      /\ \A r \in Answers({NotLocked, LockedByOther}) : PlainReply(r)
      /\ \A r \in OnDict({DictLocked, AlreadyExistWord}) : PlainReply(r)
      /\ \A r \in OnDict({DictLocked, NoSuchWord}) : PlainReply(r)
      /\ \A r \in OnDict({NoMoreDictData}) : PlainReply(r)
  BY <1>4, PlainReplies
<1>6. CASE sj3_getkan
  BY <1>1, <1>3, <1>5, <1>6, RequestStep DEF sj3_getkan, sj3_ikkatu_henkan
<1>7. CASE sj3_douoncnt
  BY <1>1, <1>3, <1>5, <1>7, RequestStep DEF sj3_douoncnt, sj3_bunsetu_kouhosuu
<1>8. CASE sj3_getdouon
  BY <1>1, <1>3, <1>5, <1>8, RequestStep DEF sj3_getdouon, sj3_bunsetu_zenkouho
<1>9. CASE sj3_gakusyuu
  BY <1>1, <1>3, <1>5, <1>9, RequestStep DEF sj3_gakusyuu, sj3_tango_gakusyuu
<1>10. CASE sj3_gakusyuu2
  BY <1>1, <1>3, <1>5, <1>10, RequestStep DEF sj3_gakusyuu2, sj3_bunsetu_gakusyuu
<1>11. CASE sj3_touroku
  BY <1>2, <1>3, <1>5, <1>11, RequestStep DEF sj3_touroku, sj3_tango_touroku
<1>12. CASE sj3_syoukyo
  BY <1>2, <1>3, <1>5, <1>12, RequestStep DEF sj3_syoukyo, sj3_tango_sakujo
<1>13. CASE sj3_getdict
  BY <1>1, <1>3, <1>5, <1>13, RequestStep DEF sj3_getdict, sj3_tango_syutoku
<1>14. CASE sj3_nextdict
  BY <1>1, <1>3, <1>5, <1>14, RequestStep DEF sj3_nextdict, sj3_tango_jikouho
<1>15. CASE sj3_prevdict
  BY <1>1, <1>3, <1>5, <1>15, RequestStep DEF sj3_prevdict, sj3_tango_maekouho
<1>16. CASE sj3_lockserv
  BY <1>1, <1>3, <1>5, <1>16, RequestStep DEF sj3_lockserv, sj3_lock_server
<1>17. CASE sj3_unlockserv
  BY <1>1, <1>3, <1>5, <1>17, RequestStep DEF sj3_unlockserv, sj3_unlock_server
<1>18. CASE \E v \in {0, 1, 3, 4} : NotSent(v)
  BY <1>18, NotSentStep
<1> QED BY <1>6, <1>7, <1>8, <1>9, <1>10, <1>11, <1>12, <1>13, <1>14, <1>15, <1>16, <1>17,
           <1>18 DEF Requests

----------------------------------------------------------------------------
(* The theorems *)

LEMMA InitInv == ASSUME Init PROVE Inv
<1>1. EnvOK /\ errno \in Int
  BY FdAssumption, SessAssumption DEF Init, EnvOK, NoFd
<1>2. IdsOK
  <2>1. freed \in BOOLEAN
    BY Zenon DEF Init
  <2>2. mdicid = 0 /\ udicid = 0 /\ list = <<>> /\ svr = 0
    BY DEF Init
  <2> QED BY <2>1, <2>2 DEF IdsOK
<1>3. CallOK
  BY DEF Init, CallOK, NoArg
<1>4. Linkage /\ Calls
  BY DEF Init, Linkage, Calls, Opening, Closing
<1>5. ret.fn = "none"
  BY DEF Init, NoRet
<1>6. Closed /\ RequestsReportDown /\ OpenReady
  BY <1>5 DEF Closed, RequestsReportDown, OpenReady, OpenFn
<1>7. SessInv
  BY <1>6 DEF Init, SessInv
<1> QED BY <1>1, <1>2, <1>3, <1>4, <1>6, <1>7, TypeParts DEF Inv, LinkInv

LEMMA AppExitStep == ASSUME Inv, AppExit PROVE Inv'
<1>1. EnvOK
  BY Parts DEF Inv, LinkInv
<1>2. EnvOK' /\ errno' \in Int
  BY <1>1, FdAssumption DEF AppExit, EnvOK, NoFd
<1>3. IdsOK'
  <2>1. freed' \in BOOLEAN
    BY Zenon DEF AppExit
  <2>2. mdicid' = 0 /\ udicid' = 0 /\ list' = <<>> /\ svr' = 0
    BY DEF AppExit
  <2> QED BY <2>1, <2>2 DEF IdsOK
<1>4. CallOK'
  BY DEF AppExit, CallOK, NoArg
<1>5. Linkage' /\ Calls'
  BY DEF AppExit, Linkage, Calls, Opening, Closing
<1>6. ret'.fn = "none"
  BY DEF AppExit, NoRet
<1>7. Closed' /\ RequestsReportDown' /\ OpenReady'
  BY <1>6 DEF Closed, RequestsReportDown, OpenReady, OpenFn
<1>8. SessInv'
  BY <1>7 DEF AppExit, SessInv
<1> QED BY <1>2, <1>3, <1>4, <1>5, <1>7, <1>8, TypeParts1 DEF Inv, LinkInv

\* Nothing but the files of a user changes.
LEMMA OthersStep ==
    ASSUME Inv, fs' \in [User -> SUBSET Files],
           UNCHANGED <<fd, errno, open, sess, svr, ids, call>>
    PROVE  Inv'
<1>1. EnvOK /\ errno \in Int /\ IdsOK /\ CallOK
  BY Parts DEF Inv, LinkInv
<1>2. /\ UNCHANGED <<fd, errno, open, sess, svr, mdicid, udicid, list, freed>>
      /\ UNCHANGED <<pc, arg, err, k, ret>>
  BY DEF ids, call
<1>3. TypeOK'
  BY <1>1, <1>2, TypeParts1 DEF EnvOK, IdsOK, CallOK
<1>4. Linkage' /\ Calls' /\ Closed' /\ RequestsReportDown'
  BY <1>2 DEF Inv, LinkInv, Linkage, Calls, Closed, RequestsReportDown
<1>5. SessInv'
  BY <1>2 DEF Inv, SessInv, OpenedSoFar, OpenedWell, LeftToClose, OpenReady, Known, Listed
<1> QED BY <1>3, <1>4, <1>5 DEF Inv, LinkInv

LEMMA OtherClientStep == ASSUME Inv, NEW u \in User, OtherClient(u) PROVE Inv'
<1>1. fs \in [User -> SUBSET Files]
  BY Parts DEF Inv, LinkInv, EnvOK
<1>2. fs' \in [User -> SUBSET Files]
  BY <1>1 DEF OtherClient
<1> QED BY <1>2, OthersStep DEF OtherClient

LEMMA OpenStep == ASSUME Inv, Open PROVE Inv'
<1>1. PICK h \in {"unix", "inet"}, u \in User :
          sj3_open(h, u) \/ \E l \in DictLists : sj3_open_with_list(h, u, l)
  BY DEF Open
<1>2. <<>> \in Seq(Int) /\ \A l \in DictLists : l \in Seq(Int)
  BY IdAssumption
<1>3. "sj3_open" \in OpenFn /\ "sj3_open_with_list" \in OpenFn
  BY DEF OpenFn
<1>4. CASE sj3_open(h, u)
  BY <1>2, <1>3, <1>4, BeginStep DEF sj3_open
<1>5. ASSUME NEW l \in DictLists, sj3_open_with_list(h, u, l) PROVE Inv'
  BY <1>2, <1>3, <1>5, BeginStep DEF sj3_open_with_list
<1> QED BY <1>1, <1>4, <1>5

LEMMA MakeConnectionStep == ASSUME Inv, MakeConnection PROVE Inv'
<1>1. CASE ConnectNew
  <2> DEFINE R == {NewServer, DifferentVersion, NotAllowedUser}
  <2>1. R \in SUBSET Int /\ ERROR \notin R
    BY DEF NewServer, DifferentVersion, NotAllowedUser, ERROR
  <2>2. Connect("connect", R, "connect1")
    BY <1>1 DEF ConnectNew
  <2> HIDE DEF R
  <2> QED BY <2>1, <2>2, ConnectStep
<1>2. CASE ConnectOld
  <2> DEFINE R == {0, NotAllowedUser}
  <2>1. R \in SUBSET Int /\ ERROR \notin R
    BY DEF NotAllowedUser, ERROR
  <2>2. Connect("connect1", R, "erase")
    BY <1>2 DEF ConnectOld
  <2> HIDE DEF R
  <2> QED BY <2>1, <2>2, ConnectStep
<1> QED BY <1>1, <1>2, OpenUnixStep, OpenInetStep, StdySizeStep, EraseStep DEF MakeConnection

LEMMA OpenFilesStep == ASSUME Inv, OpenFiles PROVE Inv'
<1>1. /\ "udict?" \in Before /\ {"udict+", "udict"} \subseteq Before \ {"mkdir"}
      /\ "study?" \in After /\ {"study+", "study"} \subseteq After \ {"mkdir"}
  BY DEF Before, After
<1>2. CASE ProbeDict
  BY <1>1, <1>2, ProbeStep DEF ProbeDict
<1>3. CASE ProbeStudy
  BY <1>1, <1>3, ProbeStep DEF ProbeStudy
<1>4. CASE MakeDict
  BY <1>1, <1>4, MakeFileStep DEF MakeDict, sj3_make_dict_file, Files
<1>5. CASE MakeStudy
  BY <1>1, <1>5, MakeFileStep DEF MakeStudy, sj3_make_study_file, Files
<1> QED BY <1>2, <1>3, <1>4, <1>5, OpenMainStep, AllocListStep, OpenListStep, EndListStep,
           MakeDirsStep, OpenUserStep, OpenStudyStep DEF OpenFiles

LEMMA CloseStep == ASSUME Inv, Close PROVE Inv'
BY SjCloseStep, CloseListStep, EndCloseListStep, CloseMainStep, CloseUserStep, CloseStudyStep,
   DisconnectStep DEF Close

LEMMA NextInv == ASSUME Inv, [Next]_vars PROVE Inv'
<1>1. CASE Next
  BY <1>1, OpenStep, MakeConnectionStep, OpenFilesStep, CloseStep, RequestsStep, AppExitStep,
     OtherClientStep DEF Next
<1>2. CASE UNCHANGED vars
  <2>1. fs' = fs /\ UNCHANGED <<fd, errno, open, sess, svr, ids, call>>
    BY <1>2 DEF vars, env
  <2>2. fs' \in [User -> SUBSET Files]
    BY <2>1, Parts DEF Inv, LinkInv, EnvOK
  <2> QED BY <2>1, <2>2, OthersStep
<1> QED BY <1>1, <1>2

\* The inductive invariant.
THEOREM Invariance == Spec => []Inv
<1>1. Init => Inv
  BY InitInv
<1>2. Inv /\ [Next]_vars => Inv'
  BY NextInv
<1> QED BY <1>1, <1>2, PTL DEF Spec

\* An opening call that returns 0 has made a usable session: connected for the
\* user, with the dictionaries and the study file open at the server under the
\* ids the library keeps, wherever the connection may have been lost.
THEOREM OpenIsReady == Spec => []OpenReady
<1>1. Inv => OpenReady
  BY DEF Inv, SessInv
<1> QED BY <1>1, Invariance, PTL

\* sj3_close always ends the connection, and it reports no error only when it
\* has closed everything that was open, whatever the lists of earlier sessions.
THEOREM CloseIsComplete == Spec => []CloseDisconnects
<1>1. Inv => CloseDisconnects
  <2> SUFFICES ASSUME Inv PROVE CloseDisconnects
    OBVIOUS
  <2>1. pc = "idle" /\ ret.fn = "sj3_close" => fd = NoFd /\ sess = NoSess
    BY DEF Inv, LinkInv, Closed
  <2>2. pc = "disconnect" /\ err = {} /\ sess # NoSess => sess.dicts = {} /\ sess.stdy = FALSE
    BY DEF Inv, SessInv, LeftToClose
  <2>3. pc = "disconnect" /\ err = {} => sess = NoSess \/ (sess.dicts = {} /\ ~sess.stdy)
    BY <2>2
  <2> QED BY <2>1, <2>3 DEF CloseDisconnects
<1> QED BY <1>1, Invariance, PTL

\* A request returns -1 exactly when the connection is gone.
THEOREM RequestsTellDown == Spec => []RequestsReportDown
<1>1. Inv => RequestsReportDown
  BY DEF Inv, LinkInv
<1> QED BY <1>1, Invariance, PTL

\* Between calls the library's descriptor is open and leads to the server.
THEOREM DescriptorIsLive == Spec => []LiveDescriptor
<1>1. Inv => LiveDescriptor
  BY DEF Inv, LinkInv, Linkage, LiveDescriptor
<1> QED BY <1>1, Invariance, PTL
=============================================================================
