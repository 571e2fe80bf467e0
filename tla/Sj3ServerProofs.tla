-------------------------- MODULE Sj3ServerProofs --------------------------
(***************************************************************************)
(* Proofs about Sj3Server for every set of descriptors and files and every *)
(* value of the bounds.                                                    *)
(***************************************************************************)
EXTENDS Sj3Server, FiniteSetTheorems, WellFoundedInduction, TLAPS

----------------------------------------------------------------------------
(* Counting clients *)

\* A set of clients has a cardinality, and it is 0 only for the empty set.
LEMMA ClientSetFinite ==
    ASSUME NEW A \in SUBSET Fd
    PROVE  /\ IsFiniteSet(A) /\ Cardinality(A) \in Nat
           /\ Cardinality(A) = 0 <=> A = {}
<1>1. IsFiniteSet(A)
  BY FS_Subset, FdAssumption
<1> QED
  BY <1>1, FS_CardinalityType, FS_EmptySet

\* One more client counts for one.
LEMMA CountAdded ==
    ASSUME NEW A \in SUBSET Fd, NEW c \in Fd
    PROVE  Cardinality(A \cup {c}) = Cardinality(A) + One(c \notin A)
<1>1. CASE c \in A
  <2>1. A \cup {c} = A
    BY <1>1
  <2> QED
    BY <1>1, <2>1, ClientSetFinite DEF One
<1>2. CASE c \notin A
  BY <1>2, ClientSetFinite, FS_AddElement DEF One
<1> QED
  BY <1>1, <1>2

\* One client less counts for one.
LEMMA CountRemoved ==
    ASSUME NEW A \in SUBSET Fd, NEW c \in Fd
    PROVE  Cardinality(A \ {c}) = Cardinality(A) - One(c \in A)
<1>1. CASE c \notin A
  <2>1. A \ {c} = A
    BY <1>1
  <2> QED
    BY <1>1, <2>1, ClientSetFinite DEF One
<1>2. CASE c \in A
  BY <1>2, ClientSetFinite, FS_RemoveElement DEF One
<1> QED
  BY <1>1, <1>2

----------------------------------------------------------------------------
(* Type correctness *)

\* The list without its i-th cell is a list of the same kind, one shorter.
LEMMA UnlinkType ==
    ASSUME NEW S, NEW s \in Seq(S), NEW i \in 1 .. Len(s)
    PROVE  /\ Unlink(s, i) \in Seq(S)
           /\ Len(Unlink(s, i)) = Len(s) - 1
           /\ \A j \in 1 .. Len(s) - 1 :
                 Unlink(s, i)[j] = IF j < i THEN s[j] ELSE s[j + 1]
<1> DEFINE n == Len(s) - 1
           f == [j \in 1 .. n |-> IF j < i THEN s[j] ELSE s[j + 1]]
<1>1. n \in Nat /\ \A j \in 1 .. n : f[j] \in S
  OBVIOUS
<1>2. f \in Seq(S)
  BY <1>1
<1> QED
  BY <1>1, <1>2 DEF Unlink

\* What every reachable state looks like: TypeOK together with the position
\* of the cursor, without which unlinking the client at the cursor would not
\* be defined, and the connection that accept() is about to take.
TypeInv ==
    /\ TypeOK
    /\ pc = "flush" => cur <= Len(client)
    /\ ListenFd \in readfds => backlog > 0

\* A set of naturals that is not empty has a least element.
LEMMA LeastNatural ==
    ASSUME NEW T, T \subseteq Nat, T # {}
    PROVE  \E x \in T : \A y \in T : x <= y
<1> DEFINE R == OpToRel(<, Nat)
<1>1. PICK x \in T : \A y \in T : <<y, x>> \notin R
  BY NatLessThanWellFounded, WFMin, Zenon
<1>2. \A y \in T : <<y, x>> \in R <=> y < x
  BY DEF OpToRel
<1> HIDE DEF R
<1>3. \A y \in T : ~(y < x)
  BY <1>1, <1>2
<1> QED
  BY <1>1, <1>3

\* A set of naturals that is bounded and not empty has a greatest element.
LEMMA GreatestNatural ==
    ASSUME NEW n \in Nat, NEW T, T \subseteq 0 .. n, T # {}
    PROVE  \E g \in T : \A h \in T : h <= g
<1> DEFINE D == {m \in 0 .. n : n - m \in T}
<1>1. D \subseteq Nat /\ D # {}
  <2>1. PICK g \in T : TRUE
    OBVIOUS
  <2>2. n - g \in D
    BY <2>1
  <2>3. D \subseteq Nat
    OBVIOUS
  <2> HIDE DEF D
  <2> QED
    BY <2>2, <2>3
<1> HIDE DEF D
<1>2. PICK x \in D : \A y \in D : x <= y
  BY <1>1, LeastNatural
<1>3. PICK g \in T : g = n - x /\ x \in 0 .. n
  BY DEF D
<1>4. \A h \in T : n - h \in D
  BY DEF D
<1> QED
  BY <1>2, <1>3, <1>4

\* clr_fd leaves a maxfds that is above every remaining descriptor, if the
\* old one was, and that is one above one of them if there are any.
LEMMA ClrFd ==
    ASSUME NEW c \in Nat, fds_org \subseteq Nat, maxfds \in Nat
    PROVE  /\ clr_fd(c) \in Nat
           /\ (\A f \in fds_org : f < maxfds) =>
                 \A f \in fds_org \ {c} : f < clr_fd(c)
           /\ (fds_org \ {c} # {} /\ maxfds - 1 \in fds_org /\ \A f \in fds_org : f < maxfds) =>
                 clr_fd(c) - 1 \in fds_org \ {c}
<1> DEFINE below == {g \in fds_org : g < c}
<1>1. CASE maxfds # c + 1
  BY <1>1 DEF clr_fd
<1>2. CASE maxfds = c + 1 /\ below = {}
  <2>1. \A f \in fds_org : ~(f < c)
    BY <1>2
  <2>2. clr_fd(c) = 0
    BY <1>2 DEF clr_fd
  <2>3. (\A f \in fds_org : f < maxfds) => \A f \in fds_org : f = c
    <3> HIDE DEF below
    <3> QED
      BY <1>2, <2>1
  <2>4. (\A f \in fds_org : f = c) => fds_org \ {c} = {}
    OBVIOUS
  <2>5. clr_fd(c) \in Nat
    BY <2>2
  <2> QED
    BY <2>3, <2>4, <2>5, Zenon
<1>3. CASE maxfds = c + 1 /\ below # {}
  <2>1. \A g \in below : g \in fds_org /\ g < c /\ g \in 0 .. c
    OBVIOUS
  <2>2. \E g \in below : \A h \in below : h <= g
    <3> HIDE DEF below
    <3> QED
      BY <1>3, <2>1, GreatestNatural
  <2> DEFINE top == CHOOSE g \in below : \A h \in below : h <= g
  <2>3. top \in below /\ \A h \in below : h <= top
    BY <2>2
  <2>4. clr_fd(c) = 1 + top
    BY <1>3 DEF clr_fd
  <2> HIDE DEF top
  <2> QED
    BY <1>3, <2>1, <2>3, <2>4
<1> QED
  BY <1>1, <1>2, <1>3

\* What the operations on the tables of open files return.
LEMMA FileOpTypes ==
    /\ \A rc \in [Dict -> Int], ds \in SUBSET Dict :
          Opened(rc, ds) \in [Dict -> Int] /\ Closed(rc, ds) \in [Dict -> Int]
    /\ \A lk \in [Dict -> SUBSET Fd], ds \in SUBSET Dict, c \in Fd :
          /\ lock_dict(lk, ds, c) \in [Dict -> SUBSET Fd]
          /\ unlock_dict(lk, ds, c) \in [Dict -> SUBSET Fd]
    /\ \A rc \in [Stdy -> Int], s \in Stdy \cup {NoStdy} :
          OpenedStdy(rc, s) \in [Stdy -> Int] /\ closestdy(rc, s) \in [Stdy -> Int]
BY DEF Opened, Closed, lock_dict, unlock_dict, OpenedStdy, closestdy, One

\* disconnect_client keeps the types when the cursor is on a client.
LEMMA DisconnectType ==
    ASSUME TypeInv, NEW c \in Fd, cur <= Len(client), disconnect_client(c)
    PROVE  TypeInv'
<1>1. client' \in Seq(Fd)
  <2>1. client \in Seq(Fd) /\ cur \in 1 .. Len(client)
    BY DEF TypeInv, TypeOK
  <2> QED
    BY <2>1, UnlinkType DEF disconnect_client
<1>2. maxfds' \in Nat
  BY ClrFd, FdAssumption DEF TypeInv, TypeOK, disconnect_client
<1>3. refcnt' \in [Dict -> Int] /\ lock' \in [Dict -> SUBSET Fd] /\ srefcnt' \in [Stdy -> Int]
  BY FileOpTypes DEF TypeInv, TypeOK, disconnect_client, FreeWorkarea, DropStdy
<1>4. /\ work' \subseteq Fd /\ wlock' \in [Fd -> Fd \cup {NOTLOCKED}]
      /\ dictlist' \in [Fd -> SUBSET Dict] /\ stdy' \in [Fd -> Stdy \cup {NoStdy}]
      /\ peer' \in [Fd -> PeerState]
  BY DEF TypeInv, TypeOK, disconnect_client, FreeWorkarea, DropStdy, PeerState
<1> QED
  BY <1>1, <1>2, <1>3, <1>4 DEF TypeInv, TypeOK, disconnect_client

\* Every request keeps the types.
LEMMA ExecuteType ==
    ASSUME TypeInv, NEW c \in Fd, Execute(c)
    PROVE  TypeInv'
<1> USE FileOpTypes DEF TypeInv, TypeOK, Serving, Reply, table, env, session, files
<1>1. CASE exec_connect(c)
  BY <1>1 DEF exec_connect
<1>2. CASE exec_disconnect(c)
  BY <1>2 DEF exec_disconnect, DropStdy, FreeWorkarea
<1>3. ASSUME NEW d \in Dict, exec_opendict(c, d)
      PROVE  TypeInv'
  <2>1. Inherited(c) \in SUBSET Dict /\ {d} \in SUBSET Dict /\ {d} \ ReadOnly \in SUBSET Dict
    BY FileAssumption DEF Inherited
  <2> QED
    BY <1>3, <2>1 DEF exec_opendict
<1>4. ASSUME NEW d \in Dict, exec_opendict_nomem(c, d)
      PROVE  TypeInv'
  <2>1. Inherited(c) \in SUBSET Dict
    BY FileAssumption DEF Inherited
  <2> QED
    BY <1>4, <2>1 DEF exec_opendict_nomem
<1>5. ASSUME NEW d \in Dict, exec_closedict(c, d)
      PROVE  TypeInv'
  BY <1>5 DEF exec_closedict
<1>6. ASSUME NEW d \in Dict, exec_editdict(c, d)
      PROVE  TypeInv'
  <2>1. content[d] \in {0, 1} /\ 1 - content[d] \in {0, 1}
    OBVIOUS
  <2>2. content' \in [Dict -> {0, 1}]
    BY <1>6, <2>1 DEF exec_editdict
  <2> QED
    BY <1>6, <2>2 DEF exec_editdict
<1>7. ASSUME NEW s \in Stdy, exec_openstdy(c, s)
      PROVE  TypeInv'
  BY <1>7 DEF exec_openstdy
<1>8. CASE exec_closestdy(c)
  BY <1>8 DEF exec_closestdy, DropStdy
<1>9. CASE exec_lock(c)
  BY <1>9 DEF exec_lock
<1>10. CASE exec_unlock(c)
  BY <1>10 DEF exec_unlock
<1>11. CASE exec_other(c)
  BY <1>11 DEF exec_other
<1>12. CASE exec_kill(c)
  <2>1. CASE peer[c] = "last"
    BY <1>12, <2>1, DisconnectType DEF exec_kill
  <2>2. CASE peer[c] # "last"
    BY <1>12, <2>2 DEF exec_kill, server_terminate, PeerState
  <2> QED
    BY <2>1, <2>2
<1> QED
  BY <1>1, <1>2, <1>3, <1>4, <1>5, <1>6, <1>7, <1>8, <1>9, <1>10, <1>11, <1>12 DEF Execute

\* Every step of the loop keeps the types.
LEMMA CommunicateType ==
    ASSUME TypeInv, Communicate
    PROVE  TypeInv'
<1> USE DEF TypeInv, TypeOK, table, env, session, files
<1>1. CASE select
  BY <1>1 DEF select, Ready
<1>2. CASE SkipClient
  BY <1>2 DEF SkipClient
<1>3. CASE EndWalk
  BY <1>3 DEF EndWalk
<1>4. CASE Refuse
  BY <1>4 DEF Refuse
<1>5. CASE NoConnection
  BY <1>5 DEF NoConnection
<1>6. ASSUME NEW c \in Fd, Accept(c)
      PROVE  TypeInv'
  <2>1. client' \in Seq(Fd)
    BY <1>6 DEF Accept
  <2>2. maxfds' \in Nat
    BY <1>6, FdAssumption DEF Accept, set_fd
  <2>3. peer' \in [Fd -> PeerState]
    BY <1>6 DEF Accept, PeerState
  <2> QED
    BY <1>6, <2>1, <2>2, <2>3 DEF Accept
<1>7. ASSUME NEW c \in Fd, ReadFail(c)
      PROVE  TypeInv'
  BY <1>7, DisconnectType DEF ReadFail
<1>8. ASSUME NEW c \in Fd, FlushReply(c)
      PROVE  TypeInv'
  BY <1>8 DEF FlushReply, PeerState
<1>9. ASSUME NEW c \in Fd, FlushFail(c)
      PROVE  TypeInv'
  BY <1>9, DisconnectType DEF FlushFail
<1> QED
  BY <1>1, <1>2, <1>3, <1>4, <1>5, <1>6, <1>7, <1>8, <1>9 DEF Communicate

\* Every step keeps the types.
LEMMA NextType == TypeInv /\ [Next]_vars => TypeInv'
<1> SUFFICES ASSUME TypeInv, [Next]_vars PROVE TypeInv'
  OBVIOUS
<1>1. CASE \E c \in Fd : Execute(c)
  BY <1>1, ExecuteType
<1>2. CASE Communicate
  BY <1>2, CommunicateType
<1>3. CASE terminate_handler
  BY <1>3 DEF terminate_handler, server_terminate, TypeInv, TypeOK, PeerState
<1>4. CASE Peers
  <2> USE DEF TypeInv, TypeOK, loop, table, session, files
  <2>1. CASE PeerConnect
    BY <2>1 DEF PeerConnect
  <2>2. ASSUME NEW c \in Fd, PeerSend(c) \/ PeerFinish(c) \/ PeerClose(c)
        PROVE  TypeInv'
    <3>1. peer' \in [Fd -> PeerState]
      BY <2>2 DEF PeerSend, PeerFinish, PeerClose, PeerState
    <3> QED
      BY <2>2, <3>1 DEF PeerSend, PeerFinish, PeerClose
  <2> QED
    BY <1>4, <2>1, <2>2 DEF Peers
<1>5. CASE UNCHANGED vars
  BY <1>5 DEF vars, loop, table, session, files, env, TypeInv, TypeOK
<1> QED
  BY <1>1, <1>2, <1>3, <1>4, <1>5 DEF Next, Exited

\* The initial state has the types.
LEMMA InitType == Init => TypeInv
BY FdAssumption DEF Init, InitialRefcnt, TypeInv, TypeOK, One, PeerState

\* Type correctness of the server: the cursor, the tables and the counters
\* stay in their ranges for any number of clients and files.
THEOREM TypeCorrect == Spec => []TypeOK
<1>1. TypeInv => TypeOK
  BY DEF TypeInv
<1> QED
  BY <1>1, InitType, NextType, PTL DEF Spec

----------------------------------------------------------------------------
(* The open files and their locks.                                         *)
(*                                                                         *)
(* None of the three properties is inductive alone: a dictionary that is   *)
(* opened while not loaded gets an empty lock set, which is harmless only  *)
(* because a reference count of 0 means that no session has it; a session  *)
(* takes a lock only under its own descriptor.                             *)

\* The inductive invariant of the tables of open files.
PoolInv ==
    /\ TypeInv
    /\ RefcntCoversHolders
    /\ StdyRefcntExact
    /\ NoStaleLock
    /\ \A c \in Fd : wlock[c] \in {NOTLOCKED, c}
    /\ \A c \in Fd : c \notin work => dictlist[c] = {}

\* The clients that have a dictionary in their list, or use a study file.
HoldersOf(dl, d) == {k \in Fd : d \in dl[k]}
UsersOf(st, x) == {k \in Fd : st[k] = x}

\* A client that takes dictionaries counts for one in each that is new to it.
LEMMA HoldersAdd ==
    ASSUME NEW dl \in [Fd -> SUBSET Dict], NEW c \in Fd, NEW ds \in SUBSET Dict, NEW d \in Dict
    PROVE  LET h == Cardinality(HoldersOf(dl, d))
               g == Cardinality(HoldersOf([dl EXCEPT ![c] = @ \cup ds], d))
           IN  h \in Nat /\ g \in Nat /\ g <= h + One(d \in ds)
<1> DEFINE H == HoldersOf(dl, d)
           G == HoldersOf([dl EXCEPT ![c] = @ \cup ds], d)
<1>1. H \in SUBSET Fd /\ G \in SUBSET Fd
  BY DEF HoldersOf
<1>2. G = IF d \in ds THEN H \cup {c} ELSE H
  BY DEF HoldersOf
<1> HIDE DEF H, G
<1>3. Cardinality(H) \in Nat /\ Cardinality(G) \in Nat
  BY <1>1, ClientSetFinite
<1>4. Cardinality(G) <= Cardinality(H) + One(d \in ds)
  BY <1>1, <1>2, <1>3, CountAdded DEF One
<1> QED
  BY <1>3, <1>4 DEF H, G

\* A client that gives dictionaries back counts for one less in each it had.
LEMMA HoldersDrop ==
    ASSUME NEW dl \in [Fd -> SUBSET Dict], NEW c \in Fd, NEW ds, ds \subseteq dl[c], NEW d \in Dict
    PROVE  LET h == Cardinality(HoldersOf(dl, d))
               g == Cardinality(HoldersOf([dl EXCEPT ![c] = @ \ ds], d))
           IN  h \in Nat /\ g = h - One(d \in ds)
<1> DEFINE H == HoldersOf(dl, d)
           G == HoldersOf([dl EXCEPT ![c] = @ \ ds], d)
<1>1. H \in SUBSET Fd
  BY DEF HoldersOf
<1>2. G = IF d \in ds THEN H \ {c} ELSE H
  BY DEF HoldersOf
<1>3. d \in ds => c \in H
  BY DEF HoldersOf
<1> HIDE DEF H, G
<1>4. Cardinality(H) \in Nat
  BY <1>1, ClientSetFinite
<1>5. Cardinality(G) = Cardinality(H) - One(d \in ds)
  BY <1>1, <1>2, <1>3, <1>4, CountRemoved DEF One
<1> QED
  BY <1>4, <1>5 DEF H, G

\* The users of a study file, before and after one client opens it.
LEMMA StdyUsersAdd ==
    ASSUME NEW st \in [Fd -> Stdy \cup {NoStdy}], NEW c \in Fd, NEW s \in Stdy, NEW x \in Stdy,
           c \notin UsersOf(st, x)
    PROVE  Cardinality(UsersOf([st EXCEPT ![c] = s], x)) = Cardinality(UsersOf(st, x)) + One(x = s)
<1> DEFINE U == UsersOf(st, x)
           V == UsersOf([st EXCEPT ![c] = s], x)
<1>1. c \notin U
  OBVIOUS
<1>2. V = IF x = s THEN U \cup {c} ELSE U
  BY DEF UsersOf
<1>3. U \in SUBSET Fd
  BY DEF UsersOf
<1> HIDE DEF U, V
<1>4. Cardinality(U) \in Nat
  BY <1>3, ClientSetFinite
<1>5. Cardinality(V) = Cardinality(U) + One(x = s)
  BY <1>1, <1>2, <1>3, <1>4, CountAdded DEF One
<1> QED
  BY <1>5 DEF U, V

\* The users of a study file, before and after one client gives up its own.
LEMMA StdyUsersDrop ==
    ASSUME NEW st \in [Fd -> Stdy \cup {NoStdy}], NEW c \in Fd, NEW x \in Stdy
    PROVE  Cardinality(UsersOf([st EXCEPT ![c] = NoStdy], x)) =
           Cardinality(UsersOf(st, x)) - One(x = st[c])
<1> DEFINE U == UsersOf(st, x)
           V == UsersOf([st EXCEPT ![c] = NoStdy], x)
<1>1. x = st[c] <=> c \in U
  BY DEF UsersOf
<1>2. V = U \ {c}
  BY FileAssumption DEF UsersOf
<1>3. U \in SUBSET Fd
  BY DEF UsersOf
<1> HIDE DEF U, V
<1>4. Cardinality(V) = Cardinality(U) - One(x = st[c])
  BY <1>1, <1>2, <1>3, CountRemoved DEF One
<1> QED
  BY <1>4 DEF U, V

\* The reference counts as the counting lemmas state them.
Counted(dl, rc) ==
    \A d \in Dict : Cardinality(HoldersOf(dl, d)) + One(d \in PreOpened)
                      + One(d \in PreLoaded) <= rc[d]
CountedStdy(st, rc) == \A x \in Stdy : rc[x] = Cardinality(UsersOf(st, x))

LEMMA CountedIsCovered ==
    /\ RefcntCoversHolders <=> (pc # "exit" => Counted(dictlist, refcnt))
    /\ StdyRefcntExact <=> CountedStdy(stdy, srefcnt)
BY DEF RefcntCoversHolders, StdyRefcntExact, Counted, CountedStdy, HoldersOf, UsersOf, Holders

\* Opening a set of dictionaries for a client, and some of them once more
\* than the client's list shows.
LEMMA CountedOpen ==
    ASSUME NEW dl \in [Fd -> SUBSET Dict], NEW rc \in [Dict -> Int], NEW nrc \in [Dict -> Int],
           NEW c \in Fd, NEW ds \in SUBSET Dict, Counted(dl, rc),
           \A d \in Dict : nrc[d] >= rc[d] + One(d \in ds)
    PROVE  Counted([dl EXCEPT ![c] = @ \cup ds], nrc)
<1> DEFINE new == [dl EXCEPT ![c] = @ \cup ds]
<1> SUFFICES ASSUME NEW d \in Dict
             PROVE  Cardinality(HoldersOf(new, d)) + One(d \in PreOpened)
                       + One(d \in PreLoaded) <= nrc[d]
  BY DEF Counted
<1>1. /\ Cardinality(HoldersOf(dl, d)) \in Nat /\ Cardinality(HoldersOf(new, d)) \in Nat
      /\ Cardinality(HoldersOf(new, d)) <= Cardinality(HoldersOf(dl, d)) + One(d \in ds)
  BY HoldersAdd
<1>2. Cardinality(HoldersOf(dl, d)) + One(d \in PreOpened) + One(d \in PreLoaded) <= rc[d]
  BY DEF Counted
<1>3. nrc[d] >= rc[d] + One(d \in ds) /\ rc[d] \in Int /\ nrc[d] \in Int
  OBVIOUS
<1> HIDE DEF new
<1> QED
  BY <1>1, <1>2, <1>3 DEF One

\* Closing a set of dictionaries a client has.
LEMMA CountedClose ==
    ASSUME NEW dl \in [Fd -> SUBSET Dict], NEW rc \in [Dict -> Int],
           NEW c \in Fd, NEW ds, ds \subseteq dl[c], Counted(dl, rc)
    PROVE  Counted([dl EXCEPT ![c] = @ \ ds], Closed(rc, ds))
<1> DEFINE new == [dl EXCEPT ![c] = @ \ ds]
<1> SUFFICES ASSUME NEW d \in Dict
             PROVE  Cardinality(HoldersOf(new, d)) + One(d \in PreOpened)
                       + One(d \in PreLoaded) <= Closed(rc, ds)[d]
  BY DEF Counted
<1>1. /\ Cardinality(HoldersOf(dl, d)) \in Nat
      /\ Cardinality(HoldersOf(new, d)) = Cardinality(HoldersOf(dl, d)) - One(d \in ds)
  BY HoldersDrop
<1>2. Cardinality(HoldersOf(dl, d)) + One(d \in PreOpened) + One(d \in PreLoaded) <= rc[d]
  BY DEF Counted
<1>3. Closed(rc, ds)[d] = rc[d] - One(d \in ds) /\ rc[d] \in Int
  BY DEF Closed
<1> HIDE DEF new
<1> QED
  BY <1>1, <1>2, <1>3 DEF One

\* One client opening a study file, and closing it.
LEMMA CountedStdyOpen ==
    ASSUME NEW st \in [Fd -> Stdy \cup {NoStdy}], NEW rc \in [Stdy -> Int],
           NEW c \in Fd, NEW s \in Stdy, st[c] = NoStdy, CountedStdy(st, rc)
    PROVE  CountedStdy([st EXCEPT ![c] = s], OpenedStdy(rc, s))
<1> SUFFICES ASSUME NEW x \in Stdy
             PROVE  OpenedStdy(rc, s)[x] = Cardinality(UsersOf([st EXCEPT ![c] = s], x))
  BY DEF CountedStdy
<1>1. Cardinality(UsersOf([st EXCEPT ![c] = s], x)) = Cardinality(UsersOf(st, x)) + One(x = s)
  <2>1. c \notin UsersOf(st, x)
    BY FileAssumption DEF UsersOf
  <2> QED
    BY <2>1, StdyUsersAdd DEF One
<1> QED
  BY <1>1 DEF CountedStdy, OpenedStdy

LEMMA CountedStdyClose ==
    ASSUME NEW st \in [Fd -> Stdy \cup {NoStdy}], NEW rc \in [Stdy -> Int],
           NEW c \in Fd, CountedStdy(st, rc)
    PROVE  CountedStdy([st EXCEPT ![c] = NoStdy], closestdy(rc, st[c]))
<1> SUFFICES ASSUME NEW x \in Stdy
             PROVE  closestdy(rc, st[c])[x] = Cardinality(UsersOf([st EXCEPT ![c] = NoStdy], x))
  BY DEF CountedStdy
<1>1. Cardinality(UsersOf([st EXCEPT ![c] = NoStdy], x)) = Cardinality(UsersOf(st, x)) - One(x = st[c])
  BY StdyUsersDrop
<1> QED
  BY <1>1 DEF CountedStdy, closestdy

\* The parts of the invariant after a step, as the cases below prove them.
LEMMA PoolParts ==
    ASSUME TypeInv', Counted(dictlist', refcnt'), CountedStdy(stdy', srefcnt'), NoStaleLock',
           \A k \in Fd : wlock'[k] \in {NOTLOCKED, k} /\ (k \notin work' => dictlist'[k] = {})
    PROVE  PoolInv'
BY DEF PoolInv, RefcntCoversHolders, StdyRefcntExact, Counted, CountedStdy, HoldersOf, UsersOf, Holders

\* server_terminate leaves nothing open.
LEMMA TerminatePool ==
    ASSUME server_terminate, TypeInv'
    PROVE  PoolInv'
<1>1. \A s \in Stdy : {c \in Fd : stdy'[c] = s} = {}
  BY FileAssumption DEF server_terminate
<1>2. StdyRefcntExact'
  BY <1>1, FS_EmptySet DEF server_terminate, StdyRefcntExact
<1> QED
  BY <1>2 DEF server_terminate, PoolInv, RefcntCoversHolders, NoStaleLock

\* Giving a session back, at SJ3_DISCONNECT or when its client dies.
LEMMA ReleasePool ==
    ASSUME PoolInv, NEW c \in Fd, DropStdy(c), FreeWorkarea(c), TypeInv', pc # "exit",
           \A k \in Fd \ {c} : peer[k] # "none" => peer'[k] # "none"
    PROVE  PoolInv'
<1>0. TypeOK
  BY DEF PoolInv, TypeInv
<1>1. Counted(dictlist', refcnt')
  <2>1. dictlist' = [dictlist EXCEPT ![c] = @ \ dictlist[c]] /\ refcnt' = Closed(refcnt, dictlist[c])
    BY DEF FreeWorkarea
  <2>2. Counted(dictlist, refcnt)
    BY CountedIsCovered DEF PoolInv
  <2> QED
    BY <1>0, <2>1, <2>2, CountedClose DEF TypeOK
<1>2. CountedStdy(stdy', srefcnt')
  <2>1. CountedStdy(stdy, srefcnt)
    BY CountedIsCovered DEF PoolInv
  <2> QED
    BY <1>0, <2>1, CountedStdyClose DEF DropStdy, TypeOK
<1>4. NoStaleLock'
  BY <1>0 DEF PoolInv, NoStaleLock, FreeWorkarea, unlock_dict, Connected, TypeOK
<1>5. \A k \in Fd : wlock'[k] \in {NOTLOCKED, k} /\ (k \notin work' => dictlist'[k] = {})
  BY <1>0 DEF PoolInv, FreeWorkarea, TypeOK
<1> QED
  BY <1>1, <1>2, <1>4, <1>5, PoolParts

\* Every request keeps the invariant of the open files.
LEMMA ExecutePool ==
    ASSUME PoolInv, NEW c \in Fd, Execute(c)
    PROVE  PoolInv'
<1>0. TypeInv' /\ TypeOK
  BY ExecuteType DEF PoolInv, TypeInv
<1>a. CASE Serving(c)
  <2>a. pc # "exit" /\ peer[c] # "none"
    BY <1>a DEF Serving
  <2>b. Counted(dictlist, refcnt) /\ CountedStdy(stdy, srefcnt)
    BY <2>a, CountedIsCovered DEF PoolInv
  <2>1. CASE exec_connect(c)
    <3>1. /\ work' = work \cup {c} /\ wlock' = [wlock EXCEPT ![c] = NOTLOCKED] /\ c \notin work
          /\ UNCHANGED <<dictlist, stdy, refcnt, lock, srefcnt, peer>>
      BY <1>0, <2>1 DEF exec_connect, Reply, env, files, PoolInv, TypeOK
    <3>2. NoStaleLock'
      BY <1>0, <3>1 DEF PoolInv, NoStaleLock, Connected, TypeOK
    <3> QED
      BY <1>0, <2>b, <3>1, <3>2, PoolParts DEF PoolInv, TypeOK
  <2>2. CASE exec_disconnect(c)
    BY <1>0, <2>a, <2>2, ReleasePool DEF exec_disconnect, Reply, env
  <2>3. ASSUME NEW d \in Dict, exec_opendict(c, d)
        PROVE  PoolInv'
    <3> DEFINE ds == Inherited(c) \cup {d}
    <3>1. /\ dictlist' = [dictlist EXCEPT ![c] = @ \cup ds] /\ ds \in SUBSET Dict
          /\ UNCHANGED <<work, wlock, stdy, srefcnt, peer>> /\ c \in work
      BY <2>3, FileAssumption DEF exec_opendict, Reply, env, Inherited
    <3>2. \A x \in Dict : refcnt'[x] >= refcnt[x] + One(x \in ds)
      BY <1>0, <2>3 DEF exec_opendict, Opened, One, TypeOK
    <3>3. Counted(dictlist', refcnt')
      BY <1>0, <2>b, <3>1, <3>2, CountedOpen DEF TypeInv, TypeOK
    <3>4. \A x \in Dict : \A k \in lock'[x] :
             k \in lock[x] \/ (k = c /\ wlock[c] = c /\ x = d /\ d \notin ReadOnly)
      BY <1>0, <2>3 DEF exec_opendict, lock_dict, TypeOK
    <3>5. NoStaleLock'
      BY <1>0, <2>a, <3>1, <3>4 DEF PoolInv, NoStaleLock, Connected, TypeOK, TypeInv
    <3> QED
      BY <1>0, <2>b, <3>1, <3>3, <3>5, PoolParts DEF PoolInv, TypeOK
  <2>4. ASSUME NEW d \in Dict, exec_opendict_nomem(c, d)
        PROVE  PoolInv'
    <3> DEFINE ds == Inherited(c)
    <3>1. /\ dictlist' = [dictlist EXCEPT ![c] = @ \cup ds] /\ ds \in SUBSET Dict
          /\ UNCHANGED <<work, wlock, stdy, lock, srefcnt, peer>> /\ c \in work
      BY <2>4, FileAssumption DEF exec_opendict_nomem, Reply, env, Inherited
    <3>2. \A x \in Dict : refcnt'[x] >= refcnt[x] + One(x \in ds)
      BY <1>0, <2>4 DEF exec_opendict_nomem, Opened, One, TypeOK
    <3>3. Counted(dictlist', refcnt')
      BY <1>0, <2>b, <3>1, <3>2, CountedOpen DEF TypeInv, TypeOK
    <3>4. NoStaleLock'
      BY <1>0, <3>1 DEF PoolInv, NoStaleLock, Connected, TypeOK
    <3> QED
      BY <1>0, <2>b, <3>1, <3>3, <3>4, PoolParts DEF PoolInv, TypeOK
  <2>5. ASSUME NEW d \in Dict, exec_closedict(c, d)
        PROVE  PoolInv'
    <3>1. /\ dictlist' = [dictlist EXCEPT ![c] = @ \ {d}] /\ {d} \subseteq dictlist[c]
          /\ refcnt' = Closed(refcnt, {d})
          /\ UNCHANGED <<work, wlock, stdy, srefcnt, peer>> /\ c \in work
      BY <2>5 DEF exec_closedict, Reply, env
    <3>2. Counted(dictlist', refcnt')
      BY <1>0, <2>b, <3>1, CountedClose DEF TypeOK
    <3>3. NoStaleLock'
      BY <1>0, <2>5, <3>1 DEF exec_closedict, unlock_dict, PoolInv, NoStaleLock, Connected, TypeOK
    <3> QED
      BY <1>0, <2>b, <3>1, <3>2, <3>3, PoolParts DEF PoolInv, TypeOK
  <2>6. CASE exec_other(c) \/ \E d \in Dict : exec_editdict(c, d)
    <3>1. UNCHANGED <<work, wlock, dictlist, stdy, refcnt, lock, srefcnt, peer>>
      BY <2>6 DEF exec_other, exec_editdict, Reply, env, session, files
    <3>2. NoStaleLock'
      BY <3>1 DEF PoolInv, NoStaleLock, Connected
    <3> QED
      BY <1>0, <2>b, <3>1, <3>2, PoolParts DEF PoolInv
  <2>7. ASSUME NEW s \in Stdy, exec_openstdy(c, s)
        PROVE  PoolInv'
    <3>1. /\ UNCHANGED <<work, wlock, dictlist, refcnt, lock, peer>>
          /\ stdy[c] = NoStdy /\ stdy' = [stdy EXCEPT ![c] = s]
          /\ srefcnt' = OpenedStdy(srefcnt, s)
      BY <2>7 DEF exec_openstdy, Reply, env
    <3>2. CountedStdy(stdy', srefcnt')
      BY <1>0, <2>b, <3>1, CountedStdyOpen DEF TypeOK
    <3>3. NoStaleLock'
      BY <3>1 DEF PoolInv, NoStaleLock, Connected
    <3> QED
      BY <1>0, <2>b, <3>1, <3>2, <3>3, PoolParts DEF PoolInv
  <2>8. CASE exec_closestdy(c)
    <3>1. /\ UNCHANGED <<work, wlock, dictlist, refcnt, lock, peer>>
          /\ stdy' = [stdy EXCEPT ![c] = NoStdy]
          /\ srefcnt' = closestdy(srefcnt, stdy[c])
      BY <2>8 DEF exec_closestdy, DropStdy, Reply, env
    <3>2. CountedStdy(stdy', srefcnt')
      BY <1>0, <2>b, <3>1, CountedStdyClose DEF TypeOK
    <3>3. NoStaleLock'
      BY <3>1 DEF PoolInv, NoStaleLock, Connected
    <3> QED
      BY <1>0, <2>b, <3>1, <3>2, <3>3, PoolParts DEF PoolInv
  <2>9. CASE exec_lock(c)
    <3>1. /\ UNCHANGED <<work, dictlist, stdy, refcnt, srefcnt, peer>> /\ c \in work
          /\ wlock' = [wlock EXCEPT ![c] = c]
      BY <2>9 DEF exec_lock, Reply, env
    <3>2. NoStaleLock'
      BY <1>0, <2>a, <2>9, <3>1 DEF exec_lock, lock_dict, PoolInv, NoStaleLock, Connected, TypeOK
    <3> QED
      BY <1>0, <2>b, <3>1, <3>2, PoolParts DEF PoolInv, TypeOK
  <2>10. CASE exec_unlock(c)
    <3>1. /\ UNCHANGED <<work, dictlist, stdy, refcnt, srefcnt, peer>>
          /\ wlock' = [wlock EXCEPT ![c] = NOTLOCKED]
      BY <2>10 DEF exec_unlock, Reply, env
    <3>3. NoStaleLock'
      BY <1>0, <2>10, <3>1 DEF exec_unlock, unlock_dict, PoolInv, NoStaleLock, Connected, TypeOK
    <3> QED
      BY <1>0, <2>b, <3>1, <3>3, PoolParts DEF PoolInv, TypeOK
  <2>11. CASE exec_kill(c)
    <3>1. CASE peer[c] = "last"
      BY <1>0, <2>a, <2>11, <3>1, ReleasePool DEF exec_kill, disconnect_client, TypeOK
    <3>2. CASE peer[c] # "last"
      BY <1>0, <2>11, <3>2, TerminatePool DEF exec_kill
    <3> QED
      BY <3>1, <3>2
  <2> QED
    BY <2>1, <2>2, <2>3, <2>4, <2>5, <2>6, <2>7, <2>8, <2>9, <2>10, <2>11 DEF Execute
<1> QED
  BY <1>a DEF Execute, exec_connect, exec_disconnect, exec_opendict, exec_opendict_nomem,
     exec_closedict, exec_editdict, exec_openstdy, exec_closestdy, exec_lock, exec_unlock,
     exec_other, exec_kill

\* The invariant of the open files holds in the initial state ...
LEMMA InitPool == Init => PoolInv
<1> SUFFICES ASSUME Init PROVE PoolInv
  OBVIOUS
<1>1. \A d \in Dict : Holders(d) = {}
  BY DEF Init, Holders
<1>2. \A s \in Stdy : {c \in Fd : stdy[c] = s} = {}
  BY FileAssumption DEF Init
<1>3. RefcntCoversHolders
  <2>1. \A d \in Dict : Cardinality(Holders(d)) = 0
    BY <1>1, FS_EmptySet
  <2>2. \A d \in Dict : refcnt[d] = One(d \in PreLoaded) + One(d \in PreOpened)
    BY DEF Init, InitialRefcnt
  <2> QED
    BY <2>1, <2>2 DEF RefcntCoversHolders, One
<1>4. StdyRefcntExact
  BY <1>2, FS_EmptySet DEF StdyRefcntExact, Init
<1> QED
  BY <1>3, <1>4, InitType DEF PoolInv, Init, NoStaleLock

\* ... and every step keeps it.
LEMMA NextPool == PoolInv /\ [Next]_vars => PoolInv'
<1> SUFFICES ASSUME PoolInv, [Next]_vars PROVE PoolInv'
  OBVIOUS
<1>0. TypeInv' /\ TypeOK
  BY NextType DEF PoolInv, TypeInv
<1>1. CASE \E c \in Fd : Execute(c)
  BY <1>1, ExecutePool
<1>2. ASSUME NEW c \in Fd, ReadFail(c) \/ FlushFail(c)
      PROVE  PoolInv'
  <2>1. disconnect_client(c) /\ pc # "exit"
    BY <1>2 DEF ReadFail, FlushFail
  <2> QED
    BY <1>0, <2>1, ReleasePool DEF disconnect_client, TypeOK
<1>3. CASE terminate_handler
  BY <1>0, <1>3, TerminatePool DEF terminate_handler
<1>4. ASSUME UNCHANGED <<session, files>>, pc = "exit" => pc' = "exit", pc' = "exit" => pc = "exit",
             \A k \in Fd : peer[k] # "none" => peer'[k] # "none"
      PROVE  PoolInv'
  BY <1>0, <1>4 DEF session, files, PoolInv, RefcntCoversHolders, StdyRefcntExact, NoStaleLock,
                    Holders, Connected, TypeOK
<1>5. CASE select \/ SkipClient \/ EndWalk \/ Refuse \/ NoConnection
  BY <1>4, <1>5 DEF select, SkipClient, EndWalk, Refuse, NoConnection, env
<1>6. ASSUME NEW c \in Fd, Accept(c) \/ FlushReply(c)
      PROVE  PoolInv'
  BY <1>0, <1>4, <1>6 DEF Accept, FlushReply, TypeOK
<1>7. CASE PeerConnect
  BY <1>4, <1>7 DEF PeerConnect, loop
<1>8. ASSUME NEW c \in Fd, PeerSend(c) \/ PeerFinish(c) \/ PeerClose(c)
      PROVE  PoolInv'
  BY <1>0, <1>4, <1>8 DEF PeerSend, PeerFinish, PeerClose, loop, TypeOK
<1>9. CASE UNCHANGED vars
  BY <1>4, <1>9 DEF vars, loop, env
<1> QED
  BY <1>1, <1>2, <1>3, <1>5, <1>6, <1>7, <1>8, <1>9 DEF Next, Communicate, Peers, Exited

\* closedict never frees a dictionary that some session, or the server's own
\* list, still points to, and a study file is freed exactly when its last user
\* is gone.
THEOREM PoolSafe == Spec => [](RefcntCoversHolders /\ StdyRefcntExact)
<1>1. PoolInv => RefcntCoversHolders /\ StdyRefcntExact
  BY DEF PoolInv
<1> QED
  BY <1>1, InitPool, NextPool, PTL DEF Spec

\* No lock outlives the session that took it, and every lock is one that
\* exec_unlock takes off again.
THEOREM LocksEnd == Spec => []NoStaleLock
<1>1. PoolInv => NoStaleLock
  BY DEF PoolInv
<1> QED
  BY <1>1, InitPool, NextPool, PTL DEF Spec

----------------------------------------------------------------------------
(* What the lock promises its holder *)

\* The lock of a client is on every dictionary it has open that can change.
LockCoversList ==
    \A c \in Fd : wlock[c] = c => \A d \in dictlist[c] \ ReadOnly : c \in lock[d]

LockInv == PoolInv /\ LockCoversList

\* A dictionary whose reference count is 0 is in nobody's list.
LEMMA FreeHasNoHolder ==
    ASSUME PoolInv, pc # "exit", NEW d \in Dict, refcnt[d] = 0, NEW c \in Fd
    PROVE  d \notin dictlist[c]
<1>1. Holders(d) \in SUBSET Fd /\ Cardinality(Holders(d)) \in Nat
  BY ClientSetFinite DEF Holders
<1>2. Cardinality(Holders(d)) = 0
  BY <1>1 DEF PoolInv, RefcntCoversHolders, One
<1>3. Holders(d) = {}
  BY <1>1, <1>2, ClientSetFinite
<1> QED
  BY <1>3 DEF Holders

\* Requests keep the lock on everything the holder has open, provided the
\* dictionaries that are opened for every session are read-only.
LEMMA ExecuteLock ==
    ASSUME PreOpened \subseteq ReadOnly, LockInv, NEW c \in Fd, Execute(c)
    PROVE  LockCoversList'
<1>0. TypeOK
  BY DEF LockInv, PoolInv, TypeInv
<1> USE <1>0 DEF LockInv, LockCoversList
<1>1. CASE exec_connect(c)
  BY <1>1, FdAssumption DEF exec_connect, files, NOTLOCKED, TypeOK
<1>2. CASE exec_disconnect(c)
  BY <1>2, FdAssumption DEF exec_disconnect, FreeWorkarea, unlock_dict, NOTLOCKED, TypeOK
<1>3. ASSUME NEW d \in Dict, exec_opendict(c, d)
      PROVE  LockCoversList'
  <2>1. Inherited(c) \subseteq ReadOnly /\ pc # "exit" /\ wlock' = wlock
    BY <1>3 DEF Inherited, exec_opendict, Serving
  <2>2. \A k \in Fd : dictlist'[k] = IF k = c THEN dictlist[c] \cup Inherited(c) \cup {d} ELSE dictlist[k]
    BY <1>3 DEF exec_opendict, TypeOK
  <2>3. \A x \in Dict \ {d} : lock'[x] = lock[x]
    BY <1>3 DEF exec_opendict, lock_dict, TypeOK
  <2>4. d \notin ReadOnly /\ wlock[c] = c => c \in lock'[d]
    BY <1>3 DEF exec_opendict, lock_dict, TypeOK
  <2>5. refcnt[d] # 0 => lock[d] \subseteq lock'[d]
    BY <1>3 DEF exec_opendict, lock_dict, TypeOK
  <2>6. refcnt[d] = 0 => \A k \in Fd : d \notin dictlist[k]
    BY <2>1, FreeHasNoHolder
  <2> SUFFICES ASSUME NEW k \in Fd, wlock[k] = k, NEW x \in dictlist'[k] \ ReadOnly
               PROVE  k \in lock'[x]
    BY <2>1
  <2>7. x \in Dict
    <3>1. dictlist[c] \subseteq Dict /\ dictlist[k] \subseteq Dict
      BY DEF TypeOK
    <3>2. Inherited(c) \subseteq Dict
      BY FileAssumption DEF Inherited
    <3> HIDE <1>0
    <3> QED
      BY <2>2, <3>1, <3>2
  <2>8. CASE x # d
    BY <2>1, <2>2, <2>3, <2>7, <2>8
  <2>9. CASE x = d /\ k = c
    BY <2>4, <2>9
  <2>10. CASE x = d /\ k # c
    BY <2>2, <2>5, <2>6, <2>10
  <2> QED
    BY <2>8, <2>9, <2>10
<1>4. ASSUME NEW d \in Dict, exec_opendict_nomem(c, d)
      PROVE  LockCoversList'
  BY <1>4 DEF exec_opendict_nomem, Inherited, TypeOK
<1>5. ASSUME NEW d \in Dict, exec_closedict(c, d)
      PROVE  LockCoversList'
  BY <1>5 DEF exec_closedict, unlock_dict, TypeOK
<1>6. CASE exec_other(c) \/ \E d \in Dict : exec_editdict(c, d)
  BY <1>6 DEF exec_other, exec_editdict, session, files
<1>7. CASE exec_closestdy(c) \/ \E s \in Stdy : exec_openstdy(c, s)
  BY <1>7 DEF exec_closestdy, exec_openstdy
<1>8. CASE exec_lock(c)
  BY <1>8 DEF exec_lock, lock_dict, TypeOK
<1>9. CASE exec_unlock(c)
  BY <1>9, FdAssumption DEF exec_unlock, unlock_dict, NOTLOCKED, TypeOK
<1>10. CASE exec_kill(c)
  <2>1. CASE disconnect_client(c)
    BY <2>1, FdAssumption DEF disconnect_client, FreeWorkarea, unlock_dict, NOTLOCKED, TypeOK
  <2>2. CASE server_terminate
    BY <2>2 DEF server_terminate
  <2> QED
    BY <1>10, <2>1, <2>2 DEF exec_kill
<1> QED
  BY <1>1, <1>2, <1>3, <1>4, <1>5, <1>6, <1>7, <1>8, <1>9, <1>10 DEF Execute

\* The initial state and every step keep the invariant of the lock.
LEMMA NextLock ==
    ASSUME PreOpened \subseteq ReadOnly
    PROVE  /\ Init => LockInv
           /\ LockInv /\ [Next]_vars => LockInv'
<1>1. Init => LockInv
  BY InitPool DEF LockInv, LockCoversList, Init
<1>2. ASSUME LockInv, [Next]_vars PROVE LockInv'
  <2>0. PoolInv' /\ TypeOK
    BY <1>2, NextPool DEF LockInv, PoolInv, TypeInv
  <2>1. CASE \E c \in Fd : Execute(c)
    BY <1>2, <2>0, <2>1, ExecuteLock DEF LockInv
  <2>2. ASSUME NEW c \in Fd, ReadFail(c) \/ FlushFail(c)
        PROVE  LockInv'
    <3>1. disconnect_client(c)
      BY <2>2 DEF ReadFail, FlushFail
    <3>2. LockCoversList
      BY <1>2 DEF LockInv
    <3>3. LockCoversList'
      BY <2>0, <3>1, <3>2, FdAssumption
         DEF LockCoversList, disconnect_client, FreeWorkarea, unlock_dict, NOTLOCKED, TypeOK
    <3> QED
      BY <2>0, <3>3 DEF LockInv
  <2>3. CASE terminate_handler
    BY <2>0, <2>3 DEF terminate_handler, server_terminate, LockInv, LockCoversList
  <2>4. CASE UNCHANGED <<session, files>>
    BY <1>2, <2>0, <2>4 DEF session, files, LockInv, LockCoversList
  <2> QED
    BY <1>2, <2>1, <2>2, <2>3, <2>4
       DEF Next, Communicate, Peers, Exited, select, SkipClient, EndWalk, Refuse, NoConnection,
           Accept, FlushReply, PeerConnect, PeerSend, PeerFinish, PeerClose, vars
<1> QED
  BY <1>1, <1>2

\* While a client holds the lock, the dictionaries it has open do not change
\* and its study IDs stay valid, in every configuration whose pre-opened
\* dictionaries are read-only.  (With a pre-opened dictionary that can be
\* written to this is false.)
THEOREM LockProtects ==
    ASSUME PreOpened \subseteq ReadOnly
    PROVE  Spec => LockedDictionaryUnchanged
<1> DEFINE Edits == \A d \in Dict : content'[d] # content[d] =>
                        \A c \in Fd : ~(wlock[c] = c /\ d \in dictlist[c])
<1>1. LockInv /\ [Next]_vars => [Edits]_vars
  <2> SUFFICES ASSUME LockInv, [Next]_vars, NEW d \in Dict, content'[d] # content[d],
                      NEW c \in Fd, wlock[c] = c, d \in dictlist[c]
               PROVE  FALSE
    OBVIOUS
  <2>1. PICK k \in Fd, e \in Dict : exec_editdict(k, e)
    BY DEF Next, Execute, Communicate, Peers, Exited, exec_connect, exec_disconnect,
       exec_opendict, exec_opendict_nomem, exec_closedict, exec_openstdy, exec_closestdy,
       exec_lock, exec_unlock, exec_other, exec_kill, disconnect_client, server_terminate,
       terminate_handler, select, SkipClient, EndWalk, Refuse, NoConnection, Accept, ReadFail,
       FlushReply, FlushFail, PeerConnect, PeerSend, PeerFinish, PeerClose, vars, files
  <2>2. e = d
    BY <2>1 DEF exec_editdict, LockInv, PoolInv, TypeInv, TypeOK
  <2> QED
    BY <2>1, <2>2 DEF exec_editdict, is_dict_locked, LockInv, LockCoversList
<1>2. Spec => [][Edits]_vars
  BY <1>1, NextLock, PTL DEF Spec
<1> QED
  BY <1>2 DEF LockedDictionaryUnchanged

----------------------------------------------------------------------------
(* The select loop.  The inductive invariant, in parts: the list of clients, *)
(* what belongs to a descriptor that is not connected, the descriptors      *)
(* select() watches, and what is left of the walk over the list: the list,  *)
(* its counter and the descriptor set agree, and only input is read.        *)

Cells(s) == {s[i] : i \in 1 .. Len(s)}
Distinct(s) == \A i, j \in 1 .. Len(s) : s[i] = s[j] => i = j

\* Every connection has exactly one cell and the counter counts them.
ListOK ==
    /\ client_num = Len(client) /\ client_num <= MaxClient
    /\ Cells(client) = Connected
    /\ Distinct(client)

\* A descriptor that is not connected owns nothing.
OwnerOK == \A c \in Fd \ Connected : c \notin work /\ stdy[c] = NoStdy

\* select() watches every connection and the listening socket, up to the
\* highest of them.
WatchOK ==
    pc # "exit" => /\ fds_org = Connected \cup {ListenFd}
                   /\ \A f \in fds_org : f < maxfds
                   /\ maxfds - 1 \in fds_org

\* The first client the walk has not dealt with: in a flush the one at the
\* cursor has been read.
Ahead == IF pc = "flush" THEN cur + 1 ELSE cur

\* The clients ahead of the walk that select() reported have sent something.
WalkOK ==
    pc \in {"walk", "flush"} =>
        \A i \in Ahead .. Len(client) :
            client[i] \in readfds => peer[client[i]] # "idle"

LoopInv == TypeInv /\ ListOK /\ OwnerOK /\ WatchOK /\ WalkOK

----------------------------------------------------------------------------
(* The client list *)

\* Taking the i-th client off the list takes off that client and no other.
LEMMA UnlinkCells ==
    ASSUME NEW s \in Seq(Fd), Distinct(s), NEW i \in 1 .. Len(s)
    PROVE  /\ Cells(Unlink(s, i)) = Cells(s) \ {s[i]}
           /\ Distinct(Unlink(s, i))
<1> DEFINE u == Unlink(s, i)
           m == Len(s) - 1
<1>1. /\ u \in Seq(Fd) /\ Len(u) = m
      /\ \A j \in 1 .. m : u[j] = IF j < i THEN s[j] ELSE s[j + 1]
  BY UnlinkType
<1>2. Len(s) \in Nat /\ m \in Nat
  OBVIOUS
<1> HIDE DEF u
<1>3. Distinct(u)
  BY <1>1, <1>2 DEF Distinct
<1>4. Cells(u) \subseteq Cells(s) \ {s[i]}
  <2> SUFFICES ASSUME NEW j \in 1 .. m PROVE u[j] \in Cells(s) \ {s[i]}
    BY <1>1 DEF Cells
  <2>1. CASE j < i
    BY <1>1, <1>2, <2>1 DEF Cells, Distinct
  <2>2. CASE ~(j < i)
    <3>1. j + 1 \in 1 .. Len(s) /\ j + 1 # i /\ u[j] = s[j + 1]
      BY <1>1, <1>2, <2>2
    <3> QED
      BY <3>1 DEF Cells, Distinct
  <2> QED
    BY <2>1, <2>2
<1>5. Cells(s) \ {s[i]} \subseteq Cells(u)
  <2> SUFFICES ASSUME NEW j \in 1 .. Len(s), s[j] # s[i] PROVE s[j] \in Cells(u)
    BY DEF Cells
  <2>1. CASE j < i
    <3>1. j \in 1 .. m /\ u[j] = s[j]
      BY <1>1, <1>2, <2>1
    <3> QED
      BY <1>1, <3>1 DEF Cells
  <2>2. CASE ~(j < i)
    <3>1. j # i
      OBVIOUS
    <3>2. j - 1 \in 1 .. m /\ u[j - 1] = s[j]
      BY <1>1, <1>2, <2>2, <3>1
    <3> QED
      BY <1>1, <3>2 DEF Cells
  <2> QED
    BY <2>1, <2>2
<1> QED
  BY <1>3, <1>4, <1>5 DEF u

\* A new client is put in front of the list.
LEMMA PutInFront ==
    ASSUME NEW s \in Seq(Fd), Distinct(s), NEW c \in Fd \ Cells(s)
    PROVE  /\ Cells(<<c>> \o s) = Cells(s) \cup {c}
           /\ Distinct(<<c>> \o s)
           /\ Len(<<c>> \o s) = Len(s) + 1
<1> DEFINE t == <<c>> \o s
<1>1. /\ Len(s) \in Nat /\ Len(t) = Len(s) + 1
      /\ \A j \in 1 .. Len(t) : t[j] = IF j = 1 THEN c ELSE s[j - 1]
  OBVIOUS
<1> HIDE DEF t
<1>2. \A j \in 1 .. Len(s) : s[j] # c /\ j + 1 \in 1 .. Len(t) /\ t[j + 1] = s[j]
  BY <1>1 DEF Cells
<1>3. Cells(t) \subseteq Cells(s) \cup {c}
  <2> SUFFICES ASSUME NEW j \in 1 .. Len(t) PROVE t[j] \in Cells(s) \cup {c}
    BY DEF Cells
  <2>1. j # 1 => j - 1 \in 1 .. Len(s)
    BY <1>1
  <2> QED
    BY <1>1, <2>1 DEF Cells
<1>4. Cells(s) \cup {c} \subseteq Cells(t)
  <2>1. 1 \in 1 .. Len(t) /\ t[1] = c
    BY <1>1
  <2> QED
    BY <1>2, <2>1 DEF Cells
<1>5. Distinct(t)
  <2> SUFFICES ASSUME NEW j \in 1 .. Len(t), NEW k \in 1 .. Len(t), t[j] = t[k] PROVE j = k
    BY DEF Distinct
  <2>1. j # 1 => j - 1 \in 1 .. Len(s) /\ s[j - 1] # c
    BY <1>1, <1>2
  <2>2. k # 1 => k - 1 \in 1 .. Len(s) /\ s[k - 1] # c
    BY <1>1, <1>2
  <2> QED
    BY <1>1, <2>1, <2>2 DEF Distinct
<1> QED
  BY <1>1, <1>3, <1>4, <1>5 DEF t

----------------------------------------------------------------------------
(* Steps *)

\* A client that is disconnected at the cursor leaves the tables in order, and
\* its successor takes its place in the walk.
LEMMA DisconnectLoop ==
    ASSUME LoopInv, NEW c \in Fd, pc \in {"walk", "flush"}, cur <= Len(client),
           c = client[cur], disconnect_client(c), TypeInv'
    PROVE  LoopInv'
<1>0. /\ TypeOK /\ cur \in 1 .. Len(client) /\ Len(client) \in Nat
      /\ client \in Seq(Fd) /\ Distinct(client) /\ Cells(client) = Connected
  BY DEF LoopInv, TypeInv, TypeOK, ListOK
<1>1. /\ client' = Unlink(client, cur) /\ Len(client') = Len(client) - 1
      /\ \A j \in 1 .. Len(client) - 1 : client'[j] = IF j < cur THEN client[j] ELSE client[j + 1]
  BY <1>0, UnlinkType DEF disconnect_client
<1>2. Cells(client') = Cells(client) \ {c} /\ Distinct(client')
  BY <1>0, <1>1, UnlinkCells
<1>3. /\ peer' = [peer EXCEPT ![c] = "none"] /\ Connected' = Connected \ {c} /\ c \in Connected
  <2>1. c \in Cells(client)
    BY <1>0 DEF Cells
  <2> QED
    BY <1>0, <2>1 DEF disconnect_client, Connected, TypeOK
<1>4. ListOK'
  BY <1>0, <1>1, <1>2, <1>3, BoundAssumption DEF ListOK, LoopInv, disconnect_client
<1>5. OwnerOK'
  BY <1>0, <1>3 DEF OwnerOK, LoopInv, disconnect_client, FreeWorkarea, DropStdy, TypeOK
<1>6. WatchOK'
  <2>1. /\ fds_org = Connected \cup {ListenFd} /\ maxfds - 1 \in fds_org
        /\ \A f \in fds_org : f < maxfds
    BY DEF LoopInv, WatchOK
  <2>2. c \in Nat /\ c # ListenFd /\ fds_org \subseteq Nat /\ maxfds \in Nat
    BY <1>0, FdAssumption DEF TypeOK
  <2>3. fds_org' = fds_org \ {c} /\ maxfds' = clr_fd(c)
    BY DEF disconnect_client
  <2>4. fds_org \ {c} # {} /\ fds_org \ {c} = (Connected \ {c}) \cup {ListenFd}
    BY <2>1, <2>2
  <2>5. (\A f \in fds_org \ {c} : f < clr_fd(c)) /\ clr_fd(c) - 1 \in fds_org \ {c}
    BY <2>1, <2>2, <2>4, ClrFd
  <2> QED
    BY <1>3, <2>3, <2>4, <2>5 DEF WatchOK
<1>7. WalkOK'
  <2>1. pc' = "walk" /\ cur' = cur /\ readfds' = readfds
    BY DEF disconnect_client
  <2> SUFFICES ASSUME NEW i \in cur .. Len(client'), client'[i] \in readfds
               PROVE  peer'[client'[i]] # "idle"
    BY <2>1 DEF WalkOK, Ahead
  <2>2. i + 1 \in Ahead .. Len(client) /\ client'[i] = client[i + 1]
    BY <1>0, <1>1 DEF Ahead
  <2>3. client[i + 1] \in Fd /\ peer[client[i + 1]] # "idle"
    BY <1>0, <2>2 DEF LoopInv, WalkOK, Ahead
  <2> QED
    BY <1>0, <1>3, <2>2, <2>3 DEF TypeOK
<1> QED
  BY <1>4, <1>5, <1>6, <1>7 DEF LoopInv

\* server_terminate leaves empty tables.
LEMMA TerminateLoop ==
    ASSUME LoopInv, server_terminate, TypeInv'
    PROVE  LoopInv'
<1>1. client' = <<>> /\ Len(client') = 0 /\ client_num' = 0 /\ Connected' = {} /\ pc' = "exit"
  BY DEF server_terminate, Connected
<1>2. Cells(client') = {} /\ Distinct(client')
  BY <1>1 DEF Cells, Distinct
<1>3. ListOK'
  BY <1>1, <1>2, BoundAssumption DEF ListOK
<1>4. OwnerOK'
  BY DEF OwnerOK, server_terminate
<1> QED
  BY <1>1, <1>3, <1>4 DEF LoopInv, WatchOK, WalkOK

\* A handler that leaves the list and the descriptors alone, and whose client
\* is connected.
LEMMA ReplyLoop ==
    ASSUME LoopInv, NEW c \in Fd, Serving(c), Reply, TypeInv',
           \A k \in Fd \ {c} : (k \in work' => k \in work) /\ (stdy'[k] = stdy[k])
    PROVE  LoopInv'
<1>0. TypeOK
  BY DEF LoopInv, TypeInv
<1>1. UNCHANGED <<client, client_num, fds_org, maxfds, peer, readfds, cur>> /\ pc' = "flush"
  BY DEF Reply, table, env
<1>2. pc = "walk" /\ c \in Connected /\ Connected' = Connected
  BY <1>1 DEF Serving, Connected
<1>3. ListOK' /\ WatchOK'
  BY <1>1, <1>2 DEF LoopInv, ListOK, WatchOK, Cells, Distinct
<1>4. OwnerOK'
  BY <1>2 DEF LoopInv, OwnerOK
<1>5. WalkOK'
  BY <1>0, <1>1, <1>2 DEF LoopInv, WalkOK, Ahead, TypeOK
<1> QED
  BY <1>3, <1>4, <1>5 DEF LoopInv

\* Every request keeps the tables in order.
LEMMA ExecuteLoop ==
    ASSUME LoopInv, NEW c \in Fd, Execute(c)
    PROVE  LoopInv'
<1>0. TypeInv' /\ TypeOK
  BY ExecuteType DEF LoopInv, TypeInv
<1>1. CASE exec_kill(c)
  <2>1. pc = "walk" /\ cur <= Len(client) /\ c = client[cur]
    BY <1>1 DEF exec_kill, Serving, cur_client
  <2> QED
    BY <1>0, <1>1, <2>1, DisconnectLoop, TerminateLoop DEF exec_kill
<1>2. CASE ~exec_kill(c)
  <2>1. Serving(c) /\ Reply
    BY <1>2 DEF Execute, exec_connect, exec_disconnect, exec_opendict, exec_opendict_nomem,
       exec_closedict, exec_editdict, exec_openstdy, exec_closestdy, exec_lock, exec_unlock,
       exec_other
  <2>2. CASE UNCHANGED <<work, stdy>>
    BY <1>0, <2>1, <2>2, ReplyLoop
  <2>3. CASE exec_connect(c) \/ exec_disconnect(c) \/ exec_closestdy(c)
              \/ \E s \in Stdy : exec_openstdy(c, s)
    <3>1. \A k \in Fd \ {c} : (k \in work' => k \in work) /\ (stdy'[k] = stdy[k])
      BY <1>0, <2>3 DEF exec_connect, exec_disconnect, exec_closestdy, exec_openstdy, DropStdy,
                        FreeWorkarea, TypeOK
    <3> QED
      BY <1>0, <2>1, <3>1, ReplyLoop
  <2> QED
    BY <1>2, <2>2, <2>3 DEF Execute, exec_opendict, exec_opendict_nomem, exec_closedict,
       exec_editdict, exec_lock, exec_unlock, exec_other, session
<1> QED
  BY <1>1, <1>2

\* Every step of the loop itself keeps the tables in order.
LEMMA CommunicateLoop ==
    ASSUME LoopInv, Communicate
    PROVE  LoopInv'
<1>0. TypeInv' /\ TypeOK /\ client \in Seq(Fd) /\ Len(client) \in Nat /\ cur \in Nat \ {0}
  BY CommunicateType DEF LoopInv, TypeInv, TypeOK
<1>1. CASE select
  <2>1. UNCHANGED <<client, client_num, fds_org, maxfds, work, stdy, peer>> /\ Connected' = Connected
    BY <1>1 DEF select, table, session, env, Connected
  <2>2. ListOK' /\ OwnerOK' /\ WatchOK'
    BY <1>1, <2>1 DEF LoopInv, ListOK, OwnerOK, WatchOK, Cells, Distinct, select
  <2>3. WalkOK'
    <3>1. readfds' = Ready /\ pc' = "walk" /\ cur' = 1
      BY <1>1 DEF select
    <3>2. \A i \in 1 .. Len(client) : client[i] # ListenFd
      BY <1>0, FdAssumption
    <3> QED
      BY <2>1, <3>1, <3>2 DEF WalkOK, Ahead, Ready
  <2> QED
    BY <1>0, <2>2, <2>3 DEF LoopInv
<1>2. CASE SkipClient
  <2>1. UNCHANGED <<client, client_num, fds_org, maxfds, work, stdy, peer, pc, readfds>>
    BY <1>2 DEF SkipClient, table, session, env
  <2>2. Connected' = Connected
    BY <2>1 DEF Connected
  <2> QED
    BY <1>0, <1>2, <2>1, <2>2 DEF LoopInv, ListOK, OwnerOK, WatchOK, WalkOK, Ahead, Cells, Distinct,
                                  SkipClient
<1>3. CASE EndWalk \/ Refuse \/ NoConnection
  <2>1. UNCHANGED <<client, client_num, fds_org, maxfds, work, stdy, peer>>
    BY <1>3 DEF EndWalk, Refuse, NoConnection, table, session, env
  <2>2. Connected' = Connected /\ pc # "exit" /\ pc' \in {"connect", "select"}
    BY <1>3, <2>1 DEF Connected, EndWalk, Refuse, NoConnection
  <2> QED
    BY <1>0, <2>1, <2>2 DEF LoopInv, ListOK, OwnerOK, WatchOK, WalkOK, Cells, Distinct
<1>4. ASSUME NEW c \in Fd, Accept(c)
      PROVE  LoopInv'
  <2>1. c \notin Connected /\ Connected' = Connected \cup {c} /\ pc = "connect" /\ pc' = "select"
    BY <1>0, <1>4 DEF Accept, Connected, TypeOK
  <2>2. /\ Cells(client') = Cells(client) \cup {c} /\ Distinct(client')
        /\ Len(client') = Len(client) + 1
    BY <1>0, <1>4, <2>1, PutInFront DEF LoopInv, ListOK, Accept
  <2>3. ListOK'
    BY <1>0, <1>4, <2>1, <2>2, BoundAssumption DEF LoopInv, ListOK, Accept
  <2>4. OwnerOK'
    BY <1>4, <2>1 DEF LoopInv, OwnerOK, Accept, session
  <2>5. WatchOK'
    <3>1. /\ fds_org = Connected \cup {ListenFd} /\ maxfds - 1 \in fds_org
          /\ \A f \in fds_org : f < maxfds
      BY <2>1 DEF LoopInv, WatchOK
    <3>2. c \in Nat /\ fds_org \subseteq Nat /\ maxfds \in Nat
      BY <1>0, FdAssumption DEF TypeOK
    <3>3. fds_org' = fds_org \cup {c} /\ maxfds' = IF c >= maxfds THEN c + 1 ELSE maxfds
      BY <1>4 DEF Accept, set_fd
    <3>4. maxfds' - 1 \in fds_org' /\ \A f \in fds_org' : f < maxfds'
      BY <3>1, <3>2, <3>3
    <3> QED
      BY <2>1, <3>1, <3>3, <3>4 DEF WatchOK
  <2> QED
    BY <1>0, <2>1, <2>3, <2>4, <2>5 DEF LoopInv, WalkOK
<1>5. ASSUME NEW c \in Fd, ReadFail(c) \/ FlushFail(c)
      PROVE  LoopInv'
  <2>1. pc \in {"walk", "flush"} /\ cur <= Len(client) /\ c = client[cur] /\ disconnect_client(c)
    BY <1>5 DEF ReadFail, FlushFail, cur_client, LoopInv, TypeInv
  <2> QED
    BY <1>0, <2>1, DisconnectLoop
<1>6. ASSUME NEW c \in Fd, FlushReply(c)
      PROVE  LoopInv'
  <2>1. UNCHANGED <<client, client_num, fds_org, maxfds, work, stdy, readfds>>
    BY <1>6 DEF FlushReply, table, session
  <2>2. /\ pc = "flush" /\ pc' = "walk" /\ cur' = cur + 1 /\ cur \in 1 .. Len(client)
        /\ c = client[cur] /\ peer[c] # "none" /\ peer' = [peer EXCEPT ![c] = "idle"]
    BY <1>0, <1>6 DEF FlushReply, cur_client, LoopInv, TypeInv
  <2>3. Connected' = Connected
    BY <1>0, <2>2 DEF Connected, TypeOK
  <2>4. ListOK' /\ OwnerOK' /\ WatchOK'
    BY <2>1, <2>2, <2>3 DEF LoopInv, ListOK, OwnerOK, WatchOK, Cells, Distinct
  <2>5. WalkOK'
    <3> SUFFICES ASSUME NEW i \in cur + 1 .. Len(client), client[i] \in readfds
                 PROVE  peer'[client[i]] # "idle"
      BY <2>1, <2>2 DEF WalkOK, Ahead
    <3>1. client[i] # c /\ client[i] \in Fd
      BY <1>0, <2>2 DEF LoopInv, ListOK, Distinct
    <3>2. peer[client[i]] # "idle"
      BY <2>2 DEF LoopInv, WalkOK, Ahead
    <3> QED
      BY <1>0, <2>2, <3>1, <3>2 DEF TypeOK
  <2> QED
    BY <1>0, <2>4, <2>5 DEF LoopInv
<1> QED
  BY <1>1, <1>2, <1>3, <1>4, <1>5, <1>6 DEF Communicate

\* Every step keeps the tables in order.
LEMMA NextLoop == LoopInv /\ [Next]_vars => LoopInv'
<1> SUFFICES ASSUME LoopInv, [Next]_vars PROVE LoopInv'
  OBVIOUS
<1>0. TypeInv' /\ TypeOK
  BY NextType DEF LoopInv, TypeInv
<1>1. CASE \E c \in Fd : Execute(c)
  BY <1>1, ExecuteLoop
<1>2. CASE Communicate
  BY <1>2, CommunicateLoop
<1>3. CASE terminate_handler
  BY <1>0, <1>3, TerminateLoop DEF terminate_handler
<1>4. CASE Peers \/ UNCHANGED vars
  <2> DEFINE Kept == UNCHANGED <<client, client_num, fds_org, maxfds, work, stdy, pc, cur, readfds>>
             More == \A k \in Fd : /\ peer'[k] = "none" <=> peer[k] = "none"
                                   /\ peer'[k] = "idle" => peer[k] = "idle"
  <2>a. ASSUME PeerConnect \/ UNCHANGED vars PROVE Kept /\ More
    BY <2>a DEF PeerConnect, loop, table, session, vars, env
  <2>b. ASSUME NEW c \in Fd, PeerSend(c) \/ PeerFinish(c) \/ PeerClose(c)
        PROVE  Kept /\ More
    <3>1. Kept
      BY <2>b DEF PeerSend, PeerFinish, PeerClose, loop, table, session
    <3>2. More
      BY <1>0, <2>b DEF PeerSend, PeerFinish, PeerClose, TypeOK
    <3> QED
      BY <3>1, <3>2
  <2>1. Kept
    BY <1>4, <2>a, <2>b DEF Peers
  <2>2. More
    BY <1>4, <2>a, <2>b DEF Peers
  <2>3. Connected' = Connected
    BY <2>2 DEF Connected
  <2>4. ListOK' /\ OwnerOK' /\ WatchOK'
    BY <2>1, <2>3 DEF LoopInv, ListOK, OwnerOK, WatchOK, Cells, Distinct
  <2>5. WalkOK'
    <3>1. \A i \in 1 .. Len(client) : client[i] \in Fd
      BY <1>0 DEF TypeOK
    <3>2. Ahead' = Ahead /\ Ahead \in Nat \ {0} /\ Len(client) \in Nat
      BY <1>0, <2>1 DEF Ahead, TypeOK
    <3>3. Ahead .. Len(client) \subseteq 1 .. Len(client)
      BY <3>2
    <3> QED
      BY <2>1, <2>2, <3>1, <3>2, <3>3 DEF LoopInv, WalkOK
  <2> QED
    BY <1>0, <2>4, <2>5 DEF LoopInv
<1> QED
  BY <1>1, <1>2, <1>3, <1>4 DEF Next, Exited

\* The initial tables are in order.
LEMMA InitLoop == Init => LoopInv
<1> SUFFICES ASSUME Init PROVE LoopInv
  OBVIOUS
<1>1. client = <<>> /\ Len(client) = 0 /\ client_num = 0 /\ Connected = {} /\ pc = "select"
  BY DEF Init, Connected
<1>2. Cells(client) = {} /\ Distinct(client)
  BY <1>1 DEF Cells, Distinct
<1>3. ListOK
  BY <1>1, <1>2, BoundAssumption DEF ListOK
<1>4. OwnerOK
  BY DEF OwnerOK, Init
<1>5. WatchOK
  BY <1>1, FdAssumption DEF WatchOK, Init
<1> QED
  BY <1>1, <1>3, <1>4, <1>5, InitType DEF LoopInv, WalkOK

----------------------------------------------------------------------------

\* The client list, client_num, the work areas, the study files, fds_org and
\* maxfds agree after any number of connections, refusals, requests, deaths in
\* the middle of a walk and reuses of a descriptor, whatever the limits.
THEOREM TablesAgree == Spec => []ClientTable
<1>1. LoopInv /\ PoolInv => ClientTable
  BY DEF LoopInv, PoolInv, ListOK, OwnerOK, WatchOK, Cells, Distinct, ClientTable
<1> QED
  BY <1>1, InitLoop, NextLoop, InitPool, NextPool, PTL DEF Spec

\* communicate() reads from a client, and accepts a connection, only when there
\* is something to read or to accept, although readfds was filled before the
\* earlier clients of the walk were served, died or were replaced: no client
\* that stays silent holds up the others.
THEOREM NeverBlocksOnSilentClient == Spec => []NoBlockingRead
<1>1. LoopInv => NoBlockingRead
  BY DEF LoopInv, TypeInv, WalkOK, Ahead, NoBlockingRead
<1> QED
  BY <1>1, InitLoop, NextLoop, PTL DEF Spec
=============================================================================
