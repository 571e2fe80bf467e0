------------------------- MODULE PrivMonitorProofs -------------------------
(***************************************************************************)
(* Proofs about PrivMonitor for every buffer size and every password       *)
(* database: the server and the monitor never get out of step.             *)
(***************************************************************************)
EXTENDS PrivMonitor, SequenceTheorems, TLAPS

----------------------------------------------------------------------------
(* The inductive invariant.                                                *)
(*                                                                         *)
(* InStep speaks of the moments between two lookups.  What makes it hold   *)
(* is where the two processes can be during one: what the server has sent  *)
(* is what the monitor has read and what is under way, and the monitor     *)
(* writes an answer only when the server waits for it.                     *)

\* What the monitor writes for a name.
Answer(n) == IF n \in Known THEN <<1, n, n>> ELSE <<0>>

\* The monitor is between two commands.
AtCommand == mon \in {"check", "cmd"}

\* The request is on its way: the monitor at its command, its length, its
\* name or its answer, with the rest of what the server has sent under way.
Asking ==
    /\ toSrv = <<>>
    /\ \/ /\ srv = "len"
          /\ \/ AtCommand /\ toMon = <<PRIV_GETUGID>>
             \/ mon = "len" /\ toMon = <<>>
       \/ /\ srv = "name"
          /\ \/ AtCommand /\ toMon = <<PRIV_GETUGID, name>>
             \/ mon = "len" /\ toMon = <<name>>
             \/ mon = "name" /\ toMon = <<>>
       \/ /\ srv = "ret"
          /\ \/ AtCommand /\ toMon = <<PRIV_GETUGID, name, name>>
             \/ mon = "len" /\ toMon = <<name, name>>
             \/ mon = "name" /\ toMon = <<name>>
             \/ mon = "reply" /\ toMon = <<>> /\ username = name

\* The answer is on its way.
Answering ==
    /\ AtCommand /\ toMon = <<>>
    /\ \/ srv = "ret" /\ toSrv = Answer(name)
       \/ srv = "uid" /\ toSrv = <<name, name>> /\ name \in Known
       \/ srv = "gid" /\ toSrv = <<name>> /\ name \in Known /\ answer = name

\* Between two lookups, and before the first.
Resting ==
    /\ srv = "idle" /\ AtCommand /\ toMon = <<>> /\ toSrv = <<>>
    /\ answer # 0 => answer = name /\ name \in Known
    /\ answer = 0 => name \notin Known \/ TooLong(name)

\* The inductive invariant.  A SIGCHLD, and the QUIT it leads to, is seen only
\* when the server is dead.
Protocol ==
    srv # "dead" =>
        /\ chld = FALSE /\ cur_state = "INIT"
        /\ Resting \/ (name \in User /\ ~TooLong(name) /\ (Asking \/ Answering))

IInv == TypeOK /\ Protocol

----------------------------------------------------------------------------
(* Short sequences, as they are on the socket pair *)

\* What is left after one read.
LEMMA Tails ==
    ASSUME NEW a, NEW b, NEW c
    PROVE  /\ Tail(<<a>>) = <<>> /\ Tail(<<a, b>>) = <<b>> /\ Tail(<<a, b, c>>) = <<b, c>>
           /\ Head(<<a>>) = a /\ Head(<<a, b>>) = a /\ Head(<<a, b, c>>) = a
           /\ <<a>> # <<>> /\ <<a, b>> # <<>> /\ <<a, b, c>> # <<>>
<1> DEFINE S == {a, b, c}
           t == Tail(<<a, b, c>>)
<1>1. <<a, b, c>> \in Seq(S) /\ <<b, c>> \in Seq(S)
  OBVIOUS
<1>2. t \in Seq(S) /\ Len(t) = 2 /\ t[1] = b /\ t[2] = c
  BY <1>1
<1>3. Len(<<b, c>>) = 2 /\ <<b, c>>[1] = b /\ <<b, c>>[2] = c
  OBVIOUS
<1>4. \A i \in 1 .. 2 : t[i] = <<b, c>>[i]
  <2> HIDE DEF t
  <2> QED BY <1>2, <1>3
<1>5. t = <<b, c>>
  <2> HIDE DEF t, S
  <2> QED BY <1>1, <1>2, <1>3, <1>4, SeqEqual
<1>6. Tail(<<a>>) = <<>> /\ Tail(<<a, b>>) = <<b>>
  OBVIOUS
<1>7. Head(<<a>>) = a /\ Head(<<a, b>>) = a /\ Head(<<a, b, c>>) = a
  OBVIOUS
<1>8. <<a>> # <<>> /\ <<a, b>> # <<>> /\ <<a, b, c>> # <<>>
  OBVIOUS
<1> QED
  BY <1>5, <1>6, <1>7, <1>8

\* What is under way after one write.
LEMMA Appends ==
    ASSUME NEW a, NEW b, NEW c
    PROVE  /\ Append(<<>>, a) = <<a>> /\ Append(<<a>>, b) = <<a, b>>
           /\ Append(<<a, b>>, c) = <<a, b, c>>
<1> DEFINE S == {a, b, c}
           t == Append(<<a>>, b)
           u == Append(<<a, b>>, c)
<1>1. <<a>> \in Seq(S) /\ <<a, b>> \in Seq(S) /\ <<a, b, c>> \in Seq(S)
  OBVIOUS
<1>2. t = <<a, b>>
  <2>1. t \in Seq(S) /\ Len(t) = 2 /\ t[1] = a /\ t[2] = b
    BY <1>1
  <2>2. Len(<<a, b>>) = 2 /\ <<a, b>>[1] = a /\ <<a, b>>[2] = b
    OBVIOUS
  <2> HIDE DEF t, S
  <2>3. \A i \in 1 .. 2 : t[i] = <<a, b>>[i]
    BY <2>1, <2>2
  <2> QED
    BY <1>1, <2>1, <2>2, <2>3, SeqEqual
<1>3. u = <<a, b, c>>
  <2>1. u \in Seq(S) /\ Len(u) = 3 /\ u[1] = a /\ u[2] = b /\ u[3] = c
    BY <1>1
  <2>2. Len(<<a, b, c>>) = 3 /\ <<a, b, c>>[1] = a /\ <<a, b, c>>[2] = b /\ <<a, b, c>>[3] = c
    OBVIOUS
  <2> HIDE DEF u, S
  <2>3. \A i \in 1 .. 3 : u[i] = <<a, b, c>>[i]
    BY <2>1, <2>2
  <2> QED
    BY <1>1, <2>1, <2>2, <2>3, SeqEqual
<1>4. Append(<<>>, a) = <<a>>
  OBVIOUS
<1> QED
  BY <1>2, <1>3, <1>4

----------------------------------------------------------------------------

\* The sizes of names are numbers.
LEMMA Sizes == Known \subseteq User /\ User \subseteq Nat \ {0, 1} /\ BUFSIZ \in Nat /\ 0 \notin Known
<1>1. BUFSIZ \in Nat
  BY BufsizAssumption
<1>2. \A x \in 2 .. BUFSIZ + 1 : x \in Nat \ {0, 1}
  BY <1>1
<1> QED
  BY <1>1, <1>2, KnownAssumption DEF User

\* The initial state satisfies the invariant.
LEMMA InitInv == Init => IInv
<1> SUFFICES ASSUME Init PROVE IInv
  OBVIOUS
<1>1. chld \in BOOLEAN
  BY DEF Init
<1>2. toMon \in Seq({PRIV_GETUGID} \cup User) /\ toSrv \in Seq({0, 1} \cup User)
  BY EmptySeq DEF Init
<1>3. Protocol
  BY Sizes DEF Init, Protocol, Resting, AtCommand
<1> QED
  BY <1>1, <1>2, <1>3 DEF Init, IInv, TypeOK

\* Every step keeps the protocol.
LEMMA NextProtocol == IInv /\ [Next]_vars => Protocol'
<1> SUFFICES ASSUME IInv, [Next]_vars PROVE Protocol'
  OBVIOUS
<1>a. /\ Append(<<>>, name) = <<name>>
      /\ Append(<<>>, PRIV_GETUGID) = <<PRIV_GETUGID>>
      /\ Append(<<name>>, name) = <<name, name>>
      /\ Append(<<PRIV_GETUGID>>, name) = <<PRIV_GETUGID, name>>
      /\ Append(<<PRIV_GETUGID, name>>, name) = <<PRIV_GETUGID, name, name>>
  BY Appends
<1>t. /\ Tail(<<name>>) = <<>> /\ Head(<<name>>) = name
      /\ Tail(<<name, name>>) = <<name>> /\ Head(<<name, name>>) = name
      /\ Tail(<<PRIV_GETUGID>>) = <<>> /\ Head(<<PRIV_GETUGID>>) = PRIV_GETUGID
      /\ Tail(<<PRIV_GETUGID, name>>) = <<name>> /\ Head(<<PRIV_GETUGID, name>>) = PRIV_GETUGID
      /\ Tail(<<PRIV_GETUGID, name, name>>) = <<name, name>>
      /\ Head(<<PRIV_GETUGID, name, name>>) = PRIV_GETUGID
      /\ Tail(<<1, name, name>>) = <<name, name>> /\ Head(<<1, name, name>>) = 1
      /\ Tail(<<0>>) = <<>> /\ Head(<<0>>) = 0
  BY Tails
<1> USE DEF Protocol, IInv, AtCommand, server, monitor
<1>b. srv \notin {"idle", "dead"} =>
         /\ chld = FALSE /\ cur_state = "INIT"
         /\ name \in User /\ ~TooLong(name) /\ (Asking \/ Answering)
  BY DEF Resting
<1>1. ASSUME NEW u \in User, priv_getugid(u) PROVE Protocol'
  <2>1. CASE TooLong(u)
    BY <1>1, <2>1 DEF priv_getugid, Resting, Asking, Answering, TooLong
  <2>2. CASE ~TooLong(u)
    <3>1. Resting /\ toMon' = <<PRIV_GETUGID>> /\ toSrv' = <<>> /\ srv' = "len" /\ name' = u
      BY <1>1, <2>2 DEF priv_getugid, Resting, Asking, Answering
    <3> QED
      BY <1>1, <2>2, <3>1, <1>a, <1>b DEF priv_getugid, Resting, Asking, TooLong
  <2> QED
    BY <2>1, <2>2
<1>2. CASE SendLen
  <2>1. Asking /\ srv = "len"
    BY <1>2, <1>a, <1>b DEF SendLen, Resting, Answering
  <2>2. CASE mon = "len"
    BY <1>2, <2>1, <2>2, <1>a, <1>b DEF SendLen, Asking, TooLong
  <2>3. CASE AtCommand
    BY <1>2, <2>1, <2>3, <1>a, <1>b DEF SendLen, Asking, TooLong
  <2> QED
    BY <2>1, <2>2, <2>3 DEF Asking
<1>3. CASE SendName
  <2>1. Asking /\ srv = "name"
    BY <1>3, <1>a, <1>b DEF SendName, Resting, Answering
  <2> QED
    BY <1>3, <2>1, <1>a, <1>b DEF SendName, Asking, TooLong
<1>4. CASE ReadRet
  <2>1. Answering /\ srv = "ret" /\ toSrv = Answer(name)
    BY <1>4, <1>b, <1>t DEF ReadRet, Resting, Asking, Answering
  <2>2. CASE name \in Known
    BY <1>4, <2>1, <2>2, <1>b, <1>t DEF ReadRet, Answering, Answer, TooLong
  <2>3. CASE name \notin Known
    BY <1>4, <2>1, <2>3, <1>b, <1>t DEF ReadRet, Answering, Answer, Resting
  <2> QED
    BY <2>2, <2>3
<1>5. CASE ReadUid
  <2>1. Answering /\ srv = "uid"
    BY <1>5, <1>b, <1>t DEF ReadUid, Resting, Asking, Answering
  <2> QED
    BY <1>5, <2>1, <1>b, <1>t DEF ReadUid, Answering, TooLong
<1>6. CASE ReadGid
  <2>1. Answering /\ srv = "gid"
    BY <1>6, <1>b, <1>t DEF ReadGid, Resting, Asking, Answering
  <2>2. name # 0 /\ name \in Known
    BY <2>1, Sizes DEF Answering
  <2> QED
    BY <1>6, <2>1, <2>2, <1>b, <1>t DEF ReadGid, Answering, Resting
<1>7. CASE Die
  BY <1>7 DEF Die
<1>8. CASE CheckState
  BY <1>8 DEF CheckState, Resting, Asking, Answering, TooLong
<1>9. CASE may_read
  <2>1. CASE srv = "dead"
    BY <1>9, <2>1, <1>b, <1>t DEF may_read
  <2>2. CASE srv # "dead"
    <3>1. Asking /\ Head(toMon) = PRIV_GETUGID
      BY <1>9, <2>2, <1>b, <1>t DEF may_read, Resting, Asking, Answering
    <3> QED
      BY <1>9, <2>2, <3>1, <1>b, <1>t DEF may_read, Asking, TooLong
  <2> QED
    BY <2>1, <2>2
<1>10. CASE ReadLen
  <2>1. CASE srv = "dead"
    BY <1>10, <2>1, <1>b, <1>t DEF ReadLen
  <2>2. CASE srv # "dead"
    <3>1. Asking /\ Head(toMon) = name /\ name \in User /\ ~(name > BUFSIZ)
      BY <1>10, <2>2, Sizes, <1>b, <1>t DEF ReadLen, Resting, Asking, Answering, TooLong
    <3> QED
      BY <1>10, <2>2, <3>1, <1>b, <1>t DEF ReadLen, Asking, TooLong
  <2> QED
    BY <2>1, <2>2
<1>11. CASE ReadName
  BY <1>11, <1>b, <1>t DEF ReadName, Resting, Asking, Answering, TooLong
<1>12. CASE must_write
  <2>1. CASE srv = "dead"
    BY <1>12, <2>1 DEF must_write
  <2>2. CASE srv # "dead"
    <3>1. Asking /\ srv = "ret" /\ toMon = <<>> /\ toSrv = <<>> /\ username = name
      BY <1>12, <2>2 DEF must_write, Resting, Asking, Answering
    <3>2. toSrv' = Answer(name)
      BY <1>12, <3>1 DEF must_write, Answer
    <3> QED
      BY <1>12, <2>2, <3>1, <3>2 DEF must_write, Answering, Answer, Resting, Asking, TooLong
  <2> QED
    BY <2>1, <2>2
<1>13. CASE sig_got_chld
  BY <1>13 DEF sig_got_chld
<1>14. CASE UNCHANGED vars
  BY <1>14 DEF vars, Resting, Asking, Answering, Answer, TooLong
<1> QED
  BY <1>1, <1>2, <1>3, <1>4, <1>5, <1>6, <1>7, <1>8, <1>9, <1>10, <1>11, <1>12, <1>13, <1>14
     DEF Next, ServerStep, MonitorStep, Halted

\* Every step keeps the types.  That the number read as the uid is one needs
\* the protocol: a result, 1, is no uid.
LEMMA NextType == IInv /\ [Next]_vars => TypeOK'
<1> SUFFICES ASSUME IInv, [Next]_vars PROVE TypeOK'
  OBVIOUS
<1> USE DEF IInv, TypeOK, server, monitor
<1>1. ASSUME NEW u \in User, priv_getugid(u) PROVE TypeOK'
  BY <1>1 DEF priv_getugid
<1>2. CASE SendLen \/ SendName
  <2>1. name \in {PRIV_GETUGID} \cup User
    BY DEF PRIV_GETUGID
  <2>2. Append(toMon, name) \in Seq({PRIV_GETUGID} \cup User)
    BY <2>1
  <2> QED
    BY <1>2, <2>2 DEF SendLen, SendName
<1>3. CASE ReadRet
  BY <1>3 DEF ReadRet
<1>4. CASE ReadUid
  <2>1. Head(toSrv) = name
    BY <1>4 DEF ReadUid, Protocol, Resting, Asking, Answering
  <2> QED
    BY <1>4, <2>1 DEF ReadUid
<1>5. CASE ReadGid
  BY <1>5 DEF ReadGid
<1>6. CASE Die \/ CheckState \/ sig_got_chld
  <2>1. chld' \in BOOLEAN
    BY <1>6 DEF Die, CheckState, sig_got_chld
  <2> QED
    BY <1>6, <2>1 DEF Die, CheckState, sig_got_chld
<1>7. CASE may_read \/ ReadLen
  <2>1. toMon # <<>> => Tail(toMon) \in Seq({PRIV_GETUGID} \cup User)
    OBVIOUS
  <2> QED
    BY <1>7, <2>1 DEF may_read, ReadLen
<1>8. CASE ReadName
  BY <1>8 DEF ReadName, PRIV_GETUGID
<1>9. CASE must_write
  <2>1. CASE username \in Known
    <3>1. <<1, username, username>> \in Seq({0, 1} \cup User)
      BY <2>1, KnownAssumption DEF User
    <3> QED
      BY <1>9, <2>1, <3>1, ConcatProperties DEF must_write
  <2>2. CASE username \notin Known
    BY <1>9, <2>2, ConcatProperties DEF must_write
  <2> QED
    BY <2>1, <2>2
<1>10. CASE UNCHANGED vars
  BY <1>10 DEF vars
<1> QED
  BY <1>1, <1>2, <1>3, <1>4, <1>5, <1>6, <1>7, <1>8, <1>9, <1>10
     DEF Next, ServerStep, MonitorStep, Halted

\* priv_getugid and the monitor's loop stay in step for every name, known,
\* unknown or too long, and for any number of lookups: nothing is left over
\* between them, every answer is the one for the name that was asked, and only
\* the death of the server makes the monitor exit.
THEOREM MonitorInStep == Spec => []InStep
<1>1. IInv => InStep
  BY DEF IInv, Protocol, InStep, Resting, Asking, Answering, AtCommand
<1>2. IInv /\ [Next]_vars => IInv'
  BY NextProtocol, NextType DEF IInv
<1> QED
  BY <1>1, <1>2, InitInv, PTL DEF Spec
=============================================================================
