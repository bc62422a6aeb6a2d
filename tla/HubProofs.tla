------------------------------- MODULE HubProofs -------------------------------
(***************************************************************************)
(* For any number of connections, goroutines and broadcasts: the map of    *)
(* connections is never changed while a Broadcast ranges over it, a        *)
(* connection the server has closed is not registered, a connection a      *)
(* broadcast failed to write to is in the hands of someone who will        *)
(* unregister it, one whose writes succeed misses nothing, and nobody      *)
(* waits for ever for a lock.                                              *)
(***************************************************************************)
EXTENDS Hub, SequenceTheorems, TLAPS

-----------------------------------------------------------------------------
(* The parts of the inductive invariant.                                   *)

\* Where the types alone are not inductive: messages still to be sent.
GreetInv == \A s \in Subs :
    hpc[s] \in {"new", "join", "joining", "hello", "greet"} => greeted[s] < Hello

\* Who changes the map holds s.mu alone; who ranges over it is a reader.
LockInv ==
    /\ \A p \in Procs : Mutating(p) => writer = p /\ readers = {}
    /\ \A p \in Procs : Ranging(p) => p \in readers

\* A connection is registered only between its Register and its Unregister.
MemberInv ==
    /\ \A s \in Subs : hpc[s] \in {"new", "join", "joining", "close", "done"} => s \notin subs
    /\ \A s \in Subs : hpc[s] \in {"join", "joining"} => conn[s] = "open"

\* What a Broadcast has still to visit is registered, because the map does not
\* change meanwhile.
RangeInv == \A p \in Procs : Ranging(p) => todo[p] \subseteq subs

\* A goroutine holds one sub.mu at a time, and only to write.
HolderInv ==
    /\ \A p \in Procs, s \in Subs : connMu[s] = p =>
          \/ hpc[p] = "write" /\ s \in todo[p]
          \/ p = s /\ hpc[p] = "greet"
    /\ \A p \in Procs, s, r \in Subs : connMu[s] = p /\ connMu[r] = p => s = r

\* Nothing can have failed on a connection that is not registered yet.
FreshInv == \A s \in Subs : hpc[s] \in {"new", "join", "joining"} => failed[s] = "no"

HubInv ==
    /\ HubTypeOK /\ GreetInv
    /\ LockInv /\ MemberInv /\ RangeInv /\ HolderInv /\ FreshInv
    /\ ClosedIsUnregistered /\ FailedAreEvicted

-----------------------------------------------------------------------------
LEMMA ConnsAreProcs == Subs \subseteq Procs /\ Nobody \notin Procs
  BY HubProcsAssumption DEF Procs

LEMMA HubTypeStep ==
    ASSUME HubInv, HubNext
    PROVE  HubTypeOK' /\ GreetInv'
<1> USE ConnsAreProcs DEF HubTypeOK, GreetInv, lockVars, wireVars, castVars, CastPCs, ConnPCs
<1>0. HubTypeOK /\ GreetInv
  BY DEF HubInv
<1>1. ASSUME NEW p \in Procs, AnnounceLock(p) PROVE HubTypeOK' /\ GreetInv'
  BY <1>0, <1>1 DEF AnnounceLock, MayLock
<1>2. ASSUME NEW p \in Procs, EnterLock(p) PROVE HubTypeOK' /\ GreetInv'
  BY <1>0, <1>2 DEF EnterLock, MayEnter
<1>3. ASSUME NEW p \in Procs, BeginCast(p) PROVE HubTypeOK' /\ GreetInv'
  BY <1>0, <1>3 DEF BeginCast
<1>4. ASSUME NEW p \in Procs, RLock(p) PROVE HubTypeOK' /\ GreetInv'
  <2>1. casts[p] + 1 \in Nat
    BY <1>0
  <2> QED BY <1>0, <1>4, <2>1 DEF RLock, MayRead
<1>5. ASSUME NEW p \in Procs, NEW s \in Subs, TakeConn(p, s) PROVE HubTypeOK' /\ GreetInv'
  BY <1>0, <1>5 DEF TakeConn, MayTake
<1>6. ASSUME NEW p \in Procs, NEW s \in Subs, WriteCast(p, s) PROVE HubTypeOK' /\ GreetInv'
  <2>1. inbox' = inbox \/ inbox' = [inbox EXCEPT ![s] = Append(@, <<p, casts[p]>>)]
    BY <1>6 DEF WriteCast, Deliver, FailCast
  <2>2. inbox' \in [Subs -> Seq(Procs \X Nat)]
    <3>1. <<p, casts[p]>> \in Procs \X Nat
      BY <1>0
    <3>2. Append(inbox[s], <<p, casts[p]>>) \in Seq(Procs \X Nat)
      BY <1>0, <3>1, AppendProperties
    <3>3. inbox \in [Subs -> Seq(Procs \X Nat)]
      BY <1>0
    <3> DEFINE S == Seq(Procs \X Nat)
               longer == Append(inbox[s], <<p, casts[p]>>)
    <3>4. inbox \in [Subs -> S] /\ longer \in S /\ (inbox' = inbox \/ inbox' = [inbox EXCEPT ![s] = longer])
      BY <2>1, <3>2, <3>3
    <3> HIDE DEF S, longer
    <3>5. inbox' \in [Subs -> S]
      BY <3>4
    <3> QED BY <3>5 DEF S
  <2>3. /\ failed' = failed \/ failed' = [failed EXCEPT ![s] = IF @ = "no" THEN "cast" ELSE @]
        /\ dead' = dead \/ dead' = [dead EXCEPT ![p] = @ \cup {s}]
        /\ todo' = [todo EXCEPT ![p] = todo[p] \ {s}]
        /\ connMu' = [connMu EXCEPT ![s] = Nobody]
        /\ hpc' = [hpc EXCEPT ![p] = "cast"]
        /\ UNCHANGED <<subs, readers, writer, conn, greeted, casts, joined>>
    BY <1>6 DEF WriteCast, Deliver, FailCast, LeftToVisit
  <2>4. HubTypeOK'
    <3>1. failed' \in [Subs -> {"no", "hello", "cast"}]
      BY <1>0, <2>3
    <3>2. dead' \in [Procs -> SUBSET Subs]
      <4>1. dead \in [Procs -> SUBSET Subs] /\ dead[p] \cup {s} \in SUBSET Subs
        BY <1>0
      <4> QED BY <2>3, <4>1
    <3>4. todo' \in [Procs -> SUBSET Subs]
      <4>1. todo \in [Procs -> SUBSET Subs] /\ todo[p] \ {s} \in SUBSET Subs
        BY <1>0
      <4> QED BY <2>3, <4>1
    <3>3. hpc' \in [Procs -> CastPCs \cup ConnPCs \cup {"idle"}]
      BY <1>0, <2>3
    <3> QED BY <1>0, <2>2, <2>3, <3>1, <3>2, <3>3, <3>4
  <2>5. GreetInv'
    BY <1>0, <2>3
  <2> QED BY <2>4, <2>5
<1>7. ASSUME NEW p \in Procs, NEW s \in Subs, EvictDead(p, s) PROVE HubTypeOK' /\ GreetInv'
  BY <1>0, <1>7 DEF EvictDead, CloseEvicted
<1>8. ASSUME NEW p \in Procs, RUnlock(p) \/ EndEvict(p) PROVE HubTypeOK' /\ GreetInv'
  BY <1>0, <1>8 DEF RUnlock, EndEvict, Home
<1>9. ASSUME NEW s \in Subs, Connect(s) \/ ReadCommand(s) \/ ReadFails(s) \/ CloseConn(s)
      PROVE  HubTypeOK' /\ GreetInv'
  <2>1. CASE Connect(s)
    BY <1>0, <2>1 DEF Connect
  <2>2. CASE ReadCommand(s)
    BY <1>0, <2>2 DEF ReadCommand
  <2>3. CASE ReadFails(s)
    BY <1>0, <2>3 DEF ReadFails
  <2>4. CASE CloseConn(s)
    BY <1>0, <2>4 DEF CloseConn
  <2> QED BY <1>9, <2>1, <2>2, <2>3, <2>4
<1>10. ASSUME NEW s \in Subs, Register(s) PROVE HubTypeOK' /\ GreetInv'
  BY <1>0, <1>10 DEF Register
<1>11. ASSUME NEW s \in Subs, TakeHello(s) PROVE HubTypeOK' /\ GreetInv'
  BY <1>0, <1>11 DEF TakeHello, MayGreet
<1>13. ASSUME NEW s \in Subs, Unregister(s) PROVE HubTypeOK' /\ GreetInv'
  BY <1>0, <1>13 DEF Unregister, SubsLeaving
<1>12. ASSUME NEW s \in Subs, WriteHello(s) PROVE HubTypeOK' /\ GreetInv'
  <2>1. /\ hpc[s] = "greet" /\ greeted' = [greeted EXCEPT ![s] = @ + 1]
        /\ hpc' = [hpc EXCEPT ![s] = IF greeted[s] + 1 = Hello THEN "read" ELSE "hello"]
        /\ failed' = failed \/ failed' = [failed EXCEPT ![s] = IF @ = "no" THEN "hello" ELSE @]
        /\ connMu' = [connMu EXCEPT ![s] = Nobody]
        /\ UNCHANGED <<subs, readers, writer, conn, inbox, todo, dead, casts, joined>>
    BY <1>12 DEF WriteHello, GreetedAll
  <2>2. greeted[s] \in Nat /\ greeted[s] < Hello /\ Hello \in Nat
    BY <1>0, <2>1, HelloAssumption
  <2>3. greeted[s] + 1 \in 0..Hello /\ (greeted[s] + 1 # Hello => greeted[s] + 1 < Hello)
    BY <2>2
  <2>4. HubTypeOK'
    BY <1>0, <2>1, <2>3
  <2>5. GreetInv'
    <3> SUFFICES ASSUME NEW r \in Subs,
                        hpc'[r] \in {"new", "join", "joining", "hello", "greet"}
                 PROVE  greeted'[r] < Hello
      OBVIOUS
    <3>1. CASE r = s
      BY <1>0, <2>1, <2>3, <3>1
    <3>2. CASE r # s
      BY <1>0, <2>1, <3>2
    <3> QED BY <3>1, <3>2
  <2> QED BY <2>4, <2>5
<1> QED BY <1>1, <1>2, <1>3, <1>4, <1>5, <1>6, <1>7, <1>8, <1>9, <1>10, <1>11, <1>12, <1>13
        DEF HubNext, CastStep, ConnStep

\* The three locked sections and the ranges exclude each other.
LEMMA LockStep ==
    ASSUME HubInv, HubNext
    PROVE  LockInv'
<1> USE ConnsAreProcs DEF LockInv, Mutating, Ranging
<1>0. HubTypeOK /\ LockInv
  BY DEF HubInv
<1>1. /\ hpc \in [Procs -> CastPCs \cup ConnPCs \cup {"idle"}]
      /\ \A p \in Procs : Home(p) \notin {"joining", "evicting", "leaving", "cast", "write"}
  BY <1>0 DEF HubTypeOK, Home
<1>2. ASSUME NEW p \in Procs, AnnounceLock(p) PROVE LockInv'
  BY <1>0, <1>1, <1>2 DEF AnnounceLock, MayLock
<1>3. ASSUME NEW p \in Procs, EnterLock(p) PROVE LockInv'
  BY <1>0, <1>1, <1>3 DEF EnterLock, MayEnter, ReadersGone, lockVars
<1>4. ASSUME NEW p \in Procs, RLock(p) PROVE LockInv'
  BY <1>0, <1>1, <1>4 DEF RLock, MayRead
<1>5. ASSUME NEW p \in Procs, NEW s \in Subs, TakeConn(p, s) PROVE LockInv'
  BY <1>0, <1>1, <1>5 DEF TakeConn, MayTake, lockVars
<1>6. ASSUME NEW p \in Procs, NEW s \in Subs, WriteCast(p, s) PROVE LockInv'
  BY <1>0, <1>1, <1>6 DEF WriteCast, lockVars
<1>7. ASSUME NEW p \in Procs, NEW s \in Subs, EvictDead(p, s) PROVE LockInv'
  BY <1>0, <1>7 DEF EvictDead, lockVars
<1>8. ASSUME NEW p \in Procs, RUnlock(p) PROVE LockInv'
  BY <1>0, <1>1, <1>8 DEF RUnlock
<1>9. ASSUME NEW p \in Procs, EndEvict(p) PROVE LockInv'
  BY <1>0, <1>1, <1>9 DEF EndEvict
<1>10. ASSUME NEW s \in Subs, Register(s) \/ Unregister(s) PROVE LockInv'
  BY <1>0, <1>1, <1>10 DEF Register, Unregister
<1>11. ASSUME NEW p \in Procs,
              \/ BeginCast(p)
              \/ p \in Subs /\ (Connect(p) \/ ReadCommand(p) \/ ReadFails(p))
              \/ p \in Subs /\ (TakeHello(p) \/ WriteHello(p) \/ CloseConn(p))
       PROVE  LockInv'
  <2>1. /\ UNCHANGED <<readers, writer>>
        /\ \E label \in {"rlock", "join", "leave", "hello", "greet", "read", "done"} :
              hpc' = [hpc EXCEPT ![p] = label]
    BY <1>11 DEF BeginCast, Connect, ReadCommand, ReadFails, TakeHello, MayGreet,
       WriteHello, CloseConn, lockVars
  <2> QED BY <1>0, <1>1, <2>1
<1> QED BY <1>2, <1>3, <1>4, <1>5, <1>6, <1>7, <1>8, <1>9, <1>10, <1>11
        DEF HubNext, CastStep, ConnStep

\* Effects of the steps that concern registration: which connections can be
\* registered or closed by a step, seen from the others.
LEMMA MemberStep ==
    ASSUME HubInv, HubNext
    PROVE  MemberInv' /\ ClosedIsUnregistered'
<1> USE ConnsAreProcs DEF MemberInv, ClosedIsUnregistered
<1>0. MemberInv /\ ClosedIsUnregistered /\ hpc \in [Procs -> CastPCs \cup ConnPCs \cup {"idle"}]
      /\ conn \in [Subs -> {"none", "open", "closed"}]
      /\ \A p \in Procs : Home(p) \notin {"new", "join", "joining", "close", "done"}
  BY DEF HubInv, HubTypeOK, Home
<1>1. ASSUME NEW p \in Procs, AnnounceLock(p) PROVE MemberInv' /\ ClosedIsUnregistered'
  BY <1>0, <1>1 DEF AnnounceLock, MayLock, wireVars
<1>2. ASSUME NEW p \in Procs, EnterLock(p) PROVE MemberInv' /\ ClosedIsUnregistered'
  BY <1>0, <1>2 DEF EnterLock, MayEnter, wireVars
<1>3. ASSUME NEW p \in Procs,
             \/ BeginCast(p) \/ RLock(p) \/ RUnlock(p) \/ EndEvict(p)
             \/ \E s \in Subs : TakeConn(p, s) \/ WriteCast(p, s)
      PROVE  MemberInv' /\ ClosedIsUnregistered'
  <2>1. /\ UNCHANGED <<subs, conn>>
        /\ \E label \in {"rlock", "cast", "write", "evict", Home(p)} :
              hpc' = [hpc EXCEPT ![p] = label]
    BY <1>3 DEF BeginCast, RLock, MayRead, RUnlock, EndEvict, TakeConn, MayTake, WriteCast,
       wireVars
  <2> QED BY <1>0, <2>1
<1>4. ASSUME NEW p \in Procs, NEW s \in Subs, EvictDead(p, s)
      PROVE  MemberInv' /\ ClosedIsUnregistered'
  <2>1. /\ hpc' = hpc /\ subs' = subs \ {s}
        /\ conn' = IF s \in subs THEN [conn EXCEPT ![s] = "closed"] ELSE conn
    BY <1>4 DEF EvictDead, CloseEvicted
  <2> QED BY <1>0, <2>1
<1>5. ASSUME NEW s \in Subs, TakeHello(s) \/ WriteHello(s) \/ ReadCommand(s) \/ ReadFails(s)
      PROVE  MemberInv' /\ ClosedIsUnregistered'
  <2>1. /\ UNCHANGED <<subs, conn>>
        /\ \E label \in {"greet", "hello", "read", "rlock", "leave"} :
              hpc' = [hpc EXCEPT ![s] = label]
    BY <1>5 DEF TakeHello, MayGreet, WriteHello, ReadCommand, ReadFails, wireVars
  <2> QED BY <1>0, <2>1
<1>6. ASSUME NEW s \in Subs, Connect(s) PROVE MemberInv' /\ ClosedIsUnregistered'
  BY <1>0, <1>6 DEF Connect
<1>7. ASSUME NEW s \in Subs, Register(s) PROVE MemberInv' /\ ClosedIsUnregistered'
  BY <1>0, <1>7 DEF Register, wireVars
<1>8. ASSUME NEW s \in Subs, Unregister(s) PROVE MemberInv' /\ ClosedIsUnregistered'
  BY <1>0, <1>8 DEF Unregister, SubsLeaving, wireVars
<1>9. ASSUME NEW s \in Subs, CloseConn(s) PROVE MemberInv' /\ ClosedIsUnregistered'
  BY <1>0, <1>9 DEF CloseConn
<1> QED BY <1>1, <1>2, <1>3, <1>4, <1>5, <1>6, <1>7, <1>8, <1>9
        DEF HubNext, CastStep, ConnStep

LEMMA RangeStep ==
    ASSUME HubInv, HubNext
    PROVE  RangeInv'
<1> USE ConnsAreProcs DEF RangeInv, Ranging
<1>0. /\ RangeInv
      /\ hpc \in [Procs -> CastPCs \cup ConnPCs \cup {"idle"}]
      /\ todo \in [Procs -> SUBSET Subs]
      /\ \A p \in Procs : Home(p) \notin {"cast", "write"}
  BY DEF HubInv, HubTypeOK, Home
\* While somebody changes the map nobody ranges over it.
<1>1. \A p, q \in Procs : Mutating(p) => ~Ranging(q)
  BY DEF HubInv, LockInv
<1>2. ASSUME NEW p \in Procs, AnnounceLock(p) PROVE RangeInv'
  BY <1>0, <1>2 DEF AnnounceLock, MayLock, castVars
<1>3. ASSUME NEW p \in Procs, EnterLock(p) PROVE RangeInv'
  BY <1>0, <1>3 DEF EnterLock, MayEnter, castVars
<1>4. ASSUME NEW p \in Procs, RLock(p) PROVE RangeInv'
  BY <1>0, <1>4 DEF RLock, MayRead
<1>5. ASSUME NEW p \in Procs, NEW s \in Subs, TakeConn(p, s) \/ WriteCast(p, s)
      PROVE  RangeInv'
  <2>1. /\ Ranging(p) /\ subs' = subs
        /\ \E label \in {"cast", "write"} : hpc' = [hpc EXCEPT ![p] = label]
        /\ todo' = todo \/ todo' = [todo EXCEPT ![p] = todo[p] \ {s}]
    BY <1>5 DEF TakeConn, MayTake, WriteCast, LeftToVisit, castVars
  <2> QED BY <1>0, <2>1
<1>7. ASSUME NEW p \in Procs, BeginCast(p) \/ RUnlock(p) \/ EndEvict(p) PROVE RangeInv'
  <2>1. /\ UNCHANGED <<subs, todo>>
        /\ \E label \in {"rlock", "evict", Home(p)} : hpc' = [hpc EXCEPT ![p] = label]
    BY <1>7 DEF BeginCast, RUnlock, EndEvict, castVars
  <2> QED BY <1>0, <2>1
<1>8. ASSUME NEW p \in Procs, NEW s \in Subs, EvictDead(p, s) PROVE RangeInv'
  <2>1. Mutating(p) /\ UNCHANGED <<todo, hpc>>
    BY <1>8 DEF EvictDead, Mutating
  <2> QED BY <1>0, <1>1, <2>1
<1>9. ASSUME NEW s \in Subs, Register(s) \/ Unregister(s) PROVE RangeInv'
  <2>1. /\ Mutating(s) /\ UNCHANGED todo
        /\ \E label \in {"hello", "close"} : hpc' = [hpc EXCEPT ![s] = label]
    BY <1>9 DEF Register, Unregister, Mutating, castVars
  <2> QED BY <1>0, <1>1, <2>1
<1>10. ASSUME NEW s \in Subs,
              \/ TakeHello(s) \/ WriteHello(s)
              \/ Connect(s) \/ ReadCommand(s) \/ ReadFails(s) \/ CloseConn(s)
       PROVE  RangeInv'
  <2>1. /\ UNCHANGED <<subs, todo>>
        /\ \E label \in {"greet", "hello", "read", "join", "rlock", "leave", "done"} :
              hpc' = [hpc EXCEPT ![s] = label]
    BY <1>10 DEF TakeHello, MayGreet, WriteHello, Connect, ReadCommand, ReadFails,
       CloseConn, castVars
  <2> QED BY <1>0, <2>1
<1> QED BY <1>2, <1>3, <1>4, <1>5, <1>7, <1>8, <1>9, <1>10
        DEF HubNext, CastStep, ConnStep

\* Only who holds a sub.mu, or takes a free one, changes who holds it.
LEMMA HolderStep ==
    ASSUME HubInv, HubNext
    PROVE  HolderInv'
<1> USE ConnsAreProcs DEF HolderInv
<1>0. /\ HolderInv
      /\ hpc \in [Procs -> CastPCs \cup ConnPCs \cup {"idle"}]
      /\ connMu \in [Subs -> Procs \cup {Nobody}]
      /\ todo \in [Procs -> SUBSET Subs]
  BY DEF HubInv, HubTypeOK
<1>1. ASSUME NEW p \in Procs, hpc[p] \notin {"write", "greet"},
             UNCHANGED connMu,
             \A q \in Procs \ {p} : hpc'[q] = hpc[q] /\ todo'[q] = todo[q]
      PROVE  HolderInv'
  BY <1>0, <1>1
<1>2. ASSUME NEW p \in Procs,
             \/ EnterLock(p) \/ BeginCast(p) \/ RLock(p) \/ RUnlock(p) \/ EndEvict(p)
             \/ /\ p \in Subs
                /\ \/ Connect(p) \/ Register(p) \/ ReadCommand(p) \/ ReadFails(p)
                   \/ Unregister(p) \/ CloseConn(p)
      PROVE  HolderInv'
  <2>1. /\ hpc[p] \notin {"write", "greet"} /\ UNCHANGED connMu
        /\ \E label \in CastPCs \cup ConnPCs \cup {"idle"} : hpc' = [hpc EXCEPT ![p] = label]
        /\ todo' = todo \/ todo' = [todo EXCEPT ![p] = subs]
    BY <1>2 DEF EnterLock, MayEnter, BeginCast, RLock, MayRead, RUnlock, EndEvict, Connect,
       Register, ReadCommand, ReadFails, Unregister, CloseConn, wireVars, castVars, Home,
       CastPCs, ConnPCs
  <2>2. \A q \in Procs \ {p} : hpc'[q] = hpc[q] /\ todo'[q] = todo[q]
    BY <1>0, <2>1
  <2> QED BY <1>1, <2>1, <2>2
<1>3. ASSUME NEW p \in Procs, AnnounceLock(p) \/ \E s \in Subs : EvictDead(p, s)
      PROVE  HolderInv'
  <2>1. UNCHANGED <<hpc, connMu, todo>>
    BY <1>3 DEF AnnounceLock, MayLock, EvictDead, wireVars, castVars
  <2> QED BY <1>0, <2>1
<1>4. ASSUME NEW p \in Procs, NEW s \in Subs, NEW label \in {"write", "greet"},
             hpc[p] \notin {"write", "greet"}, connMu[s] = Nobody, UNCHANGED todo,
             connMu' = [connMu EXCEPT ![s] = p], hpc' = [hpc EXCEPT ![p] = label],
             label = "write" => s \in todo[p], label = "greet" => p = s
      PROVE  HolderInv'
  <2>1. \A r \in Subs : connMu[r] # p
    BY <1>0, <1>4
  <2>2. \A r \in Subs : connMu'[r] = p <=> r = s
    BY <1>0, <1>4, <2>1
  <2>3. \A q \in Procs, r \in Subs : q # p => (connMu'[r] = q => connMu[r] = q /\ hpc'[q] = hpc[q])
    BY <1>0, <1>4
  <2>4. hpc'[p] = label
    BY <1>0, <1>4
  <2> QED BY <1>0, <1>4, <2>2, <2>3, <2>4
<1>5. ASSUME NEW p \in Procs, NEW s \in Subs, TakeConn(p, s) PROVE HolderInv'
  BY <1>4, <1>5 DEF TakeConn, MayTake, castVars
<1>6. ASSUME NEW s \in Subs, TakeHello(s) PROVE HolderInv'
  BY <1>4, <1>6 DEF TakeHello, MayGreet, castVars
<1>7. ASSUME NEW p \in Procs, NEW s \in Subs, WriteCast(p, s) \/ (p = s /\ WriteHello(s))
      PROVE  HolderInv'
  <2>1. /\ \/ hpc[p] = "write" /\ connMu[s] = p
           \/ hpc[p] = "greet" /\ p = s
        /\ connMu' = [connMu EXCEPT ![s] = Nobody]
        /\ \E label \in {"cast", "hello", "read"} : hpc' = [hpc EXCEPT ![p] = label]
        /\ todo' = todo \/ todo' = [todo EXCEPT ![p] = todo[p] \ {s}]
    BY <1>7 DEF WriteCast, LeftToVisit, WriteHello, castVars
  <2>2. \A r \in Subs : connMu[r] = p => r = s
    BY <1>0, <2>1
  <2>3. \A r \in Subs : connMu'[r] # p
    BY <1>0, <2>1, <2>2
  <2>4. \A q \in Procs, r \in Subs :
           connMu'[r] = q => q # p /\ connMu[r] = q /\ hpc'[q] = hpc[q] /\ todo'[q] = todo[q]
    BY <1>0, <2>1, <2>3
  <2> QED BY <1>0, <2>4
<1> QED BY <1>2, <1>3, <1>5, <1>6, <1>7 DEF HubNext, CastStep, ConnStep

\* A broadcast fails only on registered connections, and what failed on one
\* stays in its dead set until it has been unregistered.
LEMMA FailedStep ==
    ASSUME HubInv, HubNext
    PROVE  FreshInv' /\ FailedAreEvicted'
<1> USE ConnsAreProcs DEF FreshInv, FailedAreEvicted
<1>0. /\ FreshInv /\ FailedAreEvicted
      /\ hpc \in [Procs -> CastPCs \cup ConnPCs \cup {"idle"}]
      /\ failed \in [Subs -> {"no", "hello", "cast"}]
      /\ dead \in [Procs -> SUBSET Subs]
      /\ subs \subseteq Subs
      /\ \A p \in Procs : Home(p) \notin {"new", "join", "joining"}
  BY DEF HubInv, HubTypeOK, Home
<1>1. \A s \in Subs : hpc[s] \in {"new", "join", "joining"} => s \notin subs
  BY DEF HubInv, MemberInv
<1>2. ASSUME NEW p \in Procs, AnnounceLock(p) PROVE FreshInv' /\ FailedAreEvicted'
  BY <1>0, <1>2 DEF AnnounceLock, MayLock, wireVars, castVars
<1>3. ASSUME NEW p \in Procs, EnterLock(p) PROVE FreshInv' /\ FailedAreEvicted'
  BY <1>0, <1>3 DEF EnterLock, MayEnter, wireVars, castVars
<1>4. ASSUME NEW p \in Procs,
             \/ BeginCast(p) \/ RLock(p) \/ RUnlock(p) \/ EndEvict(p)
             \/ \E s \in Subs : TakeConn(p, s)
      PROVE  FreshInv' /\ FailedAreEvicted'
  <2>1. /\ UNCHANGED <<subs, failed, dead>>
        /\ \E label \in {"rlock", "cast", "write", "evict", Home(p)} :
              hpc' = [hpc EXCEPT ![p] = label]
    BY <1>4 DEF BeginCast, RLock, MayRead, RUnlock, EndEvict, TakeConn, MayTake, wireVars,
       castVars
  <2> QED BY <1>0, <2>1
<1>5. ASSUME NEW p \in Procs, NEW s \in Subs, WriteCast(p, s)
      PROVE  FreshInv' /\ FailedAreEvicted'
  <2>1. /\ s \in subs /\ subs' = subs /\ hpc' = [hpc EXCEPT ![p] = "cast"]
        /\ \/ failed' = failed /\ dead' = dead
           \/ /\ failed' = [failed EXCEPT ![s] = IF @ = "no" THEN "cast" ELSE @]
              /\ dead' = [dead EXCEPT ![p] = @ \cup {s}]
    BY <1>5 DEF HubInv, HubTypeOK, RangeInv, HolderInv, Ranging, WriteCast, Deliver, FailCast
  <2>2. FreshInv'
    BY <1>0, <1>1, <2>1
  <2>3. ASSUME NEW r \in Subs, r \in subs', failed'[r] = "cast"
        PROVE  \E q \in Procs : r \in dead'[q]
    <3>1. \A q \in Procs : dead[q] \subseteq dead'[q]
      BY <1>0, <2>1
    <3>2. CASE failed[r] = "cast"
      BY <1>0, <2>1, <2>3, <3>1, <3>2
    <3>3. CASE failed[r] # "cast"
      <4>1. r = s /\ dead' = [dead EXCEPT ![p] = @ \cup {s}]
        BY <1>0, <2>1, <2>3, <3>3
      <4>2. s \in dead'[p]
        BY <1>0, <4>1
      <4> QED BY <4>1, <4>2
    <3> QED BY <3>2, <3>3
  <2>4. FailedAreEvicted'
    BY <1>0, <2>1, <2>3
  <2> QED BY <2>2, <2>4
<1>6. ASSUME NEW p \in Procs, NEW s \in Subs, EvictDead(p, s)
      PROVE  FreshInv' /\ FailedAreEvicted'
  <2>1. /\ UNCHANGED <<hpc, failed>> /\ subs' = subs \ {s}
        /\ dead' = [dead EXCEPT ![p] = @ \ {s}]
    BY <1>6 DEF EvictDead
  <2>2. \A r \in Subs, q \in Procs : r # s /\ r \in dead[q] => r \in dead'[q]
    BY <1>0, <2>1
  <2> QED BY <1>0, <2>1, <2>2
<1>7. ASSUME NEW s \in Subs, Connect(s) \/ ReadCommand(s) \/ ReadFails(s) \/ CloseConn(s)
                             \/ TakeHello(s)
      PROVE  FreshInv' /\ FailedAreEvicted'
  <2>1. /\ UNCHANGED <<subs, failed, dead>>
        /\ \E label \in {"rlock", "leave", "done", "greet", "join"} :
              hpc' = [hpc EXCEPT ![s] = label]
        /\ hpc'[s] = "join" => hpc[s] = "new"
    BY <1>0, <1>7 DEF Connect, ReadCommand, ReadFails, CloseConn, TakeHello, MayGreet,
       wireVars, castVars
  <2> QED BY <1>0, <2>1
<1>8. ASSUME NEW s \in Subs, Register(s) PROVE FreshInv' /\ FailedAreEvicted'
  BY <1>0, <1>8 DEF Register, wireVars, castVars
<1>9. ASSUME NEW s \in Subs, Unregister(s) PROVE FreshInv' /\ FailedAreEvicted'
  BY <1>0, <1>9 DEF Unregister, SubsLeaving, wireVars, castVars
<1>10. ASSUME NEW s \in Subs, WriteHello(s) PROVE FreshInv' /\ FailedAreEvicted'
  <2>1. /\ UNCHANGED <<subs, dead>>
        /\ hpc[s] = "greet"
        /\ \E label \in {"read", "hello"} : hpc' = [hpc EXCEPT ![s] = label]
        /\ failed' = failed \/ failed' = [failed EXCEPT ![s] = IF @ = "no" THEN "hello" ELSE @]
    BY <1>10 DEF WriteHello, castVars
  <2>2. \A r \in Subs : failed'[r] = "cast" => failed[r] = "cast"
    BY <1>0, <2>1
  <2>3. FreshInv'
    BY <1>0, <2>1
  <2>4. FailedAreEvicted'
    BY <1>0, <2>1, <2>2
  <2> QED BY <2>3, <2>4
<1> QED BY <1>2, <1>3, <1>4, <1>5, <1>6, <1>7, <1>8, <1>9, <1>10
        DEF HubNext, CastStep, ConnStep

-----------------------------------------------------------------------------
(* What a connection has been sent.                                        *)

\* A goroutine visits connections only while it ranges; what is registered was
\* registered before the broadcasts that are due on it; and a connection that is
\* not registered yet has been sent nothing.
DeliveryInv ==
    /\ \A p \in Procs : ~Ranging(p) => todo[p] = {}
    /\ \A s \in Subs : hpc[s] \in {"new", "join", "joining"} => inbox[s] = <<>>
    /\ \A s \in subs, p \in Procs : joined[s][p] <= Due(s, p)
    /\ NothingMissed

Entries == Procs \X Nat

\* Nothing is sent yet, and nothing is due.
LEMMA EmptyBox ==
    ASSUME NEW p, NEW n \in Nat
    PROVE  HasExactly(<<>>, p, n + 1, n)
<1>1. From(<<>>, p) = {}
  BY DEF From
<1>2. n + 1 .. n = {}
  OBVIOUS
<1> QED BY <1>1, <1>2 DEF HasExactly

\* Where an appended entry stands.
LEMMA Appended ==
    ASSUME NEW box \in Seq(Entries), NEW e \in Entries,
           NEW longer, longer = Append(box, e)
    PROVE  /\ Len(box) \in Nat /\ Len(longer) = Len(box) + 1 /\ longer[Len(box) + 1] = e
           /\ \A i \in 1 .. Len(box) : longer[i] = box[i] /\ box[i] \in Entries
<1>1. Len(Append(box, e)) = Len(box) + 1 /\ Append(box, e)[Len(box) + 1] = e
      /\ \A i \in 1 .. Len(box) : Append(box, e)[i] = box[i]
  BY AppendProperties
<1>2. Len(box) \in Nat /\ \A i \in 1 .. Len(box) : box[i] \in Entries
  BY LenProperties, ElementOfSeq
<1> QED BY <1>1, <1>2

\* The entries of p in longer are those in box, and e if it is of p.
ExtendedBy(longer, box, e, p) ==
    From(longer, p) = From(box, p) \cup (IF e[1] = p THEN {Len(box) + 1} ELSE {})

LEMMA FromAppended ==
    ASSUME NEW box \in Seq(Entries), NEW e \in Entries, NEW p,
           NEW longer, longer = Append(box, e)
    PROVE  ExtendedBy(longer, box, e, p)
<1>1. 1 .. Len(longer) = 1 .. Len(box) \cup {Len(box) + 1}
  BY Appended
<1> QED BY <1>1, Appended DEF From, ExtendedBy

LEMMA SameEntries ==
    ASSUME NEW box, NEW longer, NEW p, NEW first, NEW last, HasExactly(box, p, first, last),
           From(longer, p) = From(box, p),
           \A i \in From(box, p) : longer[i] = box[i]
    PROVE  HasExactly(longer, p, first, last)
<1>1. {longer[i][2] : i \in From(longer, p)} = {box[i][2] : i \in From(box, p)}
  OBVIOUS
<1> QED BY <1>1 DEF HasExactly

\* A broadcast of somebody else does not count.
LEMMA SentByOther ==
    ASSUME NEW box \in Seq(Entries), NEW p, NEW e \in Entries, e[1] # p,
           NEW first, NEW last, HasExactly(box, p, first, last),
           NEW longer, longer = Append(box, e)
    PROVE  HasExactly(longer, p, first, last)
<1>1. ExtendedBy(longer, box, e, p)
  BY FromAppended
<1>2. \A i \in 1 .. Len(box) : longer[i] = box[i]
  BY Appended
<1>3. From(longer, p) = From(box, p)
  BY <1>1 DEF ExtendedBy
<1>4. \A i \in From(box, p) : longer[i] = box[i]
  BY <1>2 DEF From
<1> QED BY <1>3, <1>4, SameEntries

\* The next broadcast of the same goroutine.
LEMMA SentNext ==
    ASSUME NEW box \in Seq(Entries), NEW p, NEW first \in Nat, NEW last \in Nat,
           first <= last + 1, HasExactly(box, p, first, last),
           NEW e \in Entries, e[1] = p, e[2] = last + 1,
           NEW longer, longer = Append(box, e)
    PROVE  HasExactly(longer, p, first, last + 1)
<1> DEFINE n == last + 1
           at == Len(box) + 1
<1>0. From(longer, p) = From(box, p) \cup {at} /\ From(box, p) \subseteq 1 .. Len(box)
  <2>1. ExtendedBy(longer, box, e, p)
    BY FromAppended
  <2> QED BY <2>1 DEF From, ExtendedBy
<1>1. /\ Len(box) \in Nat
      /\ \A i \in From(box, p) : i \in 1 .. Len(box) /\ longer[i] = box[i]
      /\ From(longer, p) = From(box, p) \cup {at}
  BY <1>0, Appended
<1>2. longer[at][2] = n
  BY Appended
<1>3. {longer[i][2] : i \in From(longer, p)} = {box[i][2] : i \in From(box, p)} \cup {n}
  BY <1>1, <1>2
<1>4. first .. n = (first .. last) \cup {n}
  OBVIOUS
<1>5. \A i \in From(box, p) : box[i][2] \in first .. last /\ box[i][2] < n
  <2> TAKE i \in From(box, p)
  <2>1. box[i][2] \in first .. last
    BY DEF HasExactly
  <2> QED BY <2>1
<1>6. \A i, j \in From(longer, p) : i < j => longer[i][2] < longer[j][2]
  <2> TAKE i, j \in From(longer, p)
  <2> HAVE i < j
  <2>1. i \in From(box, p)
    <3>1. \A x \in From(box, p) : x < at
      BY <1>1
    <3> QED BY <1>1, <3>1
  <2>2. CASE j = at
    BY <1>1, <1>2, <1>5, <2>1, <2>2
  <2>3. CASE j # at
    BY <1>1, <2>1, <2>3 DEF HasExactly
  <2> QED BY <2>2, <2>3
<1> QED BY <1>3, <1>4, <1>6 DEF HasExactly

\* Only a Broadcast that ranges over the map has connections to visit, and only
\* a registered connection is sent anything.
LEMMA VisitStep ==
    ASSUME HubInv, DeliveryInv, HubNext
    PROVE  /\ \A p \in Procs : ~Ranging(p)' => todo'[p] = {}
           /\ \A s \in Subs : hpc'[s] \in {"new", "join", "joining"} => inbox'[s] = <<>>
<1> USE ConnsAreProcs DEF Ranging
<1> DEFINE Goal == /\ \A p \in Procs : hpc'[p] \notin {"cast", "write"} => todo'[p] = {}
                   /\ \A s \in Subs : hpc'[s] \in {"new", "join", "joining"} => inbox'[s] = <<>>
<1>0. /\ hpc \in [Procs -> CastPCs \cup ConnPCs \cup {"idle"}]
      /\ \A p \in Procs : Home(p) \notin {"new", "join", "joining", "cast", "write"}
      /\ \A p \in Procs : hpc[p] \notin {"cast", "write"} => todo[p] = {}
      /\ \A s \in Subs : hpc[s] \in {"new", "join", "joining"} => inbox[s] = <<>>
  BY DEF HubInv, HubTypeOK, Home, DeliveryInv
<1>1. ASSUME NEW p \in Procs,
             \/ AnnounceLock(p) \/ EnterLock(p) \/ BeginCast(p) \/ RUnlock(p) \/ EndEvict(p)
             \/ \E s \in Subs : TakeConn(p, s) \/ EvictDead(p, s)
             \/ /\ p \in Subs
                /\ \/ Connect(p) \/ Register(p) \/ TakeHello(p) \/ WriteHello(p) \/ ReadCommand(p)
                   \/ ReadFails(p) \/ Unregister(p) \/ CloseConn(p)
      PROVE  Goal
  <2>1. /\ UNCHANGED <<todo, inbox>>
        /\ \/ hpc' = hpc
           \/ \E label \in CastPCs \cup ConnPCs \cup {"idle"} :
                 /\ hpc' = [hpc EXCEPT ![p] = label]
                 /\ label \in {"new", "join", "joining"} => hpc[p] \in {"new", "join", "joining"}
                 /\ label \notin {"cast", "write"} => todo[p] = {}
    BY <1>0, <1>1
       DEF AnnounceLock, MayLock, EnterLock, MayEnter, BeginCast, RUnlock, EndEvict,
           TakeConn, MayTake, EvictDead, Connect, Register, TakeHello, MayGreet, WriteHello,
           ReadCommand, ReadFails, Unregister, CloseConn, wireVars, castVars, Home, CastPCs,
           ConnPCs
  <2> QED BY <1>0, <2>1
<1>2. ASSUME NEW p \in Procs, RLock(p) PROVE Goal
  <2>1. hpc' = [hpc EXCEPT ![p] = "cast"] /\ UNCHANGED inbox
        /\ todo' = [todo EXCEPT ![p] = subs]
    BY <1>2 DEF RLock, MayRead, wireVars
  <2> QED BY <1>0, <2>1
<1>3. ASSUME NEW p \in Procs, NEW s \in Subs, WriteCast(p, s) PROVE Goal
  <2>1. /\ s \in subs /\ hpc' = [hpc EXCEPT ![p] = "cast"]
        /\ \A q \in Procs : q # p => todo'[q] = todo[q]
        /\ \A r \in Subs : r # s => inbox'[r] = inbox[r]
    BY <1>3 DEF HubInv, HubTypeOK, RangeInv, HolderInv, Ranging, WriteCast, Deliver, FailCast
  <2>2. hpc[s] \notin {"new", "join", "joining"}
    BY <2>1 DEF HubInv, MemberInv
  <2> QED BY <1>0, <2>1, <2>2
<1>4. Goal
  BY <1>1, <1>2, <1>3 DEF HubNext, CastStep, ConnStep
<1> QED BY <1>4

\* What is due and what was sent stay the same, step by step.
LEMMA SentStep ==
    ASSUME HubInv, DeliveryInv, HubNext
    PROVE  /\ \A s \in subs', p \in Procs : joined'[s][p] <= Due(s, p)'
           /\ NothingMissed'
<1> USE ConnsAreProcs
<1> DEFINE Sent(s, p) == /\ joined[s][p] <= Due(s, p)
                         /\ failed[s] = "no" =>
                               HasExactly(inbox[s], p, joined[s][p] + 1, Due(s, p))
<1>0. /\ subs \subseteq Subs /\ casts \in [Procs -> Nat] /\ todo \in [Procs -> SUBSET Subs]
      /\ joined \in [Subs -> [Procs -> Nat]] /\ inbox \in [Subs -> Seq(Entries)]
      /\ failed \in [Subs -> {"no", "hello", "cast"}]
      /\ \A s \in subs, p \in Procs : Sent(s, p)
  BY DEF HubInv, HubTypeOK, DeliveryInv, NothingMissed, Entries
<1>1. \A s \in subs, p \in Procs : Due(s, p) \in Int /\ joined[s][p] \in Nat /\ Due(s, p) \in Nat
  <2> TAKE s \in subs, p \in Procs
  <2>1. casts[p] \in Nat /\ joined[s][p] \in Nat
    BY <1>0
  <2>2. Due(s, p) \in Int /\ joined[s][p] <= Due(s, p)
    BY <1>0, <2>1 DEF Due
  <2> QED BY <2>1, <2>2
<1>2. ASSUME NEW p \in Procs,
             \/ AnnounceLock(p) \/ EnterLock(p) \/ BeginCast(p) \/ RUnlock(p) \/ EndEvict(p)
             \/ \E s \in Subs : TakeConn(p, s) \/ EvictDead(p, s)
             \/ /\ p \in Subs
                /\ \/ Connect(p) \/ TakeHello(p) \/ WriteHello(p) \/ ReadCommand(p)
                   \/ ReadFails(p) \/ Unregister(p) \/ CloseConn(p)
      PROVE  \A s \in subs', q \in Procs : Sent(s, q)'
  <2>1. /\ UNCHANGED <<todo, casts, joined, inbox>> /\ subs' \subseteq subs
        /\ \A s \in Subs : failed'[s] = "no" => failed[s] = "no"
    <3>1. UNCHANGED <<todo, casts, joined, inbox>> /\ subs' \subseteq subs
      BY <1>2
         DEF AnnounceLock, MayLock, EnterLock, MayEnter, BeginCast, RUnlock, EndEvict,
             TakeConn, MayTake, EvictDead, Connect, TakeHello, MayGreet, WriteHello,
             ReadCommand, ReadFails, Unregister, SubsLeaving, CloseConn, wireVars, castVars
    <3>2. \/ failed' = failed
          \/ failed' = [failed EXCEPT ![p] = IF @ = "no" THEN "hello" ELSE @]
      BY <1>2
         DEF AnnounceLock, MayLock, EnterLock, MayEnter, BeginCast, RUnlock, EndEvict,
             TakeConn, MayTake, EvictDead, Connect, TakeHello, MayGreet, WriteHello,
             ReadCommand, ReadFails, Unregister, CloseConn, wireVars
    <3>3. \A s \in Subs : failed'[s] = "no" => failed[s] = "no"
      BY <1>0, <3>2
    <3> QED BY <3>1, <3>3
  <2> QED BY <1>0, <2>1 DEF Due
<1>3. ASSUME NEW p \in Procs, RLock(p) PROVE \A s \in subs', q \in Procs : Sent(s, q)'
  <2>1. /\ todo[p] = {} /\ todo' = [todo EXCEPT ![p] = subs]
        /\ casts' = [casts EXCEPT ![p] = @ + 1] /\ UNCHANGED <<subs, joined, inbox, failed>>
    BY <1>3 DEF DeliveryInv, Ranging, RLock, MayRead, wireVars
  <2>2. \A s \in subs, q \in Procs : Due(s, q)' = Due(s, q)
    <3> TAKE s \in subs, q \in Procs
    <3>1. CASE q = p
      <4>1. casts'[p] = casts[p] + 1 /\ todo'[p] = subs /\ casts[p] \in Nat
        BY <1>0, <2>1
      <4> QED BY <2>1, <3>1, <4>1 DEF Due
    <3>2. CASE q # p
      <4>1. casts'[q] = casts[q] /\ todo'[q] = todo[q]
        BY <1>0, <2>1, <3>2
      <4> QED BY <4>1 DEF Due
    <3> QED BY <3>1, <3>2
  <2> QED BY <1>0, <2>1, <2>2
<1>4. ASSUME NEW p \in Procs, NEW s \in Subs, WriteCast(p, s)
      PROVE  \A r \in subs', q \in Procs : Sent(r, q)'
  <2>1. /\ s \in todo[p] /\ s \in subs
        /\ todo' = [todo EXCEPT ![p] = todo[p] \ {s}] /\ UNCHANGED <<subs, joined, casts>>
        /\ \/ failed[s] = "no" /\ failed' = failed
              /\ inbox' = [inbox EXCEPT ![s] = Append(@, <<p, casts[p]>>)]
           \/ inbox' = inbox /\ failed' = [failed EXCEPT ![s] = IF @ = "no" THEN "cast" ELSE @]
    BY <1>4 DEF HubInv, HubTypeOK, RangeInv, HolderInv, Ranging, WriteCast, Deliver,
       FailCast, LeftToVisit
  <2>2. /\ \A r \in subs, q \in Procs : <<r, q>> # <<s, p>> => Due(r, q)' = Due(r, q)
        /\ Due(s, p)' = casts[p] /\ Due(s, p) = casts[p] - 1 /\ casts[p] \in Nat
    <3>1. /\ casts' = casts /\ casts[p] \in Nat /\ s \in todo[p] /\ s \notin todo'[p]
          /\ \A r \in subs, q \in Procs :
                <<r, q>> # <<s, p>> => (r \in todo'[q] <=> r \in todo[q])
      BY <1>0, <2>1
    <3> QED BY <3>1 DEF Due
  <2>3. \A r \in subs : r # s => inbox'[r] = inbox[r] /\ failed'[r] = failed[r]
    BY <1>0, <2>1
  <2>4. ASSUME NEW q \in Procs PROVE Sent(s, q)'
    <3>1. joined[s][q] <= Due(s, q) /\ joined[s][q] \in Nat /\ Due(s, q) \in Nat
      BY <1>0, <1>1, <2>1
    <3>2. joined'[s][q] <= Due(s, q)'
      <4>1. CASE q = p
        BY <2>1, <2>2, <3>1, <4>1
      <4>2. CASE q # p
        BY <2>1, <2>2, <3>1, <4>2
      <4> QED BY <4>1, <4>2
    <3>3. ASSUME failed'[s] = "no"
          PROVE  HasExactly(inbox'[s], q, joined'[s][q] + 1, Due(s, q)')
      <4>1. /\ failed[s] = "no" /\ inbox[s] \in Seq(Entries)
            /\ inbox'[s] = Append(inbox[s], <<p, casts[p]>>)
        BY <1>0, <2>1, <3>3
      <4> DEFINE box == inbox[s]
                 first == joined[s][q] + 1
                 last == Due(s, q)
      <4>2. /\ HasExactly(box, q, first, last) /\ box \in Seq(Entries)
            /\ first \in Nat /\ last \in Nat /\ first <= last + 1
        BY <1>0, <2>1, <3>1, <4>1
      <4>3. PICK e \in Entries : e = <<p, casts[p]>>
        BY <2>2 DEF Entries
      <4>4. e[1] = p /\ e[2] = casts[p] /\ inbox'[s] = Append(box, e)
        BY <4>1, <4>3
      <4>5. CASE q = p
        <5>1. Due(s, q)' = last + 1 /\ casts[p] = last + 1
          BY <2>2, <4>2, <4>5
        <5> HIDE DEF box, first, last
        <5>2. HasExactly(inbox'[s], q, first, last + 1)
          BY <4>2, <4>4, <4>5, <5>1, SentNext
        <5> QED BY <2>1, <5>1, <5>2 DEF first
      <4>6. CASE q # p
        <5>1. Due(s, q)' = last
          BY <2>1, <2>2, <4>6
        <5> HIDE DEF box, first, last
        <5>2. HasExactly(inbox'[s], q, first, last)
          BY <4>2, <4>4, <4>6, SentByOther
        <5> QED BY <2>1, <5>1, <5>2 DEF first
      <4> QED BY <4>5, <4>6
    <3> QED BY <3>2, <3>3
  <2>5. ASSUME NEW r \in subs, r # s, NEW q \in Procs PROVE Sent(r, q)'
    BY <1>0, <2>1, <2>2, <2>3, <2>5
  <2> QED BY <2>1, <2>4, <2>5
<1>5. ASSUME NEW s \in Subs, Register(s) PROVE \A r \in subs', q \in Procs : Sent(r, q)'
  <2>1. /\ hpc[s] = "joining" /\ Mutating(s) /\ s \notin subs
        /\ subs' = subs \cup {s} /\ joined' = [joined EXCEPT ![s] = casts]
        /\ UNCHANGED <<todo, casts, inbox, failed>>
    BY <1>5 DEF Register, Mutating, HubInv, MemberInv, wireVars, castVars
  <2>2. \A q \in Procs : todo[q] = {}
    <3>1. \A q \in Procs : ~Ranging(q)
      BY <2>1 DEF HubInv, LockInv
    <3> QED BY <3>1 DEF DeliveryInv
  <2>3. \A r \in Subs, q \in Procs : Due(r, q)' = Due(r, q)
    BY <2>1 DEF Due
  <2>4. ASSUME NEW q \in Procs PROVE Sent(s, q)'
    <3>1. casts[q] \in Nat /\ joined'[s][q] = casts[q] /\ Due(s, q) = casts[q]
      BY <1>0, <2>1, <2>2 DEF Due
    <3>2. inbox'[s] = <<>>
      BY <2>1 DEF DeliveryInv
    <3>3. HasExactly(<<>>, q, casts[q] + 1, casts[q])
      BY <3>1, EmptyBox
    <3> QED BY <2>3, <3>1, <3>2, <3>3
  <2>5. ASSUME NEW r \in subs, NEW q \in Procs PROVE Sent(r, q)'
    <3>1. r # s /\ joined'[r] = joined[r]
      BY <1>0, <2>1
    <3> QED BY <1>0, <2>1, <2>3, <3>1
  <2> QED BY <2>1, <2>4, <2>5
<1>6. \A s \in subs', p \in Procs : Sent(s, p)'
  BY <1>2, <1>3, <1>4, <1>5 DEF HubNext, CastStep, ConnStep
<1> QED BY <1>6 DEF NothingMissed

-----------------------------------------------------------------------------
(* Who waits for whom.                                                     *)

\* Where each goroutine can be.
PlaceInv == \A p \in Procs :
    /\ hpc[p] \in CastPCs \/ (p \in Subs /\ hpc[p] \in ConnPCs) \/ (p \in Casters /\ hpc[p] = "idle")
    /\ p \in Subs /\ hpc[p] = "new" => greeted[p] = 0

\* Whoever is in the middle of a write or a greeting holds the connection's lock;
\* s.mu is held for reading only by who ranges, and announced only by who is on the
\* way to change the map: nobody keeps a lock and waits for something else.
HoldsInv ==
    /\ \A p \in Procs : hpc[p] = "write" => \E s \in Subs : connMu[s] = p
    /\ \A s \in Subs : hpc[s] = "greet" => connMu[s] = s
    /\ \A p \in readers : Ranging(p)
    /\ \A p \in Procs : writer = p =>
          hpc[p] \in {"join", "evict", "leave", "joining", "evicting", "leaving"}

\* A connection that has been registered and is not any more is closed, or its
\* reader goroutine is about to close it.
GoneInv == \A s \in Subs :
    /\ hpc[s] = "done" => conn[s] = "closed"
    /\ hpc[s] \notin {"new", "join", "joining", "close", "done"} /\ s \notin subs =>
          conn[s] = "closed"

WaitInv == PlaceInv /\ HoldsInv /\ GoneInv

\* A caster is no connection.
LEMMA CastersApart == \A p \in Procs : p \in Subs <=> p \notin Casters
BY HubProcsAssumption DEF Procs

LEMMA PlaceStep ==
    ASSUME HubInv, PlaceInv, HubNext
    PROVE  PlaceInv'
<1> USE ConnsAreProcs, CastersApart DEF PlaceInv, CastPCs, ConnPCs
<1>0. PlaceInv /\ hpc \in [Procs -> CastPCs \cup ConnPCs \cup {"idle"}]
      /\ greeted \in [Subs -> 0 .. Hello]
      /\ \A p \in Procs : Home(p) = IF p \in Casters THEN "idle" ELSE "read"
  BY DEF HubInv, HubTypeOK, Home
<1>1. ASSUME NEW p \in Procs,
             \/ AnnounceLock(p) \/ BeginCast(p) \/ RLock(p) \/ RUnlock(p) \/ EndEvict(p)
             \/ \E s \in Subs : TakeConn(p, s) \/ WriteCast(p, s) \/ EvictDead(p, s)
      PROVE  PlaceInv'
  <2>1. /\ UNCHANGED greeted
        /\ \/ hpc' = hpc
           \/ \E label \in CastPCs \cup {Home(p)} : hpc' = [hpc EXCEPT ![p] = label]
    BY <1>1 DEF AnnounceLock, BeginCast, RLock, RUnlock, EndEvict, TakeConn, WriteCast,
       EvictDead, wireVars
  <2> QED BY <1>0, <2>1
<1>2. ASSUME NEW p \in Procs, EnterLock(p) PROVE PlaceInv'
  <2>1. /\ UNCHANGED greeted
        /\ \/ hpc[p] = "join" /\ hpc' = [hpc EXCEPT ![p] = "joining"]
           \/ hpc[p] = "evict" /\ hpc' = [hpc EXCEPT ![p] = "evicting"]
           \/ hpc[p] = "leave" /\ hpc' = [hpc EXCEPT ![p] = "leaving"]
    BY <1>2 DEF EnterLock, MayEnter, wireVars
  <2> QED BY <1>0, <2>1
<1>3. ASSUME NEW s \in Subs,
             \/ Connect(s) \/ Register(s) \/ TakeHello(s) \/ ReadCommand(s) \/ ReadFails(s)
             \/ Unregister(s) \/ CloseConn(s)
      PROVE  PlaceInv'
  <2>1. /\ UNCHANGED greeted
        /\ \E label \in {"join", "hello", "greet", "rlock", "leave", "close", "done"} :
              hpc' = [hpc EXCEPT ![s] = label]
    BY <1>3 DEF Connect, Register, TakeHello, ReadCommand, ReadFails, Unregister, CloseConn,
       wireVars
  <2> QED BY <1>0, <2>1
<1>4. ASSUME NEW s \in Subs, WriteHello(s) PROVE PlaceInv'
  <2>1. /\ greeted' = [greeted EXCEPT ![s] = @ + 1]
        /\ \E label \in {"read", "hello"} : hpc' = [hpc EXCEPT ![s] = label]
    BY <1>4 DEF WriteHello
  <2>2. \A r \in Subs \ {s} : greeted'[r] = greeted[r]
    BY <1>0, <2>1
  <2> QED BY <1>0, <2>1, <2>2
<1> QED BY <1>1, <1>2, <1>3, <1>4 DEF HubNext, CastStep, ConnStep

LEMMA HoldsStep ==
    ASSUME HubInv, HoldsInv, HubNext
    PROVE  HoldsInv'
<1> USE ConnsAreProcs DEF HoldsInv, Ranging
<1>0. /\ HoldsInv /\ hpc \in [Procs -> CastPCs \cup ConnPCs \cup {"idle"}]
      /\ connMu \in [Subs -> Procs \cup {Nobody}] /\ readers \subseteq Procs
      /\ \A p \in Procs : Home(p) \in {"idle", "read"}
  BY DEF HubInv, HubTypeOK, Home
<1>1. ASSUME NEW p \in Procs, AnnounceLock(p) PROVE HoldsInv'
  <2>1. /\ UNCHANGED <<hpc, connMu, readers>> /\ writer' = p
        /\ hpc[p] \in {"join", "evict", "leave"}
    BY <1>1 DEF AnnounceLock, MayLock, wireVars
  <2> QED BY <1>0, <2>1
<1>2. ASSUME NEW p \in Procs, EnterLock(p) PROVE HoldsInv'
  <2>1. /\ UNCHANGED <<connMu, readers, writer>> /\ readers = {}
        /\ \E label \in {"joining", "evicting", "leaving"} : hpc' = [hpc EXCEPT ![p] = label]
    BY <1>2 DEF EnterLock, MayEnter, ReadersGone, wireVars, lockVars
  <2> QED BY <1>0, <2>1
\* Somebody not in the middle of anything goes somewhere else without a lock.
<1>3. ASSUME NEW p \in Procs,
             hpc[p] \in {"new", "idle", "read", "close", "greet", "hello"}, UNCHANGED <<readers, writer>>,
             NEW label \in {"join", "rlock", "leave", "done", "hello", "greet", "read"},
             hpc' = [hpc EXCEPT ![p] = label],
             label = "greet" => p \in Subs /\ connMu'[p] = p,
             \A q \in Procs, s \in Subs : q # p /\ connMu[s] = q => connMu'[s] = q
      PROVE  HoldsInv'
  <2>1. \A q \in Procs : hpc'[q] = IF q = p THEN label ELSE hpc[q]
    BY <1>0, <1>3
  <2>2. ASSUME NEW q \in Procs, hpc'[q] = "write" PROVE \E s \in Subs : connMu'[s] = q
    <3>1. q # p /\ hpc[q] = "write"
      BY <1>3, <2>1, <2>2
    <3>2. PICK s \in Subs : connMu[s] = q
      BY <1>0, <3>1
    <3> QED BY <1>3, <3>1, <3>2
  <2>3. ASSUME NEW q \in readers' PROVE hpc'[q] \in {"cast", "write"}
    BY <1>0, <1>3, <2>1
  <2>4. ASSUME NEW q \in Procs, writer' = q
        PROVE  hpc'[q] \in {"join", "evict", "leave", "joining", "evicting", "leaving"}
    BY <1>0, <1>3, <2>1, <2>4
  <2>5. ASSUME NEW s \in Subs, hpc'[s] = "greet" PROVE connMu'[s] = s
    <3>1. CASE s = p
      BY <1>3, <2>1, <2>5, <3>1
    <3>2. CASE s # p
      BY <1>0, <1>3, <2>1, <2>5, <3>2
    <3> QED BY <3>1, <3>2
  <2> QED BY <2>2, <2>3, <2>4, <2>5
<1>4. ASSUME NEW p \in Procs,
             \/ BeginCast(p)
             \/ p \in Subs /\ (Connect(p) \/ ReadCommand(p) \/ ReadFails(p) \/ CloseConn(p))
      PROVE  HoldsInv'
  <2>1. /\ hpc[p] \in {"new", "idle", "read", "close", "greet", "hello"}
        /\ UNCHANGED <<readers, writer, connMu>>
        /\ \E label \in {"join", "rlock", "leave", "done"} :
              hpc' = [hpc EXCEPT ![p] = label]
    BY <1>4 DEF BeginCast, Connect, ReadCommand, ReadFails, CloseConn, wireVars, lockVars
  <2> QED BY <1>3, <2>1
<1>5. ASSUME NEW s \in Subs, TakeHello(s) PROVE HoldsInv'
  <2>1. /\ hpc[s] = "hello" /\ connMu[s] = Nobody /\ UNCHANGED <<readers, writer>>
        /\ connMu' = [connMu EXCEPT ![s] = s] /\ hpc' = [hpc EXCEPT ![s] = "greet"]
    BY <1>5 DEF TakeHello, MayGreet, lockVars
  <2>2. connMu'[s] = s /\ \A q \in Procs, r \in Subs : connMu[r] = q => connMu'[r] = q
    BY <1>0, <2>1
  <2>3. \A q \in Procs, r \in Subs : q # s /\ connMu[r] = q => connMu'[r] = q
    BY <2>2
  <2>4. /\ s \in Procs /\ hpc[s] \in {"new", "idle", "read", "close", "greet", "hello"}
        /\ "greet" \in {"join", "rlock", "leave", "done", "hello", "greet", "read"}
    BY <2>1
  <2> HIDE DEF HoldsInv
  <2> QED BY <1>3, <2>1, <2>2, <2>3, <2>4
<1>11. ASSUME NEW s \in Subs, WriteHello(s) PROVE HoldsInv'
  <2>1. /\ hpc[s] = "greet" /\ UNCHANGED <<readers, writer>>
        /\ connMu' = [connMu EXCEPT ![s] = Nobody]
        /\ \E label \in {"hello", "read"} : hpc' = [hpc EXCEPT ![s] = label]
    BY <1>11 DEF WriteHello, lockVars
  <2>2. connMu[s] = s
    BY <1>0, <2>1
  <2>3. \A q \in Procs, r \in Subs : q # s /\ connMu[r] = q => connMu'[r] = q
    BY <1>0, <2>1, <2>2
  <2>4. PICK label \in {"hello", "read"} : hpc' = [hpc EXCEPT ![s] = label]
    BY <2>1
  <2>5. /\ s \in Procs /\ hpc[s] \in {"new", "idle", "read", "close", "greet", "hello"}
        /\ label \in {"join", "rlock", "leave", "done", "hello", "greet", "read"} /\ label # "greet"
    BY <2>1
  <2> HIDE DEF HoldsInv
  <2> QED BY <1>3, <2>1, <2>3, <2>4, <2>5
<1>6. ASSUME NEW p \in Procs, NEW s \in Subs, TakeConn(p, s) PROVE HoldsInv'
  <2>1. /\ hpc[p] = "cast" /\ connMu[s] = Nobody /\ connMu' = [connMu EXCEPT ![s] = p]
        /\ hpc' = [hpc EXCEPT ![p] = "write"] /\ UNCHANGED <<readers, writer>>
    BY <1>6 DEF TakeConn, MayTake, lockVars
  <2>2. connMu'[s] = p /\ \A q \in Procs, r \in Subs : connMu[r] = q => connMu'[r] = q
    BY <1>0, <2>1
  <2> QED BY <1>0, <2>1, <2>2
<1>7. ASSUME NEW p \in Procs, NEW s \in Subs, WriteCast(p, s) PROVE HoldsInv'
  <2>1. /\ hpc[p] = "write" /\ connMu[s] = p /\ connMu' = [connMu EXCEPT ![s] = Nobody]
        /\ hpc' = [hpc EXCEPT ![p] = "cast"] /\ UNCHANGED <<readers, writer>>
    BY <1>7 DEF WriteCast, lockVars
  <2>2. \A q \in Procs, r \in Subs : q # p /\ connMu[r] = q => connMu'[r] = q
    BY <1>0, <2>1
  <2> QED BY <1>0, <2>1, <2>2
<1>8. ASSUME NEW p \in Procs, RLock(p) \/ RUnlock(p) PROVE HoldsInv'
  <2>1. /\ hpc[p] \in {"rlock", "cast"} /\ UNCHANGED <<connMu, writer>>
        /\ \/ readers' = readers \cup {p} /\ hpc' = [hpc EXCEPT ![p] = "cast"]
           \/ /\ readers' = readers \ {p}
              /\ \E label \in {"idle", "read", "evict"} : hpc' = [hpc EXCEPT ![p] = label]
    BY <1>0, <1>8 DEF RLock, MayRead, RUnlock, wireVars
  <2> QED BY <1>0, <2>1
<1>9. ASSUME NEW p \in Procs, EndEvict(p) \/ (p \in Subs /\ (Register(p) \/ Unregister(p)))
      PROVE  HoldsInv'
  <2>1. /\ hpc[p] \in {"evicting", "joining", "leaving"} /\ UNCHANGED <<connMu, readers>>
        /\ writer' = Nobody
        /\ \E label \in {"idle", "read", "hello", "close"} : hpc' = [hpc EXCEPT ![p] = label]
    BY <1>0, <1>9 DEF EndEvict, Register, Unregister, wireVars
  <2> QED BY <1>0, <2>1
<1>10. ASSUME NEW p \in Procs, NEW s \in Subs, EvictDead(p, s) PROVE HoldsInv'
  <2>1. UNCHANGED <<hpc, connMu, readers, writer>>
    BY <1>10 DEF EvictDead, lockVars
  <2> QED BY <1>0, <2>1
<1> QED BY <1>1, <1>2, <1>4, <1>5, <1>6, <1>7, <1>8, <1>9, <1>10, <1>11
        DEF HubNext, CastStep, ConnStep

LEMMA GoneStep ==
    ASSUME HubInv, GoneInv, HubNext
    PROVE  GoneInv'
<1> USE ConnsAreProcs DEF GoneInv
<1>0. /\ GoneInv /\ hpc \in [Procs -> CastPCs \cup ConnPCs \cup {"idle"}]
      /\ conn \in [Subs -> {"none", "open", "closed"}] /\ subs \subseteq Subs
      /\ \A p \in Procs : Home(p) \notin {"new", "join", "joining", "close", "done"}
  BY DEF HubInv, HubTypeOK, Home
<1>1. ASSUME NEW p \in Procs,
             \/ AnnounceLock(p) \/ BeginCast(p) \/ RLock(p) \/ RUnlock(p) \/ EndEvict(p)
             \/ \E s \in Subs : TakeConn(p, s) \/ WriteCast(p, s)
             \/ p \in Subs /\ (TakeHello(p) \/ WriteHello(p) \/ ReadCommand(p) \/ ReadFails(p))
      PROVE  GoneInv'
  <2>1. /\ UNCHANGED <<subs, conn>>
        /\ \/ hpc' = hpc
           \/ /\ hpc[p] \notin {"new", "join", "joining", "close", "done"}
              /\ \E label \in {"rlock", "cast", "write", "evict", "greet", "hello", "read",
                               "leave", Home(p)} : hpc' = [hpc EXCEPT ![p] = label]
    BY <1>1 DEF AnnounceLock, BeginCast, RLock, MayRead, RUnlock, EndEvict, TakeConn,
       MayTake, WriteCast, TakeHello, MayGreet, WriteHello, ReadCommand, ReadFails, wireVars
  <2> QED BY <1>0, <2>1
<1>2. ASSUME NEW p \in Procs, EnterLock(p) PROVE GoneInv'
  <2>1. /\ UNCHANGED <<subs, conn>>
        /\ \/ hpc[p] = "join" /\ hpc' = [hpc EXCEPT ![p] = "joining"]
           \/ hpc[p] = "evict" /\ hpc' = [hpc EXCEPT ![p] = "evicting"]
           \/ hpc[p] = "leave" /\ hpc' = [hpc EXCEPT ![p] = "leaving"]
    BY <1>2 DEF EnterLock, MayEnter, wireVars
  <2> QED BY <1>0, <2>1
<1>3. ASSUME NEW p \in Procs, NEW s \in Subs, EvictDead(p, s) PROVE GoneInv'
  <2>1. /\ hpc' = hpc /\ subs' = subs \ {s}
        /\ conn' = IF s \in subs THEN [conn EXCEPT ![s] = "closed"] ELSE conn
    BY <1>3 DEF EvictDead, CloseEvicted
  <2>2. \A r \in Subs : conn[r] = "closed" => conn'[r] = "closed"
    BY <1>0, <2>1
  <2>3. s \in subs => conn'[s] = "closed"
    BY <1>0, <2>1
  <2> QED BY <1>0, <2>1, <2>2, <2>3
<1>4. ASSUME NEW s \in Subs, Connect(s) PROVE GoneInv'
  BY <1>0, <1>4 DEF Connect
<1>5. ASSUME NEW s \in Subs, Register(s) PROVE GoneInv'
  BY <1>0, <1>5 DEF Register, wireVars
<1>6. ASSUME NEW s \in Subs, Unregister(s) PROVE GoneInv'
  BY <1>0, <1>6 DEF Unregister, SubsLeaving, wireVars
<1>7. ASSUME NEW s \in Subs, CloseConn(s) PROVE GoneInv'
  BY <1>0, <1>7 DEF CloseConn
<1> QED BY <1>1, <1>2, <1>3, <1>4, <1>5, <1>6, <1>7 DEF HubNext, CastStep, ConnStep

\* If nobody can go on then no write is under way, hence every connection's lock is
\* free, hence no range is under way, hence s.mu has no reader, hence whoever has
\* announced a change of the map could make it; so s.mu is free too.
LEMMA NobodyWaits == HubInv /\ WaitInv => NobodyStuck
<1> SUFFICES ASSUME HubInv, WaitInv, \A p \in Procs : ~CanGo(p)
             PROVE  /\ \A p \in Procs : hpc[p] \in {Home(p), "new", "done"}
                    /\ \A s \in Subs : greeted[s] > 0 /\ s \notin subs =>
                                           hpc[s] = "done" /\ conn[s] = "closed"
  BY DEF NobodyStuck
<1> USE ConnsAreProcs
<1>0. /\ hpc \in [Procs -> CastPCs \cup ConnPCs \cup {"idle"}]
      /\ connMu \in [Subs -> Procs \cup {Nobody}] /\ readers \subseteq Procs
      /\ writer \in Procs \cup {Nobody}
      /\ todo \in [Procs -> SUBSET Subs]
  BY DEF HubInv, HubTypeOK
<1>1. \A p \in Procs : hpc[p] \notin {"evicting", "joining", "greet", "leaving", "close"}
  BY DEF CanGo
<1>2. \A p \in Procs : hpc[p] # "write"
  BY DEF CanGo, WaitInv, HoldsInv
<1>3. \A s \in Subs : connMu[s] = Nobody
  BY <1>0, <1>1, <1>2 DEF HubInv, HolderInv
<1>4. \A p \in Procs : hpc[p] # "cast"
  BY <1>0, <1>3 DEF CanGo, MayTake
<1>5. readers = {}
  BY <1>0, <1>2, <1>4 DEF WaitInv, HoldsInv, Ranging
<1>6. writer = Nobody
  BY <1>0, <1>1, <1>5 DEF CanGo, MayEnter, ReadersGone, WaitInv, HoldsInv
<1>7. \A p \in Procs : hpc[p] \notin {"join", "evict", "leave", "rlock"}
  BY <1>6 DEF CanGo, MayLock, MayRead
<1>8. \A s \in Subs : hpc[s] # "hello"
  BY <1>3 DEF CanGo, MayGreet
<1>9. \A p \in Procs : hpc[p] \in {Home(p), "new", "done"}
  BY <1>1, <1>2, <1>4, <1>7, <1>8, CastersApart
     DEF WaitInv, PlaceInv, CastPCs, ConnPCs, Home
<1>10. ASSUME NEW s \in Subs, greeted[s] > 0, s \notin subs
       PROVE  hpc[s] = "done" /\ conn[s] = "closed"
  <2>1. hpc[s] # "new"
    BY <1>10 DEF WaitInv, PlaceInv
  <2>2. hpc[s] \in {"read", "done"}
    BY <1>9, <2>1, CastersApart DEF Home
  <2>3. hpc[s] # "read"
    BY <1>10 DEF WaitInv, GoneInv, CanGo
  <2> QED BY <2>2, <2>3 DEF WaitInv, GoneInv
<1> QED BY <1>9, <1>10

-----------------------------------------------------------------------------
(* The theorems.                                                           *)

\* The parts together are inductive.
THEOREM HubInvariance == HubSpec => []HubInv
<1>1. HubInit => HubInv
  <2> SUFFICES ASSUME HubInit PROVE HubInv
    OBVIOUS
  <2>1. \A p \in Procs : hpc[p] \in {"idle", "new"}
    BY DEF HubInit
  <2>2. HubTypeOK
    <3>1. <<>> \in Seq(Procs \X Nat)
      BY EmptySeq
    <3> QED BY <3>1, ConnsAreProcs, HelloAssumption
            DEF HubInit, HubTypeOK, CastPCs, ConnPCs
  <2>3. GreetInv
    BY HelloAssumption, ConnsAreProcs DEF HubInit, GreetInv
  <2>4. LockInv /\ MemberInv /\ RangeInv /\ HolderInv /\ FreshInv
    BY <2>1, ConnsAreProcs
       DEF HubInit, LockInv, MemberInv, RangeInv, HolderInv, FreshInv, Mutating, Ranging
  <2>5. ClosedIsUnregistered /\ FailedAreEvicted
    BY DEF HubInit, ClosedIsUnregistered, FailedAreEvicted
  <2> QED BY <2>2, <2>3, <2>4, <2>5 DEF HubInv
<1>2. HubInv /\ [HubNext]_hubVars => HubInv'
  <2> SUFFICES ASSUME HubInv, [HubNext]_hubVars PROVE HubInv'
    OBVIOUS
  <2>1. CASE HubNext
    BY <2>1, HubTypeStep, LockStep, MemberStep, RangeStep, HolderStep, FailedStep DEF HubInv
  <2>2. CASE UNCHANGED hubVars
    BY <2>2 DEF hubVars, lockVars, wireVars, castVars, HubInv, HubTypeOK, GreetInv, LockInv,
       MemberInv, RangeInv, HolderInv, FreshInv, Mutating, Ranging, ClosedIsUnregistered,
       FailedAreEvicted
  <2> QED BY <2>1, <2>2
<1> QED BY <1>1, <1>2, PTL DEF HubSpec

\* No field of the hub leaves its type.
THEOREM HubTyping == HubSpec => []HubTypeOK
<1>1. HubInv => HubTypeOK
  BY DEF HubInv
<1> QED BY <1>1, HubInvariance, PTL

\* s.mu keeps every Broadcast's range and every change of the map apart, for
\* any number of connections and broadcasting goroutines.
THEOREM HubNoMapRace == HubSpec => []NoMapRace
<1>1. HubInv => NoMapRace
  BY DEF HubInv, LockInv, NoMapRace
<1> QED BY <1>1, HubInvariance, PTL

\* A connection the server closes has been unregistered before.
THEOREM HubClosedIsUnregistered == HubSpec => []ClosedIsUnregistered
<1>1. HubInv => ClosedIsUnregistered
  BY DEF HubInv
<1> QED BY <1>1, HubInvariance, PTL

\* A connection a Broadcast could not write to is gone when it returns.
THEOREM HubFailedAreEvicted == HubSpec => []FailedAreEvicted
<1>1. HubInv => FailedAreEvicted
  BY DEF HubInv
<1> QED BY <1>1, HubInvariance, PTL

\* A connection whose writes succeed is sent every broadcast since it was
\* registered, once, and those of one goroutine in their order, whatever happens
\* to other connections, for any number of them and of broadcasting goroutines
\* (server.go:102-128).
THEOREM HubNothingMissed == HubSpec => []NothingMissed
<1>1. HubInit => DeliveryInv
  BY DEF HubInit, DeliveryInv, NothingMissed
<1>2. HubInv /\ DeliveryInv /\ [HubNext]_hubVars => DeliveryInv'
  <2> SUFFICES ASSUME HubInv, DeliveryInv, [HubNext]_hubVars PROVE DeliveryInv'
    OBVIOUS
  <2>1. CASE HubNext
    BY <2>1, VisitStep, SentStep DEF DeliveryInv
  <2>2. CASE UNCHANGED hubVars
    BY <2>2 DEF hubVars, lockVars, wireVars, castVars, DeliveryInv, NothingMissed, Due, Ranging
  <2> QED BY <2>1, <2>2
<1>3. DeliveryInv => NothingMissed
  BY DEF DeliveryInv
<1> QED BY <1>1, <1>2, <1>3, HubInvariance, PTL DEF HubSpec

\* Nobody waits for ever for s.mu or for a connection's mutex, for any number of
\* connections and of broadcasting goroutines, and what has left the map is closed
\* (server.go:102-128, 375-425).
THEOREM HubNobodyStuck == HubSpec => []NobodyStuck
<1>1. HubInit => WaitInv
  BY ConnsAreProcs, CastersApart
     DEF HubInit, WaitInv, PlaceInv, HoldsInv, GoneInv, Ranging, CastPCs, ConnPCs
<1>2. HubInv /\ WaitInv /\ [HubNext]_hubVars => WaitInv'
  <2> SUFFICES ASSUME HubInv, WaitInv, [HubNext]_hubVars PROVE WaitInv'
    OBVIOUS
  <2>1. CASE HubNext
    BY <2>1, PlaceStep, HoldsStep, GoneStep DEF WaitInv
  <2>2. CASE UNCHANGED hubVars
    BY <2>2 DEF hubVars, lockVars, wireVars, castVars, WaitInv, PlaceInv, HoldsInv, GoneInv,
       Ranging
  <2> QED BY <2>1, <2>2
<1> QED BY <1>1, <1>2, NobodyWaits, HubInvariance, PTL DEF HubSpec
=============================================================================
