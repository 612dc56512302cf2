--------------------------- MODULE LuaCalls_proofs --------------------------
(***************************************************************************)
(* The invariants of calls, errors, yields and resumes of Lua 5.5, for any *)
(* threads, any limits and call stacks of any depth.                       *)
(*                                                                         *)
(* LuaCalls_steps has the inductive invariant IInv and a lemma about the   *)
(* fields of one thread for each step of ldo.c.  Here they are put         *)
(* together: who is active, and that the other threads are left alone.     *)
(* Then comes what the invariant says, the properties that TLC checks on   *)
(* small instances, and last that the machinery of ldo.c keeps the promise *)
(* of module Coroutines.                                                   *)
(***************************************************************************)
EXTENDS LuaCalls_steps, LoopTheorems

-----------------------------------------------------------------------------
(***************************************************************************)
(* The running thread: what is going on in it is the mode.                 *)
(***************************************************************************)
LEMMA RunningThread ==
  ASSUME IInv
  PROVE  /\ Len(active) \in Nat /\ Len(active) > 0 /\ Len(active) \in 1 .. Len(active)
         /\ T \in Threads /\ status[T] = "OK" /\ Role(T) = mode /\ mode \in Modes
         /\ ThreadOK(T, ci[T], jmp[T], nC[T], nny[T], base[T], errf[T], allow[T], mode)
         /\ ci[T] \in Seq(Frames) /\ jmp[T] \in Seq(Saved)
         /\ nC[T] \in Nat /\ nny[T] \in Nat /\ base[T] \in Nat /\ errf[T] \in Nat
         /\ allow[T] \in BOOLEAN
<1>1. /\ active \in Seq(Threads) /\ active # << >>
      /\ ci \in [Threads -> Seq(Frames)] /\ jmp \in [Threads -> Seq(Saved)]
      /\ nC \in [Threads -> Nat] /\ nny \in [Threads -> Nat] /\ base \in [Threads -> Nat]
      /\ errf \in [Threads -> Nat] /\ allow \in [Threads -> BOOLEAN]
      /\ mode \in Modes
  BY DEF IInv, TypeOK
<1>2. Len(active) \in Nat /\ Len(active) > 0 /\ Len(active) \in 1 .. Len(active)
  <2>1. Len(active) \in Nat /\ Len(active) # 0
    BY <1>1, LenProperties, EmptySeq
  <2> QED BY <2>1
<1>3. T \in Threads
  BY <1>1, <1>2, ElementOfSeq DEF T
<1>4. status[T] = "OK"
  BY <1>2 DEF IInv, ActiveOK, T
<1>5. Role(T) = mode
  BY <1>4 DEF Role
<1>6. ThreadOK(T, ci[T], jmp[T], nC[T], nny[T], base[T], errf[T], allow[T], mode)
  BY <1>3, <1>5 DEF IInv, ThreadInv
<1> QED BY <1>1, <1>2, <1>3, <1>4, <1>5, <1>6

(***************************************************************************)
(* What is going on in a thread has not changed if neither it, nor who is  *)
(* active, nor its status has.                                             *)
(***************************************************************************)
LEMMA SameThread ==
  ASSUME NEW t, ThreadInv(t), Role(t)' = Role(t),
         ci'[t] = ci[t], jmp'[t] = jmp[t], nC'[t] = nC[t], nny'[t] = nny[t],
         base'[t] = base[t], errf'[t] = errf[t], allow'[t] = allow[t]
  PROVE  ThreadInv(t)'
BY DEF ThreadInv

(***************************************************************************)
(* A step of the running thread on its own fields.                         *)
(***************************************************************************)
LEMMA OwnStep ==
  ASSUME IInv, NEW s, NEW j, NEW c, NEW y, NEW e, NEW a, NEW m \in Modes,
         ThreadOK(T, s, j, c, y, base[T], e, a, m),
         ci' = [ci EXCEPT ![T] = s], jmp' = [jmp EXCEPT ![T] = j],
         nC' = [nC EXCEPT ![T] = c], nny' = [nny EXCEPT ![T] = y],
         errf' = [errf EXCEPT ![T] = e], allow' = [allow EXCEPT ![T] = a],
         mode' = m, active' = active, status' = status, base' = base
  PROVE  IInv'
<1>1. /\ T \in Threads /\ status[T] = "OK" /\ mode \in Modes
  BY RunningThread
<1>2. TypeOK /\ ActiveOK /\ \A t \in Threads : ThreadInv(t)
  BY DEF IInv
<1>3. /\ s \in Seq(Frames) /\ j \in Seq(Saved) /\ c \in Nat /\ y \in Nat
      /\ e \in Nat /\ a \in BOOLEAN
  BY DEF ThreadOK, ThreadTypes
<1>4. T' = T
  BY DEF T
<1>5. TypeOK'
  BY <1>1, <1>2, <1>3 DEF TypeOK
<1>6. ActiveOK'
  BY <1>2 DEF ActiveOK
<1>7. /\ ci'[T] = s /\ jmp'[T] = j /\ nC'[T] = c /\ nny'[T] = y /\ errf'[T] = e
      /\ allow'[T] = a /\ base'[T] = base[T]
  BY <1>1, <1>2 DEF TypeOK
<1>8. \A t \in Threads \ {T} :
        /\ ci'[t] = ci[t] /\ jmp'[t] = jmp[t] /\ nC'[t] = nC[t] /\ nny'[t] = nny[t]
        /\ errf'[t] = errf[t] /\ allow'[t] = allow[t] /\ base'[t] = base[t]
  BY <1>1, <1>2 DEF TypeOK
<1>9. PICK u \in Threads : u = T
  BY <1>1
<1>10. ThreadInv(u)'
  <2>1. Role(u)' = m
    BY <1>1, <1>4, <1>9 DEF Role
  <2> QED BY <1>7, <1>9, <2>1 DEF ThreadInv
<1>11. \A t \in Threads \ {T} : ThreadInv(t)'
  <2> SUFFICES ASSUME NEW t \in Threads \ {T} PROVE ThreadInv(t)'
    OBVIOUS
  <2>1. Role(t)' = Role(t)
    BY <1>4 DEF Role, IsActive
  <2> QED BY <1>2, <1>8, <2>1, SameThread
<1>12. \A t \in Threads : ThreadInv(t)'
  BY <1>9, <1>10, <1>11
<1> QED BY <1>5, <1>6, <1>12 DEF IInv

(***************************************************************************)
(* lua_resume returns: the running thread is no longer active, and the     *)
(* function that resumed it goes on.                                       *)
(***************************************************************************)
LEMMA StepBack ==
  ASSUME IInv, T # Main,
         NEW s, NEW c, NEW y, NEW st \in {"OK", "YIELD", "ERR"},
         ThreadOK(T, s, jmp[T], c, y, base[T], errf[T], allow[T],
                  CASE st = "ERR" -> "err" [] st = "YIELD" -> "yield" [] st = "OK" -> "idle"),
         BackToResumer(s), status' = [status EXCEPT ![T] = st],
         nC' = [nC EXCEPT ![T] = c], nny' = [nny EXCEPT ![T] = y],
         jmp' = jmp, base' = base, errf' = errf, allow' = allow
  PROVE  IInv'
<1> DEFINE n == Len(active)
<1>1. TypeOK /\ ActiveOK /\ \A t \in Threads : ThreadInv(t)
  BY DEF IInv
<1>2. /\ n \in Nat /\ n > 0 /\ T \in Threads /\ status[T] = "OK"
      /\ active \in Seq(Threads)
  BY <1>1, RunningThread DEF TypeOK
<1>3. n > 1
  BY <1>1, <1>2 DEF ActiveOK, T
<1> HIDE DEF n
<1>4. PICK u \in Threads : u = T
  BY <1>2
<1>5. PICK r \in Threads : r = active[n - 1]
  <2>1. n - 1 \in 1 .. Len(active)
    BY <1>2, <1>3 DEF n
  <2> QED BY <1>2, <2>1, ElementOfSeq
<1>6. \A i \in 1 .. n - 1 : i \in 1 .. n /\ active[i] # u
  <2> SUFFICES ASSUME NEW i \in 1 .. n - 1 PROVE i \in 1 .. n /\ active[i] # u
    OBVIOUS
  <2>1. i \in 1 .. n /\ n \in 1 .. n /\ i # n
    BY <1>2
  <2> QED BY <1>1, <1>4, <2>1 DEF ActiveOK, T, n
<1>7. r # u /\ status[r] = "OK"
  BY <1>1, <1>2, <1>3, <1>5, <1>6 DEF ActiveOK, n
<1>8. /\ active' = Front(active)
      /\ ci' = [ci EXCEPT ![u] = s, ![r][Depth(r)] = Back(@)]
      /\ mode' = "run"
  BY <1>4, <1>5 DEF BackToResumer, n
<1>9. /\ active' \in Seq(Threads) /\ Len(active') = n - 1
      /\ \A i \in 1 .. n - 1 : active'[i] = active[i]
  <2>1. n - 1 \in 0 .. Len(active)
    BY <1>2, <1>3 DEF n
  <2>2. active' = SubSeq(active, 1, n - 1)
    BY <1>8 DEF Front, n
  <2> QED BY <1>2, <2>1, <2>2, CutIsPrefix
<1>10. T' = r
  BY <1>2, <1>3, <1>5, <1>9 DEF T
<1>11. /\ s \in Seq(Frames) /\ c \in Nat /\ y \in Nat
  BY DEF ThreadOK, ThreadTypes
<1>12. ThreadOK(r, ci[r], jmp[r], nC[r], nny[r], base[r], errf[r], allow[r], "wait")
  <2>1. IsActive(r)
    <3>1. n - 1 \in 1 .. Len(active)
      BY <1>2, <1>3 DEF n
    <3> QED BY <1>5, <3>1 DEF IsActive
  <2>2. Role(r) = "wait"
    BY <1>4, <1>7, <2>1 DEF Role
  <2> QED BY <1>1, <2>2 DEF ThreadInv
<1> DEFINE q == [ci[r] EXCEPT ![Depth(r)] = Back(@)]
<1>13. /\ q \in Seq(Frames)
       /\ ThreadOK(r, q, jmp[r], nC[r], nny[r], base[r], errf[r], allow[r], "run")
  <2>1. /\ ci[r] \in Seq(Frames) /\ Len(ci[r]) > 0
        /\ Shapes(ci[r], "wait")
    BY <1>12 DEF ThreadOK, ThreadTypes, StackOK, TopOK
  <2>2. Len(ci[r]) \in 1 .. Len(ci[r])
    BY <2>1, LenProperties
  <2>3. ci[r][Len(ci[r])] \in Frames /\ FrameShape(ci[r][Len(ci[r])])
    BY <2>1, <2>2, ElementOfSeq DEF Shapes
  <2> DEFINE g == Back(ci[r][Len(ci[r])])
  <2>4. g \in Frames /\ IsBack(g, ci[r][Len(ci[r])])
    BY <2>3, BackIsBack
  <2>5. q = [ci[r] EXCEPT ![Len(ci[r])] = g]
    BY DEF Depth
  <2> HIDE DEF q, g
  <2>6. NewTop(ci[r], q, Len(ci[r])) /\ q[Len(ci[r])] = g
    BY <2>1, <2>4, <2>5, ReplacedTop
  <2>7. q \in Seq(Frames)
    BY <2>6 DEF NewTop
  <2> QED BY <1>12, <2>4, <2>6, <2>7, BackInResumer
<1>14. ci' = [ci EXCEPT ![u] = s, ![r] = q]
  BY <1>1, <1>7, <1>8 DEF TypeOK
<1> HIDE DEF q
<1>15. TypeOK'
  <2>1. ci' \in [Threads -> Seq(Frames)]
    BY <1>1, <1>11, <1>13, <1>14 DEF TypeOK
  <2>2. active' # << >>
    BY <1>2, <1>3, <1>9, EmptySeq
  <2>3. status' \in [Threads -> {"OK", "YIELD", "ERR"}] /\ mode' \in Modes
    BY <1>1, <1>8 DEF TypeOK, Modes
  <2>4. nC' \in [Threads -> Nat] /\ nny' \in [Threads -> Nat]
    BY <1>1, <1>11 DEF TypeOK
  <2> QED BY <1>1, <1>9, <2>1, <2>2, <2>3, <2>4 DEF TypeOK
<1>16. /\ ci'[u] = s /\ nC'[u] = c /\ nny'[u] = y /\ status'[u] = st
       /\ ci'[r] = q /\ nC'[r] = nC[r] /\ nny'[r] = nny[r] /\ status'[r] = status[r]
  BY <1>1, <1>4, <1>7, <1>14 DEF TypeOK
<1>17. \A t \in Threads \ {u, r} :
         /\ ci'[t] = ci[t] /\ nC'[t] = nC[t] /\ nny'[t] = nny[t] /\ status'[t] = status[t]
  BY <1>1, <1>4, <1>14 DEF TypeOK
<1>18. ActiveOK'
  <2>1. active'[1] = Main
    <3>1. 1 \in 1 .. n - 1
      BY <1>2, <1>3
    <3>2. active[1] = Main
      BY <1>1 DEF ActiveOK
    <3> QED BY <1>9, <3>1, <3>2
  <2>2. \A i, k \in 1 .. n - 1 : active'[i] = active'[k] => i = k
    BY <1>1, <1>6, <1>9 DEF ActiveOK, n
  <2>3. \A i \in 1 .. n - 1 : status'[active'[i]] = "OK"
    <3> SUFFICES ASSUME NEW i \in 1 .. n - 1 PROVE status'[active[i]] = "OK"
      BY <1>9
    <3>1. i \in 1 .. Len(active) /\ active[i] # u
      BY <1>6 DEF n
    <3>2. active[i] \in Threads /\ status[active[i]] = "OK"
      BY <1>1, <1>2, <3>1, ElementOfSeq DEF ActiveOK
    <3> QED BY <1>16, <1>17, <3>1, <3>2
  <2> QED BY <1>9, <2>1, <2>2, <2>3 DEF ActiveOK
<1>19. ThreadInv(r)'
  <2>1. Role(r)' = "run"
    BY <1>7, <1>8, <1>10, <1>16 DEF Role
  <2> QED BY <1>13, <1>16, <2>1 DEF ThreadInv
<1>20. ThreadInv(u)'
  <2>1. ~IsActive(u)'
    BY <1>6, <1>9 DEF IsActive
  <2>2. Role(u)' = CASE st = "ERR" -> "err" [] st = "YIELD" -> "yield" [] st = "OK" -> "idle"
    BY <1>7, <1>10, <1>16, <2>1 DEF Role
  <2> QED BY <1>4, <1>16, <2>2 DEF ThreadInv
<1>21. \A t \in Threads \ {u, r} : ThreadInv(t)'
  <2> SUFFICES ASSUME NEW t \in Threads \ {u, r} PROVE ThreadInv(t)'
    OBVIOUS
  <2>1. IsActive(t)' <=> IsActive(t)
    <3>1. \A i \in 1 .. n : i \in 1 .. n - 1 \/ i = n
      BY <1>2
    <3>2. active[n] = u
      BY <1>4 DEF T, n
    <3> QED BY <1>6, <1>9, <3>1, <3>2 DEF IsActive, n
  <2>2. Role(t)' = Role(t)
    BY <1>4, <1>10, <1>17, <2>1 DEF Role
  <2> QED BY <1>1, <1>17, <2>2, SameThread
<1>22. \A t \in Threads : ThreadInv(t)'
  BY <1>19, <1>20, <1>21
<1> QED BY <1>15, <1>18, <1>22 DEF IInv

(***************************************************************************)
(* The function that resumes a coroutine waits for it.                     *)
(***************************************************************************)
LEMMA ResumerWaits ==
  ASSUME NEW t, NEW s, NEW j, NEW c, NEW y, NEW b, NEW e, NEW a,
         ThreadOK(t, s, j, c, y, b, e, a, "run"), Len(s) > 0,
         ~(s[Len(s)].fn = "Lua" /\ ~s[Len(s)].hook)
  PROVE  LET w == [s EXCEPT ![Len(s)].doing = "resume"]
         IN  w \in Seq(Frames) /\ ThreadOK(t, w, j, c, y, b, e, a, "wait")
<1> DEFINE l == Len(s)
           g == [s[Len(s)] EXCEPT !.doing = "resume"]
           w == [s EXCEPT ![Len(s)] = g]
<1>1. s \in Seq(Frames)
  BY DEF ThreadOK, ThreadTypes
<1>2. l \in 1 .. l
  BY <1>1, LenProperties
<1>3. /\ s[l] \in Frames /\ FrameShape(s[l]) /\ s[l].doing = "none"
      /\ ~(s[l].fn = "Lua" /\ ~s[l].hook)
  <2>1. s[l] \in Frames /\ FrameShape(s[l])
    BY <1>1, <1>2, ElementOfSeq DEF ThreadOK, StackOK, Shapes
  <2>2. s[l].doing = "none"
    BY DEF ThreadOK, StackOK, TopOK, Frame
  <2> QED BY <2>1, <2>2
<1> HIDE DEF l
<1>4. g = [s[l] EXCEPT !.doing = "resume"]
  BY DEF l
<1>5. Stopped(g, s[l]) /\ g.doing = "resume" /\ g.k = s[l].k
  <2> HIDE DEF g
  <2> QED BY <1>3, <1>4 DEF Stopped, Frames, Doing, Functions
<1> HIDE DEF g
<1>6. FrameShape(g)
  BY <1>3, <1>5 DEF FrameShape, Stopped, Frames, Functions
<1>7. NewTop(s, w, Len(s)) /\ w[Len(s)] = g
  <2>1. g \in Frames
    BY <1>5 DEF Stopped
  <2> QED BY <1>1, <2>1, ReplacedTop
<1> HIDE DEF w
<1>8. ThreadOK(t, w, j, c, y, b, e, a, "wait")
  BY <1>5, <1>6, <1>7, WaitsForCoroutine DEF l
<1>9. w \in Seq(Frames)
  BY <1>7 DEF NewTop
<1> QED BY <1>8, <1>9 DEF w, g

(***************************************************************************)
(* lua_resume of a coroutine u that is not active: it is the running       *)
(* thread now, and the function that resumed it waits.                     *)
(***************************************************************************)
LEMMA StepInto ==
  ASSUME IInv, Running, ~IsLuaCode(Top), NEW u \in Coroutines, Idle(u),
         NEW s, NEW c, NEW m \in Modes,
         ThreadOK(u, s, jmp[u], c, 0, c, errf[u], allow[u], m),
         NEW w, w = [ci[T] EXCEPT ![Depth(T)].doing = "resume"],
         ci' = [ci EXCEPT ![T] = w, ![u] = s],
         active' = Append(active, u), status' = [status EXCEPT ![u] = "OK"],
         nC' = [nC EXCEPT ![u] = c], nny' = [nny EXCEPT ![u] = 0],
         base' = [base EXCEPT ![u] = c], mode' = m,
         jmp' = jmp, errf' = errf, allow' = allow
  PROVE  IInv'
<1> DEFINE n == Len(active)
<1>1. TypeOK /\ ActiveOK /\ \A t \in Threads : ThreadInv(t)
  BY DEF IInv
<1>2. /\ n \in Nat /\ n > 0 /\ T \in Threads /\ status[T] = "OK"
      /\ active \in Seq(Threads) /\ u \in Threads
  BY <1>1, RunningThread DEF TypeOK, Threads
<1> HIDE DEF n
<1>3. PICK r \in Threads : r = T
  BY <1>2
<1>4. \A i \in 1 .. n : active[i] # u
  BY DEF Idle, n
<1>5. r = active[n] /\ r # u
  <2>1. n \in 1 .. n
    BY <1>2
  <2> QED BY <1>3, <1>4, <2>1 DEF T, n
<1>6. /\ active' \in Seq(Threads) /\ Len(active') = n + 1
      /\ \A i \in 1 .. n : active'[i] = active[i]
      /\ active'[n + 1] = u
  BY <1>2, AppendProperties DEF n
<1>7. T' = u
  BY <1>6 DEF T
<1>8. /\ s \in Seq(Frames) /\ c \in Nat
  BY DEF ThreadOK, ThreadTypes
<1>9. /\ w \in Seq(Frames)
      /\ ThreadOK(r, w, jmp[r], nC[r], nny[r], base[r], errf[r], allow[r], "wait")
  <2> DEFINE p == ci[r]
             v == [p EXCEPT ![Len(p)].doing = "resume"]
  <2>1. ThreadOK(r, p, jmp[r], nC[r], nny[r], base[r], errf[r], allow[r], "run")
    BY <1>3, RunningThread DEF Running
  <2>2. Len(p) > 0 /\ ~(p[Len(p)].fn = "Lua" /\ ~p[Len(p)].hook)
    BY <1>3 DEF Running, Depth, IsLuaCode, Top
  <2>3. w = v
    BY <1>3 DEF Depth
  <2>4. /\ v \in Seq(Frames)
        /\ ThreadOK(r, v, jmp[r], nC[r], nny[r], base[r], errf[r], allow[r], "wait")
    <3> HIDE DEF p
    <3> QED BY <2>1, <2>2, ResumerWaits
  <2> HIDE DEF v
  <2> QED BY <2>3, <2>4
<1>10. ci' = [ci EXCEPT ![u] = s, ![r] = w]
  BY <1>1, <1>3, <1>5 DEF TypeOK
<1>11. TypeOK'
  <2>1. ci' \in [Threads -> Seq(Frames)]
    BY <1>1, <1>8, <1>9, <1>10 DEF TypeOK
  <2>2. active' # << >>
    BY <1>2, <1>6, EmptySeq
  <2>3. status' \in [Threads -> {"OK", "YIELD", "ERR"}] /\ mode' \in Modes
    BY <1>1 DEF TypeOK
  <2>4. nC' \in [Threads -> Nat] /\ nny' \in [Threads -> Nat] /\ base' \in [Threads -> Nat]
    BY <1>1, <1>8 DEF TypeOK
  <2> QED BY <1>1, <1>6, <2>1, <2>2, <2>3, <2>4 DEF TypeOK
<1>12. /\ ci'[u] = s /\ nC'[u] = c /\ nny'[u] = 0 /\ base'[u] = c /\ status'[u] = "OK"
       /\ ci'[r] = w /\ nC'[r] = nC[r] /\ nny'[r] = nny[r] /\ base'[r] = base[r]
       /\ status'[r] = "OK"
  BY <1>1, <1>2, <1>3, <1>5, <1>10 DEF TypeOK
<1>13. \A t \in Threads \ {u, r} :
         /\ ci'[t] = ci[t] /\ nC'[t] = nC[t] /\ nny'[t] = nny[t] /\ base'[t] = base[t]
         /\ status'[t] = status[t]
  BY <1>1, <1>2, <1>10 DEF TypeOK
<1>14. \A i \in 1 .. n + 1 : i \in 1 .. n \/ i = n + 1
  BY <1>2
<1>15. ActiveOK'
  <2>1. active'[1] = Main
    BY <1>1, <1>2, <1>6 DEF ActiveOK
  <2>2. \A i, k \in 1 .. n + 1 : active'[i] = active'[k] => i = k
    BY <1>1, <1>4, <1>6, <1>14 DEF ActiveOK, n
  <2>3. \A i \in 1 .. n : status'[active[i]] = "OK"
    <3> SUFFICES ASSUME NEW i \in 1 .. n PROVE status'[active[i]] = "OK"
      OBVIOUS
    <3>1. active[i] \in Threads /\ status[active[i]] = "OK" /\ active[i] # u
      BY <1>1, <1>2, <1>4, ElementOfSeq DEF ActiveOK, n
    <3> QED BY <1>12, <1>13, <3>1
  <2>4. \A i \in 1 .. n + 1 : status'[active'[i]] = "OK"
    BY <1>6, <1>12, <1>14, <2>3
  <2> QED BY <1>6, <2>1, <2>2, <2>4 DEF ActiveOK
<1>16. ThreadInv(u)'
  <2>1. Role(u)' = m
    BY <1>7, <1>12 DEF Role
  <2> QED BY <1>12, <2>1 DEF ThreadInv
<1>17. ThreadInv(r)'
  <2>1. IsActive(r)'
    <3>1. n \in 1 .. n + 1 /\ n \in 1 .. n
      BY <1>2
    <3> QED BY <1>5, <1>6, <3>1 DEF IsActive
  <2>2. Role(r)' = "wait"
    BY <1>5, <1>7, <1>12, <2>1 DEF Role
  <2> QED BY <1>9, <1>12, <2>2 DEF ThreadInv
<1>18. \A t \in Threads \ {u, r} : ThreadInv(t)'
  <2> SUFFICES ASSUME NEW t \in Threads \ {u, r} PROVE ThreadInv(t)'
    OBVIOUS
  <2>1. IsActive(t)' <=> IsActive(t)
    <3>1. \A i \in 1 .. n : i \in 1 .. n + 1
      BY <1>2
    <3> QED BY <1>6, <1>14, <3>1 DEF IsActive, n
  <2>2. Role(t)' = Role(t)
    BY <1>3, <1>7, <1>13, <2>1 DEF Role
  <2> QED BY <1>1, <1>13, <2>2, SameThread
<1>19. \A t \in Threads : ThreadInv(t)'
  BY <1>16, <1>17, <1>18
<1> QED BY <1>11, <1>15, <1>19 DEF IInv

-----------------------------------------------------------------------------
(***************************************************************************)
(* The last CallInfo of the running thread.                                *)
(***************************************************************************)
LEMMA TopFrame ==
  ASSUME IInv, Depth(T) > 0
  PROVE  /\ Depth(T) \in 1 .. Depth(T) /\ Depth(T) \in Nat /\ Depth(T) = Len(ci[T])
         /\ Top \in Frames /\ Top = Frame(ci[T])
<1>1. ci[T] \in Seq(Frames)
  BY RunningThread
<1>2. Depth(T) = Len(ci[T]) /\ Depth(T) \in 1 .. Depth(T) /\ Depth(T) \in Nat
  BY <1>1, LenProperties DEF Depth
<1>3. Top \in Frames
  BY <1>1, <1>2, ElementOfSeq DEF Top
<1> QED BY <1>2, <1>3 DEF Top, Frame

(***************************************************************************)
(* The function that runs: live, in its own code, with no error of its     *)
(* own.                                                                    *)
(***************************************************************************)
LEMMA RunningTop ==
  ASSUME IInv, Running
  PROVE  /\ Depth(T) > 0 /\ Top \in Frames /\ Top = Frame(ci[T]) /\ FrameShape(Top)
         /\ Top.live /\ Top.doing = "none" /\ ~Top.msgh /\ ~Top.recst /\ ~Top.ypcall
         /\ ThreadOK(T, ci[T], jmp[T], nC[T], nny[T], base[T], errf[T], allow[T], "run")
         /\ ThreadTypes(ci[T], jmp[T], nC[T], nny[T], base[T], errf[T], allow[T])
         /\ StackOK(T, ci[T], jmp[T], nC[T], nny[T], base[T], errf[T], allow[T], "run")
         /\ Bounded(nC[T], base[T], "run")
<1>1. Depth(T) > 0 /\ mode = "run"
  BY DEF Running
<1>2. Top \in Frames /\ Top = Frame(ci[T]) /\ Depth(T) = Len(ci[T])
  BY <1>1, TopFrame
<1>3. ThreadOK(T, ci[T], jmp[T], nC[T], nny[T], base[T], errf[T], allow[T], "run")
  BY <1>1, RunningThread
<1>4. /\ ThreadTypes(ci[T], jmp[T], nC[T], nny[T], base[T], errf[T], allow[T])
      /\ StackOK(T, ci[T], jmp[T], nC[T], nny[T], base[T], errf[T], allow[T], "run")
      /\ Bounded(nC[T], base[T], "run")
  BY <1>3 DEF ThreadOK
<1>5. /\ FrameShape(Top) /\ Top.live /\ Top.doing = "none" /\ ~Top.msgh /\ ~Top.recst
  BY <1>1, <1>2, <1>4, RunFacts
<1>6. ~Top.ypcall
  BY <1>5 DEF FrameShape
<1> QED BY <1>1, <1>2, <1>3, <1>4, <1>5, <1>6

(***************************************************************************)
(* A change of the running thread's last CallInfo, as a change of ci.      *)
(***************************************************************************)
LEMMA OwnTop ==
  ASSUME IInv, Depth(T) > 0, NEW f \in Frames
  PROVE  LET r == [ci[T] EXCEPT ![Depth(T)] = f]
         IN  /\ SetTop(f) = [ci EXCEPT ![T] = r]
             /\ NewTop(ci[T], r, Len(ci[T])) /\ r[Len(ci[T])] = f
             /\ r \in Seq(Frames) /\ Len(r) = Len(ci[T]) /\ Frame(r) = f
<1>1. ci[T] \in Seq(Frames) /\ T \in Threads /\ Len(ci[T]) > 0
  BY RunningThread DEF Depth
<1> DEFINE p == ci[T]
           r == [ci[T] EXCEPT ![Depth(T)] = f]
           q == [p EXCEPT ![Len(p)] = f]
<1>2. r = q
  BY DEF Depth
<1>3. NewTop(p, q, Len(p)) /\ q[Len(p)] = f /\ Frame(q) = f
  <2>1. p \in Seq(Frames) /\ Len(p) > 0
    BY <1>1
  <2> HIDE DEF p
  <2> QED BY <2>1, ReplacedTop
<1>4. q \in Seq(Frames) /\ Len(q) = Len(p)
  <2> HIDE DEF q, p
  <2> QED BY <1>3 DEF NewTop
<1>5. SetTop(f) = [ci EXCEPT ![T] = r]
  BY DEF SetTop
<1> QED BY <1>2, <1>3, <1>4, <1>5

\* What lua_callk, lua_pcallk and luaG_errormsg do before they call.
Prepares(j, e) ==
  /\ jmp' = [jmp EXCEPT ![T] = j] /\ errf' = [errf EXCEPT ![T] = e]
  /\ UNCHANGED << active, status, base, allow >>

\* What the increment of ccall makes of the counts of the running thread.
Incremented(calls, ny, c, y) == c = nC[T] + calls /\ y = nny[T] + ny

(***************************************************************************)
(* Enter: the CallInfo of the caller is f now, and its thread with it is   *)
(* as when an error is raised in it.                                       *)
(***************************************************************************)
LEMMA EnterStep ==
  ASSUME IInv, Depth(T) > 0, NEW f \in Frames, Waits(f),
         NEW fn \in Functions, NEW calls \in {0, 1}, NEW ny \in {0, 1},
         Enter(f, fn, calls, ny),
         NEW c, NEW y, Incremented(calls, ny, c, y), NEW j, NEW e,
         NEW r, r = [ci[T] EXCEPT ![Depth(T)] = f],
         ThreadTypes(r, j, c, y, base[T], e, allow[T]),
         StackOK(T, r, j, c, y, base[T], e, allow[T], "raise"),
         nC[T] < ErrCcalls, base[T] < ErrCcalls,
         Prepares(j, e)
  PROVE  IInv'
<1> DEFINE b == base[T]
           a == allow[T]
           g == NewFrame(fn, calls = 1)
           q == Append(r, g)
<1>1. /\ T \in Threads /\ nC[T] \in Nat /\ b \in Nat /\ c \in Nat
      /\ ci[T] \in Seq(Frames) /\ Len(ci[T]) > 0
  BY RunningThread, SMTT(30) DEF Depth, Incremented
<1>2. /\ SetTop(f) = [ci EXCEPT ![T] = r]
      /\ r \in Seq(Frames) /\ Len(r) = Len(ci[T]) /\ Frame(r) = f
  BY OwnTop
<1>3. c <= ErrCcalls /\ c = nC[T] + calls /\ y = nny[T] + ny
  BY <1>1, LimitAssumption DEF Incremented
<1>4. /\ g \in Frames /\ g.fn = fn /\ g.doing = "none" /\ ~g.msgh
      /\ g.live /\ ~g.k /\ ~g.ypcall /\ ~g.recst /\ ~g.hook
  BY NewFrameFields
<1>5. /\ nC' = [nC EXCEPT ![T] = c] /\ nny' = [nny EXCEPT ![T] = y]
      /\ allow' = [allow EXCEPT ![T] = a]
      /\ jmp' = [jmp EXCEPT ![T] = j] /\ errf' = [errf EXCEPT ![T] = e]
      /\ active' = active /\ status' = status /\ base' = base
  BY <1>3 DEF Enter, Prepares, IInv, TypeOK
<1>6. \/ calls = 1 /\ c = MaxCcalls /\ ci' = [ci EXCEPT ![T] = r] /\ mode' = "raise"
      \/ ci' = [ci EXCEPT ![T] = r] /\ mode' = "throw"
      \/ /\ ~(calls = 1 /\ c >= ErrCcalls)
         /\ ci' = [ci EXCEPT ![T] = q] /\ mode' = "run"
  BY <1>2, <1>3 DEF Enter
<1>7. /\ ThreadTypes(r, j, c, y, b, e, a)
      /\ StackOK(T, r, j, c, y, b, e, a, "raise")
      /\ b < ErrCcalls
  OBVIOUS
<1>8. ~(calls = 1 /\ c >= ErrCcalls) => c < ErrCcalls
  BY <1>1, <1>3, LimitAssumption
<1> HIDE DEF b, a, g, q
<1>9. CASE c = MaxCcalls /\ ci' = [ci EXCEPT ![T] = r] /\ mode' = "raise"
  <2>1. Bounded(c, b, "raise")
    BY <1>1, <1>3, <1>7, <1>9, LimitAssumption DEF Bounded
  <2>2. ThreadOK(T, r, j, c, y, b, e, a, "raise")
    BY <1>7, <2>1 DEF ThreadOK
  <2>3. "raise" \in Modes
    BY DEF Modes
  <2> QED BY <1>5, <1>9, <2>2, <2>3, OwnStep DEF b
<1>10. CASE ci' = [ci EXCEPT ![T] = r] /\ mode' = "throw"
  <2>1. ThreadOK(T, r, j, c, y, b, e, a, "throw")
    BY <1>3, <1>7, Throws
  <2>2. "throw" \in Modes
    BY DEF Modes
  <2> QED BY <1>5, <1>10, <2>1, <2>2, OwnStep DEF b
<1>11. CASE c < ErrCcalls /\ ci' = [ci EXCEPT ![T] = q] /\ mode' = "run"
  <2>1. FrameShape(g)
    BY <1>4 DEF FrameShape
  <2>2. NewTop(r, q, Len(r) + 1) /\ q[Len(r) + 1] = g /\ Frame(q) = g
    BY <1>2, <1>4, PushedTop DEF q
  <2>3. ThreadOK(T, q, j, c, y, b, e, a, "run")
    BY <1>1, <1>2, <1>4, <1>7, <1>11, <2>1, <2>2, Pushed
  <2>4. "run" \in Modes
    BY DEF Modes
  <2> QED BY <1>5, <1>11, <2>3, <2>4, OwnStep DEF b
<1> QED BY <1>6, <1>8, <1>9, <1>10, <1>11

(***************************************************************************)
(* The running function calls another one, in the way f.doing: lua_callk,  *)
(* lua_pcallk, OP_CALL or a call by the interpreter.                       *)
(***************************************************************************)
LEMMA BusyTop ==
  ASSUME IInv, Running,
         NEW f \in Frames, FrameShape(f), f.live, ~f.msgh, ~f.recst,
         f.fn = Top.fn, f.hook = Top.hook, f.doing \in Pending,
         T = Main => f.doing = "pcall" \/ Depth(T) > 1,
         f.ypcall => nny[T] = 0 /\ f.olderr = errf[T] /\ f.oah = allow[T],
         NEW c2, NEW y2, NEW j2, NEW e2,
         Calls(f, ci[T], jmp[T], nC[T], nny[T], errf[T], allow[T], j2, c2, y2, e2),
         NEW r, NewTop(ci[T], r, Len(ci[T])), r[Len(ci[T])] = f
  PROVE  /\ ThreadTypes(r, j2, c2, y2, base[T], e2, allow[T])
         /\ StackOK(T, r, j2, c2, y2, base[T], e2, allow[T], "raise")
         /\ nC[T] < ErrCcalls /\ base[T] < ErrCcalls /\ Waits(f)
<1> DEFINE s == ci[T]
           c == nC[T]
           y == nny[T]
           b == base[T]
           a == allow[T]
           j == jmp[T]
           e == errf[T]
           n == Len(ci[T])
           t == T
<1>1. /\ Depth(T) > 0 /\ Top = Frame(s) /\ Depth(T) = Len(s) /\ Len(s) > 0
      /\ ThreadTypes(s, j, c, y, b, e, a)
      /\ StackOK(t, s, j, c, y, b, e, a, "run")
      /\ Bounded(c, b, "run")
  BY RunningTop DEF Depth
<1>2. NewTop(s, r, n) /\ r[n] = f /\ n = Len(s)
  OBVIOUS
<1>3. /\ f.fn = Frame(s).fn /\ f.hook = Frame(s).hook
      /\ t = Main => f.doing = "pcall" \/ Len(s) > 1
      /\ f.ypcall => y = 0 /\ f.olderr = e /\ f.oah = a
  BY <1>1 DEF Depth
<1>4. Calls(f, s, j, c, y, e, a, j2, c2, y2, e2)
  OBVIOUS
<1>5. /\ ThreadTypes(r, j2, c2, y2, b, e2, a)
      /\ StackOK(t, r, j2, c2, y2, b, e2, a, "raise")
  <2> HIDE DEF s, c, y, b, a, j, e, n, t
  <2> QED BY <1>1, <1>2, <1>3, <1>4, Busy, SMTT(60)
<1>6. nC[T] < ErrCcalls /\ base[T] < ErrCcalls
  BY <1>1 DEF Bounded
<1>7. Waits(f)
  BY DEF Waits
<1> QED BY <1>5, <1>6, <1>7

(***************************************************************************)
(* A running function makes a call of some kind: the counts go up, the     *)
(* call is entered or the overflow of the C stack is raised.               *)
(***************************************************************************)
LEMMA BusyEnter ==
  ASSUME IInv, Running,
         NEW f \in Frames, FrameShape(f), f.live, ~f.msgh, ~f.recst,
         f.fn = Top.fn, f.hook = Top.hook, f.doing \in Pending,
         T = Main => f.doing = "pcall" \/ Depth(T) > 1,
         f.ypcall => nny[T] = 0 /\ f.olderr = errf[T] /\ f.oah = allow[T],
         NEW fn \in Functions, NEW calls \in {0, 1}, NEW ny \in {0, 1},
         Enter(f, fn, calls, ny), NEW j2, NEW e2,
         NEW c2, NEW y2, Incremented(calls, ny, c2, y2),
         Calls(f, ci[T], jmp[T], nC[T], nny[T], errf[T], allow[T], j2, c2, y2, e2),
         Prepares(j2, e2)
  PROVE  IInv'
<1> DEFINE r == [ci[T] EXCEPT ![Depth(T)] = f]
<1>1. Depth(T) > 0
  BY DEF Running
<1>2. NewTop(ci[T], r, Len(ci[T])) /\ r[Len(ci[T])] = f
  BY <1>1, OwnTop
<1>3. r = [ci[T] EXCEPT ![Depth(T)] = f]
  OBVIOUS
<1> HIDE DEF r
<1>4. /\ ThreadTypes(r, j2, c2, y2, base[T], e2, allow[T])
      /\ StackOK(T, r, j2, c2, y2, base[T], e2, allow[T], "raise")
      /\ nC[T] < ErrCcalls /\ base[T] < ErrCcalls /\ Waits(f)
  BY <1>2, BusyTop
<1> QED BY <1>1, <1>3, <1>4, EnterStep, SMTT(60)

(***************************************************************************)
(* OP_CALL and the calls by the interpreter keep the invariant.            *)
(***************************************************************************)
LEMMA LuaCallStep ==
  ASSUME IInv, LuaCall
  PROVE  IInv'
<1>1. /\ Running /\ IsLuaCode(Top)
      /\ UNCHANGED << active, status, base, errf, allow, jmp >>
  BY DEF LuaCall
<1>2. PICK fn \in Functions, tm \in BOOLEAN :
        Enter([Top EXCEPT !.doing = IF tm THEN "tm" ELSE "op"], fn,
              IF tm THEN 1 ELSE 0, 0)
  BY DEF LuaCall
<1>3. /\ Top \in Frames /\ FrameShape(Top) /\ Top.live /\ ~Top.msgh /\ ~Top.recst
      /\ ~Top.ypcall /\ ThreadTypes(ci[T], jmp[T], nC[T], nny[T], base[T], errf[T], allow[T])
      /\ MainOK(T, ci[T], "run") /\ Depth(T) > 0 /\ Depth(T) = Len(ci[T])
      /\ Top = Frame(ci[T])
  BY <1>1, RunningTop DEF StackOK, Depth
<1>4. T = Main => Depth(T) > 1
  <2>1. Depth(T) \in Nat /\ Depth(T) > 0
    BY <1>3, TopFrame
  <2> SUFFICES ASSUME T = Main, Depth(T) = 1 PROVE FALSE
    BY <2>1
  <2> QED BY <1>1, <1>3 DEF MainOK, IsLuaCode, Frame
<1> DEFINE d == IF tm THEN "tm" ELSE "op"
           calls == IF tm THEN 1 ELSE 0
           g == Top
           f == [g EXCEPT !.doing = d]
<1>5. /\ d \in {"tm", "op"} /\ calls \in {0, 1}
      /\ calls = IF d \in CDoing THEN 1 ELSE 0
      /\ d \notin Held /\ d \notin Protected /\ d \in Pending /\ d \in Doing
      /\ d \notin {"pcall", "pcallk"}
  BY DEF CDoing, Held, Protected, Pending, Doing
<1>6. Enter(f, fn, calls, 0) /\ g = Top /\ g \in Frames /\ FrameShape(g) /\ IsLuaCode(g)
  BY <1>1, <1>2, <1>3
<1> HIDE DEF d, calls, g
<1>7. /\ f \in Frames /\ f.doing = d /\ f.fn = Top.fn /\ f.hook = Top.hook
      /\ f.live /\ ~f.msgh /\ ~f.recst /\ ~f.ypcall
  BY <1>3, <1>5, <1>6 DEF Frames
<1>8. FrameShape(f)
  BY <1>5, <1>6 DEF FrameShape, IsLuaCode, Frames
<1> HIDE DEF f
<1>9. /\ Calls(f, ci[T], jmp[T], nC[T], nny[T], errf[T], allow[T],
              jmp[T], nC[T] + calls, nny[T] + 0, errf[T])
      /\ Incremented(calls, 0, nC[T] + calls, nny[T] + 0)
  BY <1>3, <1>5, <1>7 DEF Calls, Incremented, ThreadTypes
<1>10. Prepares(jmp[T], errf[T])
  BY <1>1 DEF Prepares, IInv, TypeOK
<1>11. f.doing \in Pending /\ 0 \in {0, 1}
  BY <1>5, <1>7
<1> DEFINE c2 == nC[T] + calls
           y2 == nny[T] + 0
<1> HIDE DEF c2, y2
<1>12. /\ Calls(f, ci[T], jmp[T], nC[T], nny[T], errf[T], allow[T], jmp[T], c2, y2, errf[T])
       /\ Incremented(calls, 0, c2, y2)
  BY <1>9 DEF c2, y2
<1> QED BY <1>1, <1>4, <1>5, <1>6, <1>7, <1>8, <1>10, <1>11, <1>12, BusyEnter

(***************************************************************************)
(* lua_callk keeps the invariant.                                          *)
(***************************************************************************)
LEMMA CallKStep ==
  ASSUME IInv, CallK
  PROVE  IInv'
<1>1. /\ Running /\ ~IsLuaCode(Top) /\ (T = Main => Depth(T) > 1)
      /\ UNCHANGED << active, status, base, errf, allow, jmp >>
  BY DEF CallK
<1>2. PICK fn \in Functions, k \in BOOLEAN :
        /\ k => Top.fn = "C"
        /\ IF k /\ Yieldable
           THEN Enter([Top EXCEPT !.doing = "callk", !.k = TRUE], fn, 1, 0)
           ELSE Enter([Top EXCEPT !.doing = "call"], fn, 1, 1)
  BY DEF CallK
<1>3. /\ Top \in Frames /\ FrameShape(Top) /\ Top.live /\ ~Top.msgh /\ ~Top.recst
      /\ ~Top.ypcall
      /\ nC[T] \in Nat /\ nny[T] \in Nat /\ errf[T] \in Nat
  BY <1>1, RunningTop DEF ThreadTypes
<1> DEFINE g == Top
           f == [g EXCEPT !.doing = "callk", !.k = TRUE]
           h == [g EXCEPT !.doing = "call"]
           c2 == nC[T] + 1
           y1 == nny[T] + 0
           y2 == nny[T] + 1
<1>4. Prepares(jmp[T], errf[T])
  BY <1>1 DEF Prepares, IInv, TypeOK
<1>5. /\ Incremented(1, 0, c2, y1) /\ Incremented(1, 1, c2, y2)
      /\ 0 \in {0, 1} /\ 1 \in {0, 1}
  BY DEF Incremented
<1>6. /\ k => g.fn = "C"
      /\ g = Top /\ g \in Frames /\ FrameShape(g) /\ ~IsLuaCode(g)
      /\ g.live /\ ~g.msgh /\ ~g.recst /\ ~g.ypcall
  BY <1>1, <1>2, <1>3
<1>7. IF k /\ Yieldable THEN Enter(f, fn, 1, 0) ELSE Enter(h, fn, 1, 1)
  BY <1>2
<1> HIDE DEF g
<1>8. CASE k /\ Yieldable
  <2>1. /\ f \in Frames /\ f.doing = "callk" /\ f.fn = Top.fn /\ f.hook = Top.hook
        /\ f.live /\ ~f.msgh /\ ~f.recst /\ ~f.ypcall /\ f.k /\ f.fn = "C"
    BY <1>6, <1>8 DEF Frames, Doing
  <2>2. Enter(f, fn, 1, 0)
    BY <1>7, <1>8
  <2> HIDE DEF f
  <2>3. FrameShape(f) /\ f.doing \in Pending
    BY <1>6, <2>1 DEF FrameShape, Frames, Pending
  <2>4. Calls(f, ci[T], jmp[T], nC[T], nny[T], errf[T], allow[T],
              jmp[T], c2, y1, errf[T])
    BY <1>3, <2>1 DEF Calls, CDoing, Held, Protected
  <2> HIDE DEF c2, y1
  <2> QED BY <1>1, <1>4, <1>5, <2>1, <2>2, <2>3, <2>4, BusyEnter
<1>9. CASE ~(k /\ Yieldable)
  <2>1. /\ h \in Frames /\ h.doing = "call" /\ h.fn = Top.fn /\ h.hook = Top.hook
        /\ h.live /\ ~h.msgh /\ ~h.recst /\ ~h.ypcall
    BY <1>6 DEF Frames, Doing
  <2>2. Enter(h, fn, 1, 1)
    BY <1>7, <1>9
  <2> HIDE DEF h
  <2>3. FrameShape(h) /\ h.doing \in Pending
    BY <1>6, <2>1 DEF FrameShape, Frames, Pending, IsLuaCode, Functions
  <2>4. Calls(h, ci[T], jmp[T], nC[T], nny[T], errf[T], allow[T],
              jmp[T], c2, y2, errf[T])
    BY <1>3, <2>1 DEF Calls, CDoing, Held, Protected
  <2> HIDE DEF c2, y2
  <2> QED BY <1>1, <1>4, <1>5, <2>1, <2>2, <2>3, <2>4, BusyEnter
<1> QED BY <1>8, <1>9

(***************************************************************************)
(* lua_pcallk keeps the invariant: what it saves, in a longjmp buffer or   *)
(* in its CallInfo, is what holds below it.                                *)
(***************************************************************************)
LEMMA PCallKStep ==
  ASSUME IInv, PCallK
  PROVE  IInv'
<1> DEFINE Hd(m) == IF m THEN Depth(T) ELSE 0
           saved == [lvl |-> Depth(T), nC |-> nC[T], nny |-> nny[T],
                     oah |-> allow[T], errf |-> errf[T]]
<1>1. PICK fn \in Functions, k \in BOOLEAN, msgh \in Handlers :
        /\ Running /\ ~IsLuaCode(Top)
        /\ k => Top.fn = "C"
        /\ IF k /\ Yieldable
           THEN /\ Enter([Top EXCEPT !.doing = "pcallk", !.k = TRUE,
                                     !.ypcall = TRUE, !.oah = allow[T],
                                     !.olderr = errf[T], !.handler = Hd(msgh)], fn, 1, 0)
                /\ UNCHANGED jmp
           ELSE /\ Enter([Top EXCEPT !.doing = "pcall", !.handler = Hd(msgh)], fn, 1, 1)
                /\ jmp' = [jmp EXCEPT ![T] = Append(@, saved)]
        /\ errf' = [errf EXCEPT ![T] = Hd(msgh)]
        /\ UNCHANGED << active, status, base, allow >>
  BY DEF PCallK
<1>2. /\ Top \in Frames /\ FrameShape(Top) /\ Top.live /\ ~Top.msgh /\ ~Top.recst
      /\ ~Top.ypcall /\ T \in Threads
      /\ nC[T] \in Nat /\ nny[T] \in Nat /\ errf[T] \in Nat /\ allow[T] \in BOOLEAN
  BY <1>1, RunningTop, RunningThread
<1>3. saved = Buffer(ci[T], nC[T], nny[T], errf[T], allow[T])
  BY DEF Buffer, Depth
<1> DEFINE g == Top
           hd == Hd(msgh)
           f == [g EXCEPT !.doing = "pcallk", !.k = TRUE, !.ypcall = TRUE,
                          !.oah = allow[T], !.olderr = errf[T], !.handler = hd]
           h == [g EXCEPT !.doing = "pcall", !.handler = hd]
           j2 == Append(jmp[T], saved)
           c2 == nC[T] + 1
           y1 == nny[T] + 0
           y2 == nny[T] + 1
<1>4. hd \in Nat
  BY <1>1, TopFrame DEF Running
<1>5. /\ Incremented(1, 0, c2, y1) /\ Incremented(1, 1, c2, y2)
      /\ 0 \in {0, 1} /\ 1 \in {0, 1}
  BY DEF Incremented
<1>6. /\ k => g.fn = "C"
      /\ g = Top /\ g \in Frames /\ FrameShape(g) /\ ~IsLuaCode(g)
      /\ g.live /\ ~g.msgh /\ ~g.recst /\ ~g.ypcall
  BY <1>1, <1>2
<1>7. IF k /\ Yieldable THEN Enter(f, fn, 1, 0) /\ UNCHANGED jmp
      ELSE Enter(h, fn, 1, 1) /\ jmp' = [jmp EXCEPT ![T] = j2]
  BY <1>1, <1>2 DEF IInv, TypeOK
<1>8. errf' = [errf EXCEPT ![T] = hd] /\ UNCHANGED << active, status, base, allow >>
  BY <1>1
<1>9. Running
  BY <1>1
<1> HIDE DEF g, hd, Hd
<1>10. CASE k /\ Yieldable
  <2>1. /\ f \in Frames /\ f.doing = "pcallk" /\ f.fn = Top.fn /\ f.hook = Top.hook
        /\ f.live /\ ~f.msgh /\ ~f.recst /\ f.ypcall /\ f.k /\ f.fn = "C"
        /\ f.oah = allow[T] /\ f.olderr = errf[T] /\ f.handler = hd
    BY <1>2, <1>4, <1>6, <1>10 DEF Frames, Doing
  <2>2. Enter(f, fn, 1, 0) /\ jmp' = jmp
    BY <1>7, <1>10
  <2> HIDE DEF f
  <2>3. FrameShape(f) /\ f.doing \in Pending
    BY <1>6, <2>1 DEF FrameShape, Frames, Pending
  <2>4. Calls(f, ci[T], jmp[T], nC[T], nny[T], errf[T], allow[T], jmp[T], c2, y1, hd)
    BY <1>2, <2>1 DEF Calls, CDoing, Held, Protected
  <2>5. Prepares(jmp[T], hd)
    BY <1>8, <2>2 DEF Prepares, IInv, TypeOK
  <2>6. nny[T] = 0 /\ T # Main
    <3>1. nny[T] = 0
      BY <1>10 DEF Yieldable
    <3>2. nny[T] >= One(T)
      BY <1>2, <1>9, RunningTop, RunFacts DEF Depth
    <3> QED BY <3>1, <3>2 DEF One
  <2> HIDE DEF c2, y1
  <2> QED BY <1>5, <1>9, <2>1, <2>2, <2>3, <2>4, <2>5, <2>6, BusyEnter
<1>11. CASE ~(k /\ Yieldable)
  <2>1. /\ h \in Frames /\ h.doing = "pcall" /\ h.fn = Top.fn /\ h.hook = Top.hook
        /\ h.live /\ ~h.msgh /\ ~h.recst /\ ~h.ypcall /\ h.handler = hd
    BY <1>4, <1>6 DEF Frames, Doing
  <2>2. Enter(h, fn, 1, 1) /\ jmp' = [jmp EXCEPT ![T] = j2]
    BY <1>7, <1>11
  <2> HIDE DEF h
  <2>3. FrameShape(h) /\ h.doing \in Pending
    BY <1>6, <2>1 DEF FrameShape, Frames, Pending, IsLuaCode, Functions
  <2>4. Calls(h, ci[T], jmp[T], nC[T], nny[T], errf[T], allow[T], j2, c2, y2, hd)
    BY <1>2, <1>3, <2>1 DEF Calls, CDoing, Held, Protected
  <2> HIDE DEF j2
  <2>5. Prepares(j2, hd)
    BY <1>8, <2>2 DEF Prepares
  <2> HIDE DEF c2, y2
  <2> QED BY <1>5, <1>9, <2>1, <2>2, <2>3, <2>4, <2>5, BusyEnter
<1> QED BY <1>10, <1>11

-----------------------------------------------------------------------------
(***************************************************************************)
(* The CallInfos of the running thread up to n, and f the last of them.    *)
(***************************************************************************)
LEMMA CutTop ==
  ASSUME IInv, NEW n \in 1 .. Depth(T), NEW f \in Frames
  PROVE  LET r == [Cut(n) EXCEPT ![n] = f]
         IN  NewTop(ci[T], r, n) /\ r[n] = f /\ r \in Seq(Frames) /\ n \in 1 .. Len(ci[T])
<1> DEFINE s == ci[T]
           q == SubSeq(s, 1, n)
           r == [Cut(n) EXCEPT ![n] = f]
           p == [q EXCEPT ![n] = f]
<1>1. s \in Seq(Frames) /\ Len(s) \in Nat /\ n \in 1 .. Len(s)
  BY RunningThread DEF Depth
<1>2. q \in Seq(Frames) /\ Len(q) = n /\ \A i \in 1 .. n : q[i] = s[i]
  <2> HIDE DEF s
  <2> QED BY <1>1, CutIsPrefix
<1>3. r = p
  BY DEF Cut
<1> HIDE DEF s, q, r
<1>4. NewTop(q, p, n) /\ p[n] = f
  <2>1. NewTop(q, [q EXCEPT ![Len(q)] = f], Len(q)) /\ [q EXCEPT ![Len(q)] = f][Len(q)] = f
    <3>1. q \in Seq(Frames) /\ Len(q) > 0 /\ f \in Frames
      BY <1>1, <1>2
    <3> QED BY <3>1, ReplacedTop
  <2> QED BY <1>2, <2>1
<1> HIDE DEF p
<1>5. NewTop(s, p, n) /\ p[n] = f /\ p \in Seq(Frames)
  BY <1>1, <1>2, <1>4 DEF NewTop
<1> QED BY <1>1, <1>3, <1>5 DEF s, r

(***************************************************************************)
(* The CallInfos of the running thread without the last one.               *)
(***************************************************************************)
LEMMA CutBelow ==
  ASSUME IInv, Depth(T) > 0
  PROVE  /\ Below \in Seq(Frames) /\ Len(Below) = Len(ci[T]) - 1
         /\ \A i \in 1 .. Len(ci[T]) - 1 : Below[i] = ci[T][i]
         /\ Below = Front(ci[T])
<1> DEFINE s == ci[T]
           n == Len(ci[T]) - 1
           q == SubSeq(s, 1, n)
<1>1. s \in Seq(Frames) /\ Len(s) \in Nat /\ n \in 0 .. Len(s)
  BY RunningThread DEF Depth
<1>2. q \in Seq(Frames) /\ Len(q) = n /\ \A i \in 1 .. n : q[i] = s[i]
  <2> HIDE DEF s, n
  <2> QED BY <1>1, CutIsPrefix
<1>3. Below = q /\ Front(ci[T]) = q
  BY DEF Below, Cut, Front, Depth
<1> HIDE DEF q
<1> QED BY <1>2, <1>3

(***************************************************************************)
(* The last CallInfo goes away, and the one below it is f now.             *)
(***************************************************************************)
LEMMA GoOnTop ==
  ASSUME IInv, Depth(T) > 1, NEW f \in Frames, GoOn(f)
  PROVE  LET n == Len(ci[T]) - 1
             r == [Below EXCEPT ![Depth(T) - 1] = f]
         IN  /\ NewTop(ci[T], r, n) /\ r[n] = f /\ r \in Seq(Frames)
             /\ n \in 1 .. Len(ci[T]) /\ ci' = [ci EXCEPT ![T] = r]
<1>1. Depth(T) - 1 \in 1 .. Depth(T) /\ Depth(T) = Len(ci[T])
  <2>1. Depth(T) \in Nat /\ Depth(T) = Len(ci[T])
    BY RunningThread DEF Depth
  <2> QED BY <2>1
<1> QED BY <1>1, CutTop DEF GoOn, Below

(***************************************************************************)
(* The CallInfo below the last one.                                        *)
(***************************************************************************)
LEMMA CallerFrame ==
  ASSUME IInv, Running, Depth(T) > 1
  PROVE  LET n == Len(ci[T]) - 1
         IN  /\ Caller = ci[T][n] /\ Caller \in Frames /\ FrameShape(Caller)
             /\ Waits(Caller) /\ Len(ci[T]) > 1 /\ n \in 1 .. n
             /\ Caller.doing \in Doing /\ Caller.olderr \in Nat
<1> DEFINE s == ci[T]
           n == Len(ci[T]) - 1
<1>1. s \in Seq(Frames) /\ Len(s) \in Nat /\ Len(s) > 1
  BY RunningThread DEF Depth
<1>2. n \in 1 .. n /\ n \in 1 .. Len(s) /\ n \in 1 .. Len(s) - 1
  BY <1>1
<1>3. Caller = s[n]
  BY DEF Caller, Depth
<1>4. Shapes(s, "run")
  BY RunningTop DEF StackOK
<1> HIDE DEF s
<1>5. FrameShape(s[n]) /\ Waits(s[n])
  BY <1>2, <1>4 DEF Shapes
<1>6. s[n] \in Frames
  BY <1>1, <1>2, ElementOfSeq
<1>7. s[n].doing \in Doing /\ s[n].olderr \in Nat
  BY <1>6 DEF Frames
<1> QED BY <1>1, <1>2, <1>3, <1>5, <1>6, <1>7 DEF s

(***************************************************************************)
(* luaD_poscall keeps the invariant.                                       *)
(***************************************************************************)
LEMMA ReturnStep ==
  ASSUME IInv, Return
  PROVE  IInv'
<1> DEFINE s == ci[T]
           n == Len(ci[T]) - 1
           g == Caller
           f == Back(g)
           r == [Below EXCEPT ![Depth(T) - 1] = f]
           c2 == nC[T] - (IF g.doing # "op" THEN 1 ELSE 0)
           y2 == nny[T] - (IF g.doing \in Held THEN 1 ELSE 0)
           e2 == CASE g.doing = "pcallk" -> g.olderr
                   [] g.doing = "pcall" -> jmp[T][Len(jmp[T])].errf
                   [] OTHER -> errf[T]
           j2 == IF g.doing = "pcall" THEN Front(jmp[T]) ELSE jmp[T]
<1>1. /\ Running /\ ~Top.hook /\ Depth(T) > 1 /\ g.live /\ ~g.msgh /\ GoOn(f)
      /\ mode' = mode /\ mode = "run"
      /\ UNCHANGED << active, status, base, allow >>
  BY DEF Return, Returning, HasCaller, Running
<1>2. /\ g = s[n] /\ g \in Frames /\ FrameShape(g) /\ Len(s) > 1
  BY <1>1, CallerFrame
<1>3. /\ ThreadOK(T, s, jmp[T], nC[T], nny[T], base[T], errf[T], allow[T], "run")
      /\ ~Frame(s).hook
  BY <1>1, RunningTop
<1>4. f \in Frames /\ IsBack(f, g)
  BY <1>2, BackIsBack
<1>5. /\ NewTop(s, r, n) /\ r[n] = f /\ ci' = [ci EXCEPT ![T] = r]
  BY <1>1, <1>4, GoOnTop
<1>6. /\ nC' = [nC EXCEPT ![T] = c2] /\ nny' = [nny EXCEPT ![T] = y2]
  BY <1>1 DEF Return, Release, Held, IInv, TypeOK
<1>7. errf' = [errf EXCEPT ![T] = e2]
  BY DEF Return, IInv, TypeOK
<1>8. jmp' = [jmp EXCEPT ![T] = j2] /\ allow' = [allow EXCEPT ![T] = allow[T]]
  BY DEF Return, IInv, TypeOK
<1>9. ThreadOK(T, r, j2, c2, y2, base[T], e2, allow[T], "run")
  <2>1. IsBack(r[n], s[n]) /\ s[n].live /\ ~s[n].msgh
    BY <1>1, <1>2, <1>4, <1>5
  <2>2. /\ c2 = nC[T] - (IF s[n].doing # "op" THEN 1 ELSE 0)
        /\ y2 = nny[T] - (IF s[n].doing \in Held THEN 1 ELSE 0)
        /\ e2 = CASE s[n].doing = "pcallk" -> s[n].olderr
                  [] s[n].doing = "pcall" -> jmp[T][Len(jmp[T])].errf
                  [] OTHER -> errf[T]
        /\ j2 = IF s[n].doing = "pcall" THEN Front(jmp[T]) ELSE jmp[T]
    BY <1>2
  <2>3. n = Len(s) - 1
    OBVIOUS
  <2> HIDE DEF s, n, r, c2, y2, e2, j2
  <2> QED BY <1>2, <1>3, <1>5, <2>1, <2>2, <2>3, Returns, SMTT(60)
<1> HIDE DEF r, c2, y2, e2, j2
<1> QED BY <1>1, <1>5, <1>6, <1>7, <1>8, <1>9, OwnStep DEF Modes

(***************************************************************************)
(* A message handler returns: the error goes on.                           *)
(***************************************************************************)
LEMMA ReturnFromHandlerStep ==
  ASSUME IInv, ReturnFromHandler
  PROVE  IInv'
<1> DEFINE s == ci[T]
           n == Len(ci[T]) - 1
           g == Caller
           f == [g EXCEPT !.msgh = FALSE]
           r == [Below EXCEPT ![Depth(T) - 1] = f]
           c2 == nC[T] - 1
           y2 == nny[T] - 1
<1>1. /\ Running /\ ~Top.hook /\ Depth(T) > 1 /\ g.live /\ g.msgh
      /\ GoOn([Caller EXCEPT !.msgh = FALSE]) /\ Release(Caller)
      /\ mode' = "throw"
      /\ UNCHANGED << active, status, base, errf, allow, jmp >>
  BY DEF ReturnFromHandler, Returning, HasCaller
<1>2. /\ g = s[n] /\ g \in Frames /\ Len(s) > 1 /\ g = Caller
  BY <1>1, CallerFrame
<1>3. /\ ThreadOK(T, s, jmp[T], nC[T], nny[T], base[T], errf[T], allow[T], "run")
      /\ ~Frame(s).hook
  BY <1>1, RunningTop
<1>4. /\ nC' = [nC EXCEPT ![T] = c2] /\ nny' = [nny EXCEPT ![T] = y2]
  BY <1>1 DEF Release, IInv, TypeOK
<1>5. GoOn(f)
  BY <1>1
<1>6. g.live /\ g.msgh
  BY <1>1
<1> HIDE DEF g
<1>7. f \in Frames /\ SameCall(f, g) /\ ~f.msgh
  BY <1>2 DEF Frames, SameCall
<1> HIDE DEF f
<1>8. /\ NewTop(s, r, n) /\ r[n] = f /\ ci' = [ci EXCEPT ![T] = r]
  BY <1>1, <1>5, <1>7, GoOnTop
<1>9. ThreadOK(T, r, jmp[T], c2, y2, base[T], errf[T], allow[T], "throw")
  <2>1. SameCall(f, s[n]) /\ s[n].live /\ s[n].msgh /\ n = Len(s) - 1
    BY <1>2, <1>6, <1>7
  <2>2. c2 = nC[T] - 1 /\ y2 = nny[T] - 1
    OBVIOUS
  <2>3. NewTop(s, r, n) /\ r[n] = f /\ ~f.msgh /\ Len(s) > 1
    BY <1>2, <1>7, <1>8
  <2> HIDE DEF s, n, r, c2, y2
  <2> QED BY <1>3, <2>1, <2>2, <2>3, FromHandler, SMTT(20)
<1>10. /\ errf' = [errf EXCEPT ![T] = errf[T]] /\ jmp' = [jmp EXCEPT ![T] = jmp[T]]
       /\ allow' = [allow EXCEPT ![T] = allow[T]]
  BY <1>1 DEF IInv, TypeOK
<1> HIDE DEF r, c2, y2
<1> QED BY <1>1, <1>4, <1>8, <1>9, <1>10, OwnStep, ZenonT(40) DEF Modes

(***************************************************************************)
(* A function returns to no activation: its caller is a Lua function of    *)
(* the same luaV_execute, or unroll is next.                               *)
(***************************************************************************)
LEMMA ReturnToUnrollStep ==
  ASSUME IInv, ReturnToUnroll
  PROVE  IInv'
<1> DEFINE s == ci[T]
           n == Len(ci[T]) - 1
           inLua == /\ Depth(T) > 1 /\ Caller.fn = "Lua"
                    /\ Top.fn = "Lua" /\ ~Top.fresh
<1>1. /\ Running /\ ~Top.hook /\ (T = Main => Depth(T) > 1)
      /\ ~HasCaller
      /\ IF inLua THEN GoOn(Back(Caller)) /\ mode' = "run"
         ELSE ci' = [ci EXCEPT ![T] = Below] /\ mode' = "unroll"
      /\ UNCHANGED << active, status, nC, nny, base, errf, allow, jmp >>
  BY DEF ReturnToUnroll, Returning
<1>2. /\ ThreadOK(T, s, jmp[T], nC[T], nny[T], base[T], errf[T], allow[T], "run")
      /\ ~Frame(s).hook /\ Depth(T) > 0 /\ Depth(T) = Len(s)
  BY <1>1, RunningTop DEF Depth
<1>3. /\ errf' = [errf EXCEPT ![T] = errf[T]] /\ jmp' = [jmp EXCEPT ![T] = jmp[T]]
      /\ allow' = [allow EXCEPT ![T] = allow[T]] /\ nC' = [nC EXCEPT ![T] = nC[T]]
      /\ nny' = [nny EXCEPT ![T] = nny[T]]
      /\ active' = active /\ status' = status /\ base' = base
  BY <1>1 DEF IInv, TypeOK
<1>4. CASE inLua
  <2> DEFINE g == Caller
             f == Back(g)
             r == [Below EXCEPT ![Depth(T) - 1] = f]
  <2>1. /\ g = s[n] /\ g \in Frames /\ FrameShape(g) /\ Len(s) > 1
        /\ ~g.live /\ g.fn = "Lua" /\ GoOn(f) /\ mode' = "run" /\ n = Len(s) - 1
    BY <1>1, <1>4, CallerFrame DEF HasCaller
  <2>2. f \in Frames /\ IsBack(f, g)
    BY <2>1, BackIsBack
  <2>3. /\ NewTop(s, r, n) /\ r[n] = f /\ ci' = [ci EXCEPT ![T] = r]
    BY <1>1, <1>4, <2>1, <2>2, GoOnTop
  <2>4. IsBack(r[n], s[n]) /\ ~s[n].live /\ s[n].fn = "Lua"
    BY <2>1, <2>2, <2>3
  <2>5. ThreadOK(T, r, jmp[T], nC[T], nny[T], base[T], errf[T], allow[T], "run")
    <3> HIDE DEF s, n, r, g, f, inLua
    <3> QED BY <1>2, <2>1, <2>3, <2>4, ReturnsInExecute, SMTT(60)
  <2> HIDE DEF r, g, f, inLua
  <2> QED BY <1>3, <2>1, <2>3, <2>5, OwnStep DEF Modes
<1>5. CASE ~inLua
  <2> DEFINE r == Below
  <2>1. /\ r \in Seq(Frames) /\ Len(r) = n /\ \A i \in 1 .. n : r[i] = s[i]
        /\ n = Len(s) - 1 /\ Len(s) > 0
    BY <1>2, CutBelow
  <2>2. ci' = [ci EXCEPT ![T] = r] /\ mode' = "unroll"
    BY <1>1, <1>5
  <2>3. Len(s) > 1 => ~s[n].live
    BY <1>1, <1>2 DEF HasCaller, Caller
  <2>4. T = Main => Len(s) > 1
    BY <1>1, <1>2
  <2>5. ThreadOK(T, r, jmp[T], nC[T], nny[T], base[T], errf[T], allow[T], "unroll")
    <3> HIDE DEF s, n, r, inLua
    <3> QED BY <1>2, <2>1, <2>3, <2>4, ReturnsToUnroll, SMTT(60)
  <2> HIDE DEF r, inLua
  <2> QED BY <1>3, <2>2, <2>5, OwnStep DEF Modes
<1> QED BY <1>4, <1>5

-----------------------------------------------------------------------------
(***************************************************************************)
(* An error is raised.                                                     *)
(***************************************************************************)
LEMMA RaiseStep ==
  ASSUME IInv, Raise
  PROVE  IInv'
<1>1. /\ Running /\ (T = Main => jmp[T] # << >>) /\ mode' = "raise"
      /\ UNCHANGED << active, ci, status, nC, nny, base, errf, allow, jmp >>
  BY DEF Raise
<1>2. /\ ThreadOK(T, ci[T], jmp[T], nC[T], nny[T], base[T], errf[T], allow[T], "run")
      /\ Len(ci[T]) > 0
  BY <1>1, RunningTop DEF Depth
<1>3. ThreadOK(T, ci[T], jmp[T], nC[T], nny[T], base[T], errf[T], allow[T], "raise")
  BY <1>1, <1>2, Raises
<1>4. /\ ci' = [ci EXCEPT ![T] = ci[T]] /\ jmp' = [jmp EXCEPT ![T] = jmp[T]]
      /\ nC' = [nC EXCEPT ![T] = nC[T]] /\ nny' = [nny EXCEPT ![T] = nny[T]]
      /\ errf' = [errf EXCEPT ![T] = errf[T]] /\ allow' = [allow EXCEPT ![T] = allow[T]]
      /\ active' = active /\ status' = status /\ base' = base
  BY <1>1 DEF IInv, TypeOK
<1> QED BY <1>1, <1>3, <1>4, OwnStep, ZenonT(40) DEF Modes

(***************************************************************************)
(* luaG_errormsg: the message handler is called, or the error is thrown.   *)
(***************************************************************************)
LEMMA ErrorMsgStep ==
  ASSUME IInv, ErrorMsg
  PROVE  IInv'
<1>1. /\ mode = "raise"
      /\ UNCHANGED << active, status, base, errf, allow, jmp >>
  BY DEF ErrorMsg
<1>2. ThreadOK(T, ci[T], jmp[T], nC[T], nny[T], base[T], errf[T], allow[T], "raise")
  BY <1>1, RunningThread
<1>3. /\ ThreadTypes(ci[T], jmp[T], nC[T], nny[T], base[T], errf[T], allow[T])
      /\ StackOK(T, ci[T], jmp[T], nC[T], nny[T], base[T], errf[T], allow[T], "raise")
      /\ nC[T] < ErrCcalls /\ base[T] < ErrCcalls
  BY <1>2 DEF ThreadOK, Bounded
<1>4. CASE errf[T] # 0 /\ Depth(T) > 0
  <2> DEFINE g == Top
             f == [g EXCEPT !.msgh = TRUE]
             r == [ci[T] EXCEPT ![Depth(T)] = f]
             c2 == nC[T] + 1
             y2 == nny[T] + 1
             s == ci[T]
             n == Len(ci[T])
  <2>1. PICK fn \in Functions : Enter(f, fn, 1, 1)
    BY <1>4 DEF ErrorMsg
  <2>2. g \in Frames /\ g = s[n] /\ Depth(T) = n
    BY <1>4, TopFrame DEF Frame
  <2> HIDE DEF g
  <2>3. f \in Frames /\ SameCall(f, g) /\ f.msgh
    BY <2>2 DEF Frames, SameCall
  <2> HIDE DEF f
  <2>4. NewTop(s, r, n) /\ r[n] = f
    BY <1>4, <2>3, OwnTop
  <2>5. r = [ci[T] EXCEPT ![Depth(T)] = f]
    OBVIOUS
  <2>6. Incremented(1, 1, c2, y2) /\ 1 \in {0, 1}
    BY DEF Incremented
  <2>7. /\ ThreadTypes(r, jmp[T], c2, y2, base[T], errf[T], allow[T])
        /\ StackOK(T, r, jmp[T], c2, y2, base[T], errf[T], allow[T], "raise")
        /\ Waits(f)
    <3>1. SameCall(f, s[n]) /\ f.msgh /\ Len(s) > 0 /\ n = Len(s)
      BY <1>4, <2>2, <2>3
    <3>2. c2 = nC[T] + 1 /\ y2 = nny[T] + 1
      OBVIOUS
    <3>3. /\ ThreadTypes(s, jmp[T], nC[T], nny[T], base[T], errf[T], allow[T])
          /\ StackOK(T, s, jmp[T], nC[T], nny[T], base[T], errf[T], allow[T], "raise")
      BY <1>3
    <3> HIDE DEF s, n, r, c2, y2
    <3> QED BY <2>4, <3>1, <3>2, <3>3, Handling, SMTT(20)
  <2>8. Prepares(jmp[T], errf[T])
    BY <1>1 DEF Prepares, IInv, TypeOK
  <2> HIDE DEF r, c2, y2, s, n
  <2>9. nC[T] < ErrCcalls /\ base[T] < ErrCcalls /\ Depth(T) > 0
    BY <1>3, <1>4
  <2> QED BY <2>1, <2>3, <2>5, <2>6, <2>7, <2>8, <2>9, EnterStep
<1>5. CASE ~(errf[T] # 0 /\ Depth(T) > 0)
  <2>1. mode' = "throw" /\ ci' = ci /\ nC' = nC /\ nny' = nny
    BY <1>5 DEF ErrorMsg
  <2>2. /\ ci' = [ci EXCEPT ![T] = ci[T]] /\ jmp' = [jmp EXCEPT ![T] = jmp[T]]
        /\ nC' = [nC EXCEPT ![T] = nC[T]] /\ nny' = [nny EXCEPT ![T] = nny[T]]
        /\ errf' = [errf EXCEPT ![T] = errf[T]] /\ allow' = [allow EXCEPT ![T] = allow[T]]
        /\ active' = active /\ status' = status /\ base' = base
    BY <1>1, <2>1 DEF IInv, TypeOK
  <2>3. nC[T] <= ErrCcalls
    BY <1>3, LimitAssumption DEF ThreadTypes
  <2>4. ThreadOK(T, ci[T], jmp[T], nC[T], nny[T], base[T], errf[T], allow[T], "throw")
    BY <1>3, <2>3, Throws
  <2> QED BY <2>1, <2>2, <2>4, OwnStep DEF Modes
<1> QED BY <1>4, <1>5

(***************************************************************************)
(* luaD_throw to luaD_pcall.                                               *)
(***************************************************************************)
LEMMA ThrowToPCallStep ==
  ASSUME IInv, ThrowToPCall
  PROVE  IInv'
<1> DEFINE s == ci[T]
           j == jmp[T]
           h == jmp[T][Len(jmp[T])]
           n == h.lvl
           f == Back(ci[T][n])
           r == [Cut(n) EXCEPT ![n] = f]
<1>1. /\ mode = "throw" /\ j # << >>
      /\ ci' = [ci EXCEPT ![T] = [Cut(n) EXCEPT ![n] = Back(@)]]
      /\ Restore(h)
      /\ jmp' = [jmp EXCEPT ![T] = Front(@)] /\ mode' = "run"
      /\ UNCHANGED << active, status, base >>
  BY DEF ThrowToPCall
<1>2. ThreadOK(T, s, j, nC[T], nny[T], base[T], errf[T], allow[T], "throw")
  BY <1>1, RunningThread
<1>3. /\ s \in Seq(Frames) /\ j \in Seq(Saved) /\ Len(s) \in Nat
      /\ Shapes(s, "throw") /\ Buffers(T, s, j, base[T])
  BY <1>2, LenProperties DEF ThreadOK, ThreadTypes, StackOK
<1>4. n \in 1 .. Len(s)
  <2>1. Len(j) \in 1 .. Len(j)
    <3>1. Len(j) \in Nat /\ Len(j) # 0
      BY <1>1, <1>3, LenProperties, EmptySeq
    <3> QED BY <3>1
  <2> HIDE DEF s, j
  <2> QED BY <1>3, <2>1 DEF Buffers, Lands, j
<1>5. s[n] \in Frames /\ FrameShape(s[n])
  <2> HIDE DEF s, n
  <2> QED BY <1>3, <1>4, ElementOfSeq DEF Shapes
<1>6. f \in Frames /\ IsBack(f, s[n])
  BY <1>5, BackIsBack
<1>7. NewTop(s, r, n) /\ r[n] = f
  <2>1. n \in 1 .. Depth(T)
    BY <1>4 DEF Depth
  <2> HIDE DEF f, n
  <2> QED BY <1>6, <2>1, CutTop
<1>8. ci' = [ci EXCEPT ![T] = r]
  <2>1. SubSeq(s, 1, n)[n] = s[n] /\ n \in 1 .. Len(SubSeq(s, 1, n))
    <3>1. n \in 0 .. Len(s) /\ n \in 1 .. n
      BY <1>3, <1>4
    <3> HIDE DEF s, n
    <3> QED BY <1>3, <3>1, CutIsPrefix
  <2>2. Cut(n)[n] = s[n]
    BY <2>1 DEF Cut
  <2> HIDE DEF n
  <2> QED BY <1>1, <2>2
<1>9. /\ nC' = [nC EXCEPT ![T] = h.nC] /\ nny' = [nny EXCEPT ![T] = h.nny]
      /\ errf' = [errf EXCEPT ![T] = h.errf] /\ allow' = [allow EXCEPT ![T] = h.oah]
      /\ jmp' = [jmp EXCEPT ![T] = Front(j)]
  BY <1>1 DEF Restore, IInv, TypeOK
<1>10. ThreadOK(T, r, Front(j), h.nC, h.nny, base[T], h.errf, h.oah, "run")
  <2>1. IsBack(r[n], s[n]) /\ h = j[Len(j)] /\ n = h.lvl /\ j # << >>
    BY <1>1, <1>6, <1>7, Zenon
  <2> HIDE DEF s, j, h, n, r, f
  <2> QED BY <1>2, <1>7, <2>1, LandsInPCall, SMTT(20)
<1>11. mode' = "run" /\ active' = active /\ status' = status /\ base' = base
  BY <1>1
<1> HIDE DEF s, j, h, n, r, f
<1> QED BY <1>8, <1>9, <1>10, <1>11, OwnStep DEF Modes

(***************************************************************************)
(* luaD_throw to lua_resume.                                               *)
(***************************************************************************)
LEMMA ThrowToResumeStep ==
  ASSUME IInv, ThrowToResume
  PROVE  IInv'
<1> DEFINE s == ci[T]
           r == Unwound(ci[T])
           m == Len(ci[T])
<1>1. /\ mode = "throw" /\ jmp[T] = << >> /\ mode' = "caught"
      /\ ci' = [ci EXCEPT ![T] = Unwound(@)]
      /\ nC' = [nC EXCEPT ![T] = base[T]] /\ nny' = [nny EXCEPT ![T] = 0]
      /\ UNCHANGED << active, status, base, errf, allow, jmp >>
  BY DEF ThrowToResume
<1>2. ThreadOK(T, s, << >>, nC[T], nny[T], base[T], errf[T], allow[T], "throw")
  BY <1>1, RunningThread
<1>3. /\ ci' = [ci EXCEPT ![T] = r] /\ jmp' = [jmp EXCEPT ![T] = << >>]
      /\ errf' = [errf EXCEPT ![T] = errf[T]] /\ allow' = [allow EXCEPT ![T] = allow[T]]
      /\ active' = active /\ status' = status /\ base' = base
  BY <1>1 DEF IInv, TypeOK
<1>4. ThreadOK(T, r, << >>, base[T], 0, base[T], errf[T], allow[T], "caught")
  <2>1. r = Unwound(s) /\ m = Len(s)
    OBVIOUS
  <2> HIDE DEF s, r, m
  <2> QED BY <1>2, <2>1, LandsInResume
<1>5. /\ "caught" \in Modes /\ mode' = "caught"
      /\ nC' = [nC EXCEPT ![T] = base[T]] /\ nny' = [nny EXCEPT ![T] = 0]
  BY <1>1 DEF Modes
<1> HIDE DEF s, r, m
<1> QED BY <1>3, <1>4, <1>5, OwnStep

(***************************************************************************)
(* precover: the CallInfo of a lua_pcallk takes the error.                 *)
(***************************************************************************)
LEMMA PrecoverStep ==
  ASSUME IInv, Precover
  PROVE  IInv'
<1> DEFINE s == ci[T]
<1>1. PICK n \in 1 .. Depth(T) :
        /\ mode = "caught" /\ ci[T][n].ypcall
        /\ ci' = [ci EXCEPT ![T] = [Cut(n) EXCEPT ![n].recst = TRUE]]
        /\ mode' = "unroll"
        /\ UNCHANGED << active, status, nC, nny, base, errf, allow, jmp >>
  BY DEF Precover, RecoverPoint
<1> DEFINE g == Cut(n)[n]
           f == [g EXCEPT !.recst = TRUE]
           r == [Cut(n) EXCEPT ![n] = f]
<1>2. ThreadOK(T, s, jmp[T], nC[T], nny[T], base[T], errf[T], allow[T], "caught")
  BY <1>1, RunningThread
<1>3. s \in Seq(Frames) /\ n \in 1 .. Len(s)
  BY <1>2 DEF ThreadOK, ThreadTypes, Depth
<1>4. g = s[n] /\ g \in Frames
  <2>1. SubSeq(s, 1, n)[n] = s[n]
    <3>1. n \in 0 .. Len(s) /\ n \in 1 .. n
      BY <1>3
    <3> HIDE DEF s
    <3> QED BY <1>3, <3>1, CutIsPrefix
  <2>2. s[n] \in Frames
    BY <1>3, ElementOfSeq
  <2> QED BY <2>1, <2>2 DEF Cut
<1>5. ci' = [ci EXCEPT ![T] = r]
  BY <1>1
<1> HIDE DEF g
<1>6. f \in Frames /\ Recovered(f, g)
  BY <1>4 DEF Frames, Recovered
<1> HIDE DEF f
<1>7. NewTop(s, r, n) /\ r[n] = f
  BY <1>6, CutTop
<1>8. ThreadOK(T, r, jmp[T], nC[T], nny[T], base[T], errf[T], allow[T], "unroll")
  <2>1. Recovered(f, s[n]) /\ s[n].ypcall /\ n \in 1 .. Len(s)
    BY <1>1, <1>3, <1>4, <1>6
  <2> HIDE DEF s, r
  <2> QED BY <1>2, <1>7, <2>1, Recovers, SMTT(20)
<1>9. /\ jmp' = [jmp EXCEPT ![T] = jmp[T]]
      /\ nC' = [nC EXCEPT ![T] = nC[T]] /\ nny' = [nny EXCEPT ![T] = nny[T]]
      /\ errf' = [errf EXCEPT ![T] = errf[T]] /\ allow' = [allow EXCEPT ![T] = allow[T]]
      /\ active' = active /\ status' = status /\ base' = base /\ mode' = "unroll"
  BY <1>1 DEF IInv, TypeOK
<1> HIDE DEF s, r
<1> QED BY <1>5, <1>8, <1>9, OwnStep DEF Modes

(***************************************************************************)
(* An error that no lua_pcallk takes kills the coroutine.                  *)
(***************************************************************************)
LEMMA DieStep ==
  ASSUME IInv, Die
  PROVE  IInv'
<1>1. /\ mode = "caught" /\ status' = [status EXCEPT ![T] = "ERR"]
      /\ BackToResumer(ci[T])
      /\ nC' = nC /\ nny' = nny /\ base' = base /\ errf' = errf /\ allow' = allow
      /\ jmp' = jmp
  BY DEF Die
<1>2. ThreadOK(T, ci[T], jmp[T], nC[T], nny[T], base[T], errf[T], allow[T], "caught")
  BY <1>1, RunningThread
<1>3. ThreadOK(T, ci[T], jmp[T], nC[T], nny[T], base[T], errf[T], allow[T], "err")
  BY <1>2, Dies
<1>4. T # Main
  BY <1>3 DEF ThreadOK
<1>5. nC' = [nC EXCEPT ![T] = nC[T]] /\ nny' = [nny EXCEPT ![T] = nny[T]]
  BY <1>1 DEF IInv, TypeOK
<1> QED BY <1>1, <1>3, <1>4, <1>5, StepBack

-----------------------------------------------------------------------------
(***************************************************************************)
(* unroll continues a Lua function.                                        *)
(***************************************************************************)
LEMMA UnrollLuaStep ==
  ASSUME IInv, UnrollLua
  PROVE  IInv'
<1> DEFINE s == ci[T]
           n == Len(ci[T])
           f == Back(Top)
           r == [ci[T] EXCEPT ![Depth(T)] = f]
<1>1. /\ mode = "unroll" /\ Depth(T) > 0 /\ Top.fn = "Lua"
      /\ ci' = SetTop(f) /\ mode' = "run"
      /\ UNCHANGED << active, status, nC, nny, base, errf, allow, jmp >>
  BY DEF UnrollLua
<1>2. /\ ThreadOK(T, s, jmp[T], nC[T], nny[T], base[T], errf[T], allow[T], "unroll")
      /\ Len(s) > 0
  BY <1>1, RunningThread DEF Depth
<1>3. /\ Top = s[n] /\ Top \in Frames /\ FrameShape(Top) /\ ~s[n].ypcall
  <2>1. Top = s[n] /\ Top \in Frames /\ n \in 1 .. Len(s)
    BY <1>1, TopFrame DEF Frame
  <2>2. FrameShape(s[n]) /\ s[n].doing \in Pending
    <3> HIDE DEF s
    <3>1. n = Len(s)
      BY DEF s
    <3> QED BY <1>2, <2>1, <3>1 DEF ThreadOK, StackOK, Shapes, TopOK, Frame
  <2> QED BY <1>1, <2>1, <2>2 DEF FrameShape
<1>4. f \in Frames /\ IsBack(f, Top)
  BY <1>3, BackIsBack
<1>5. NewTop(s, r, n) /\ r[n] = f /\ ci' = [ci EXCEPT ![T] = r]
  BY <1>1, <1>4, OwnTop
<1>6. ThreadOK(T, r, jmp[T], nC[T], nny[T], base[T], errf[T], allow[T], "run")
  <2>1. /\ IsBack(r[n], s[n]) /\ n = Len(s) /\ NewTop(s, r, n)
        /\ errf[T] = IF s[n].ypcall THEN s[n].olderr ELSE errf[T]
        /\ allow[T] = IF s[n].ypcall /\ s[n].recst THEN s[n].oah ELSE allow[T]
    BY <1>3, <1>4, <1>5
  <2> HIDE DEF s, n, r, f
  <2> QED BY <1>2, <2>1, Unrolls, SMTT(20)
<1>7. /\ jmp' = [jmp EXCEPT ![T] = jmp[T]]
      /\ nC' = [nC EXCEPT ![T] = nC[T]] /\ nny' = [nny EXCEPT ![T] = nny[T]]
      /\ errf' = [errf EXCEPT ![T] = errf[T]] /\ allow' = [allow EXCEPT ![T] = allow[T]]
      /\ active' = active /\ status' = status /\ base' = base /\ mode' = "run"
  BY <1>1 DEF IInv, TypeOK
<1> HIDE DEF s, n, r, f
<1> QED BY <1>5, <1>6, <1>7, OwnStep DEF Modes

(***************************************************************************)
(* unroll ends the lua_callk or lua_pcallk of a C function.                *)
(***************************************************************************)
LEMMA UnrollCStep ==
  ASSUME IInv, UnrollC
  PROVE  IInv'
<1> DEFINE s == ci[T]
           n == Len(ci[T])
           g == Top
           f == Back(g)
           r == [ci[T] EXCEPT ![Depth(T)] = f]
           e2 == IF g.ypcall THEN g.olderr ELSE errf[T]
           a2 == IF g.ypcall /\ g.recst THEN g.oah ELSE allow[T]
<1>1. /\ mode = "unroll" /\ Depth(T) > 0 /\ FinishPCallK(g)
      /\ ci' = SetTop(f) /\ mode' = "run"
      /\ UNCHANGED << active, status, nC, nny, base, jmp >>
  BY DEF UnrollC
<1>2. /\ ThreadOK(T, s, jmp[T], nC[T], nny[T], base[T], errf[T], allow[T], "unroll")
      /\ Len(s) > 0
  BY <1>1, RunningThread DEF Depth
<1>3. /\ g = s[n] /\ g \in Frames /\ FrameShape(g)
  <2>1. g = s[n] /\ g \in Frames /\ n \in 1 .. Len(s)
    BY <1>1, TopFrame DEF Frame
  <2>2. FrameShape(s[n])
    <3> HIDE DEF s, n
    <3> QED BY <1>2, <2>1 DEF ThreadOK, StackOK, Shapes
  <2> QED BY <2>1, <2>2
<1>4. f \in Frames /\ IsBack(f, g)
  BY <1>3, BackIsBack
<1>5. NewTop(s, r, n) /\ r[n] = f /\ ci' = [ci EXCEPT ![T] = r]
  BY <1>1, <1>4, OwnTop
<1>6. errf' = [errf EXCEPT ![T] = e2] /\ allow' = [allow EXCEPT ![T] = a2]
  <2> HIDE DEF g
  <2> QED BY <1>1 DEF FinishPCallK, IInv, TypeOK
<1>7. ThreadOK(T, r, jmp[T], nC[T], nny[T], base[T], e2, a2, "run")
  <2>1. /\ IsBack(r[n], s[n]) /\ n = Len(s) /\ NewTop(s, r, n)
        /\ e2 = IF s[n].ypcall THEN s[n].olderr ELSE errf[T]
        /\ a2 = IF s[n].ypcall /\ s[n].recst THEN s[n].oah ELSE allow[T]
    BY <1>3, <1>4, <1>5
  <2> HIDE DEF s, n, r, f, g, e2, a2
  <2> QED BY <1>2, <2>1, Unrolls, SMTT(20)
<1>8. /\ jmp' = [jmp EXCEPT ![T] = jmp[T]]
      /\ nC' = [nC EXCEPT ![T] = nC[T]] /\ nny' = [nny EXCEPT ![T] = nny[T]]
      /\ active' = active /\ status' = status /\ base' = base /\ mode' = "run"
  BY <1>1 DEF IInv, TypeOK
<1> HIDE DEF s, n, r, f, g, e2, a2
<1> QED BY <1>5, <1>6, <1>7, <1>8, OwnStep DEF Modes

(***************************************************************************)
(* A coroutine ends.                                                       *)
(***************************************************************************)
LEMMA UnrollEndStep ==
  ASSUME IInv, UnrollEnd
  PROVE  IInv'
<1>1. /\ mode = "unroll" /\ Len(ci[T]) = 0
      /\ nC' = [nC EXCEPT ![T] = base[T]] /\ BackToResumer(<< >>)
      /\ status' = status /\ nny' = nny /\ base' = base /\ errf' = errf
      /\ allow' = allow /\ jmp' = jmp
  BY DEF UnrollEnd, Depth
<1>2. /\ ThreadOK(T, ci[T], jmp[T], nC[T], nny[T], base[T], errf[T], allow[T], "unroll")
      /\ nny[T] \in Nat /\ base[T] \in Nat /\ allow[T] \in BOOLEAN /\ status[T] = "OK"
  BY <1>1, RunningThread
<1>3. T # Main /\ jmp[T] = << >> /\ errf[T] = 0 /\ (T \notin Closable => allow[T])
  BY <1>1, <1>2, EmptyFacts
<1> DEFINE s == << >>
           c == base[T]
<1>4. ThreadOK(T, s, jmp[T], c, nny[T], base[T], errf[T], allow[T], "idle")
  <2>1. s = << >> /\ c = base[T] /\ c \in Nat
    BY <1>2
  <2>2. ThreadOK(T, s, << >>, c, nny[T], base[T], errf[T], allow[T], "idle")
    <3> HIDE DEF s, c
    <3> QED BY <1>2, <1>3, <2>1, EmptyStack
  <2> HIDE DEF s, c
  <2> QED BY <1>3, <2>2
<1>5. /\ nny' = [nny EXCEPT ![T] = nny[T]] /\ status' = [status EXCEPT ![T] = "OK"]
  BY <1>1, <1>2 DEF IInv, TypeOK
<1>6. /\ BackToResumer(s) /\ nC' = [nC EXCEPT ![T] = c]
      /\ jmp' = jmp /\ base' = base /\ errf' = errf /\ allow' = allow
  BY <1>1
<1>7. T # Main
  BY <1>3
<1>8. "OK" \in {"OK", "YIELD", "ERR"}
  OBVIOUS
<1> HIDE DEF s, c
<1> QED BY <1>4, <1>5, <1>6, <1>7, <1>8, StepBack

(***************************************************************************)
(* lua_yieldk keeps the invariant.                                         *)
(***************************************************************************)
LEMMA YieldStep ==
  ASSUME IInv, Yield
  PROVE  IInv'
<1>1. PICK k \in BOOLEAN :
        /\ Running /\ Top.fn = "C" /\ Yieldable
        /\ status' = [status EXCEPT ![T] = "YIELD"]
        /\ nC' = [nC EXCEPT ![T] = base[T]]
        /\ BackToResumer(Unwound(
             [ci[T] EXCEPT ![Depth(T)].doing = IF k THEN "yieldk" ELSE "yield",
                           ![Depth(T)].k = k]))
        /\ nny' = nny /\ base' = base /\ errf' = errf /\ allow' = allow /\ jmp' = jmp
  BY DEF Yield
<1> DEFINE s == ci[T]
           n == Len(ci[T])
           d == IF k THEN "yieldk" ELSE "yield"
           g == Top
           f == [g EXCEPT !.doing = d, !.k = k]
           q == [ci[T] EXCEPT ![Depth(T)] = f]
           r == Unwound(q)
<1>2. /\ ThreadOK(T, s, jmp[T], nC[T], nny[T], base[T], errf[T], allow[T], "run")
      /\ Depth(T) > 0 /\ Depth(T) = n /\ g \in Frames /\ FrameShape(g) /\ g = s[n]
      /\ n = Len(s) /\ nny[T] = 0 /\ g.fn = "C"
  BY <1>1, RunningTop DEF Depth, Yieldable, Frame
<1>3. d \in {"yield", "yieldk"} /\ d \in Doing /\ (d = "yieldk" <=> k)
  BY DEF Doing
<1>4. [ci[T] EXCEPT ![Depth(T)].doing = d, ![Depth(T)].k = k] = q
  <2>1. Depth(T) \in DOMAIN ci[T]
    <3>1. ci[T] \in Seq(Frames) /\ Depth(T) \in 1 .. Len(ci[T])
      BY <1>2, TopFrame, RunningThread DEF Depth
    <3> QED BY <3>1
  <2>2. g = ci[T][Depth(T)]
    BY DEF Top
  <2> HIDE DEF d, g
  <2> QED BY <2>1, <2>2
<1>5. BackToResumer(r)
  BY <1>1, <1>4
<1> HIDE DEF d, g
<1>6. /\ f \in Frames /\ f.fn = "C" /\ f.doing = d /\ f.k = k /\ Stopped(f, g)
      /\ f.hook = g.hook /\ f.ypcall = g.ypcall /\ f.recst = g.recst
  BY <1>2, <1>3 DEF Frames, Stopped
<1> HIDE DEF f
<1>7. FrameShape(f)
  <2>1. ~g.ypcall
    BY <1>1, RunningTop DEF g
  <2> QED BY <1>2, <1>3, <1>6, <2>1 DEF FrameShape
<1>8. NewTop(s, q, n) /\ q[n] = f
  BY <1>2, <1>6, OwnTop
<1>9. T # Main /\ ThreadOK(T, r, jmp[T], base[T], 0, base[T], errf[T], allow[T], "yield")
  <2>1. /\ Stopped(f, s[n]) /\ n = Len(s) /\ Len(s) > 0 /\ r = Unwound(q)
        /\ f.doing \in {"yield", "yieldk"} /\ f.fn = "C" /\ nny[T] = 0
    BY <1>2, <1>3, <1>6
  <2> HIDE DEF s, n, q, r
  <2> QED BY <1>2, <1>7, <1>8, <2>1, Yields, SMTT(20)
<1>10. nny' = [nny EXCEPT ![T] = 0]
  BY <1>1, <1>2 DEF IInv, TypeOK
<1> HIDE DEF r
<1> QED BY <1>1, <1>5, <1>9, <1>10, StepBack

-----------------------------------------------------------------------------
(***************************************************************************)
(* A coroutine that is not active is not the running one, and is ready to  *)
(* be started, or has yielded, or is dead.                                 *)
(***************************************************************************)
LEMMA IdleThread ==
  ASSUME IInv, NEW u \in Coroutines, Idle(u)
  PROVE  /\ u \in Threads /\ u # T /\ ~IsActive(u)
         /\ Role(u) = CASE status[u] = "ERR" -> "err" [] status[u] = "YIELD" -> "yield"
                        [] status[u] = "OK" -> "idle"
         /\ ThreadOK(u, ci[u], jmp[u], nC[u], nny[u], base[u], errf[u], allow[u], Role(u))
<1>1. u \in Threads
  BY DEF Threads
<1>2. u # T
  <2>1. Len(active) \in 1 .. Len(active)
    BY RunningThread
  <2> QED BY <2>1 DEF Idle, T
<1>3. ~IsActive(u)
  BY DEF Idle, IsActive
<1>4. status[u] \in {"OK", "YIELD", "ERR"}
  BY <1>1 DEF IInv, TypeOK
<1>5. ThreadOK(u, ci[u], jmp[u], nC[u], nny[u], base[u], errf[u], allow[u], Role(u))
  BY <1>1 DEF IInv, ThreadInv
<1> QED BY <1>1, <1>2, <1>3, <1>4, <1>5 DEF Role

(***************************************************************************)
(* The count that a resumed coroutine starts with.                         *)
(***************************************************************************)
LEMMA StartedCount ==
  ASSUME IInv, NEW u, NEW compat \in BOOLEAN, StartCount(u, compat)
  PROVE  /\ From(compat) + 1 \in Nat /\ From(compat) + 1 < ErrCcalls
         /\ nC' = [nC EXCEPT ![u] = From(compat) + 1]
         /\ base' = [base EXCEPT ![u] = From(compat) + 1]
         /\ nny' = [nny EXCEPT ![u] = 0]
         /\ active' = Append(active, u)
<1>1. From(compat) \in Nat /\ From(compat) < MaxCcalls
  BY RunningThread DEF StartCount, From
<1>2. From(compat) + 1 \in Nat /\ From(compat) + 1 < ErrCcalls
  BY <1>1, LimitAssumption
<1> QED BY <1>2 DEF StartCount

(***************************************************************************)
(* lua_resume of a new coroutine: its body runs, or the C stack has no     *)
(* room for it.                                                            *)
(***************************************************************************)
LEMMA ResumeNewStep ==
  ASSUME IInv, ResumeNew
  PROVE  IInv'
<1>1. PICK u \in Coroutines, fn \in Functions, compat \in {FALSE, CompatResumes} :
        /\ Running /\ ~IsLuaCode(Top) /\ Idle(u) /\ status[u] = "OK"
        /\ StartCount(u, compat)
        /\ LET room == From(compat) + 1 < MaxCcalls
           IN  /\ ci' = [ci EXCEPT ![T][Depth(T)].doing = "resume",
                          ![u] = IF room THEN << NewFrame(fn, TRUE) >> ELSE << >>]
               /\ mode' = IF room THEN "run" ELSE "raise"
        /\ status' = status /\ errf' = errf /\ allow' = allow /\ jmp' = jmp
  BY DEF ResumeNew
<1> DEFINE c == From(compat) + 1
           w == [ci[T] EXCEPT ![Depth(T)].doing = "resume"]
           g == NewFrame(fn, TRUE)
           o == << >>
           p == << g >>
<1>2. /\ c \in Nat /\ c < ErrCcalls
      /\ nC' = [nC EXCEPT ![u] = c] /\ base' = [base EXCEPT ![u] = c]
      /\ nny' = [nny EXCEPT ![u] = 0] /\ active' = Append(active, u)
  <2>1. compat \in BOOLEAN
    BY ThreadAssumption
  <2> QED BY <1>1, <2>1, StartedCount
<1>3. /\ u \in Threads /\ u # T
      /\ ThreadOK(u, ci[u], jmp[u], nC[u], nny[u], base[u], errf[u], allow[u], "idle")
  BY <1>1, IdleThread
<1>4. /\ u # Main /\ jmp[u] = << >> /\ errf[u] = 0 /\ allow[u] \in BOOLEAN
      /\ (u \notin Closable => allow[u])
  BY <1>3, EmptyFacts DEF ThreadOK, ThreadTypes
<1>5. ThreadOK(u, o, jmp[u], c, 0, c, errf[u], allow[u], "raise")
  <2>1. o = << >> /\ c \in Nat /\ 0 \in Nat
    BY <1>2
  <2>2. ThreadOK(u, o, << >>, c, 0, c, errf[u], allow[u], "raise")
    <3> HIDE DEF o, c
    <3> QED BY <1>2, <1>4, <2>1, EmptyStack
  <2> HIDE DEF o, c
  <2> QED BY <1>4, <2>2
<1>6. ThreadOK(u, p, jmp[u], c, 0, c, errf[u], allow[u], "run")
  <2>1. /\ g \in Frames /\ g.fn = fn /\ g.doing = "none" /\ ~g.msgh
        /\ g.live /\ ~g.k /\ ~g.ypcall /\ ~g.recst /\ ~g.hook
    BY NewFrameFields
  <2> DEFINE n == Len(o) + 1
             m == Len(o)
  <2> HIDE DEF g
  <2>2. FrameShape(g)
    BY <2>1 DEF FrameShape
  <2>3. NewTop(o, p, n) /\ p[n] = g /\ Frame(p) = g
    <3>1. Append(o, g) = p
      OBVIOUS
    <3>2. o \in Seq(Frames)
      OBVIOUS
    <3> HIDE DEF o, p
    <3> QED BY <2>1, <3>1, <3>2, PushedTop
  <2>4. /\ ThreadTypes(o, jmp[u], c, 0, c, errf[u], allow[u])
        /\ StackOK(u, o, jmp[u], c, 0, c, errf[u], allow[u], "raise")
    BY <1>5 DEF ThreadOK
  <2>5. Len(o) = 0 /\ n = Len(o) + 1 /\ ~(Len(o) > 0)
    OBVIOUS
  <2> HIDE DEF o, p, n, c
  <2> QED BY <1>2, <1>4, <2>1, <2>2, <2>3, <2>4, <2>5, Pushed, SMTT(20)
<1>7. status' = [status EXCEPT ![u] = "OK"] /\ jmp' = jmp /\ errf' = errf /\ allow' = allow
  BY <1>1, <1>3 DEF IInv, TypeOK
<1>8. \/ ci' = [ci EXCEPT ![T] = w, ![u] = p] /\ mode' = "run"
      \/ ci' = [ci EXCEPT ![T] = w, ![u] = o] /\ mode' = "raise"
  BY <1>1
<1>9. w = [ci[T] EXCEPT ![Depth(T)].doing = "resume"]
  OBVIOUS
<1>10. Running /\ ~IsLuaCode(Top) /\ Idle(u) /\ "run" \in Modes /\ "raise" \in Modes
  BY <1>1 DEF Modes
<1>11. /\ nC' = [nC EXCEPT ![u] = c] /\ base' = [base EXCEPT ![u] = c]
       /\ nny' = [nny EXCEPT ![u] = 0] /\ active' = Append(active, u)
  BY <1>2
<1> HIDE DEF c, w, o, p, g
<1>12. CASE ci' = [ci EXCEPT ![T] = w, ![u] = p] /\ mode' = "run"
  BY <1>6, <1>7, <1>9, <1>10, <1>11, <1>12, StepInto
<1>13. CASE ci' = [ci EXCEPT ![T] = w, ![u] = o] /\ mode' = "raise"
  BY <1>5, <1>7, <1>9, <1>10, <1>11, <1>13, StepInto
<1> QED BY <1>8, <1>12, <1>13

(***************************************************************************)
(* lua_resume of a suspended coroutine: its last function goes on in its   *)
(* continuation, or returns.                                               *)
(***************************************************************************)
LEMMA ResumeSuspendedStep ==
  ASSUME IInv, ResumeSuspended
  PROVE  IInv'
<1>1. PICK u \in Coroutines, compat \in {FALSE, CompatResumes} :
        /\ Running /\ ~IsLuaCode(Top) /\ Idle(u) /\ status[u] = "YIELD"
        /\ StartCount(u, compat)
        /\ status' = [status EXCEPT ![u] = "OK"]
        /\ IF ci[u][Depth(u)].k
           THEN /\ ci' = [ci EXCEPT ![T][Depth(T)].doing = "resume",
                                    ![u][Depth(u)] = Back(@)]
                /\ mode' = "run"
           ELSE /\ ci' = [ci EXCEPT ![T][Depth(T)].doing = "resume",
                                    ![u] = Front(@)]
                /\ mode' = "unroll"
        /\ errf' = errf /\ allow' = allow /\ jmp' = jmp
  BY DEF ResumeSuspended
<1> DEFINE c == From(compat) + 1
           s == ci[u]
           n == Len(ci[u])
           f == Back(ci[u][Depth(u)])
           w == [ci[T] EXCEPT ![Depth(T)].doing = "resume"]
           o == Front(ci[u])
           p == [ci[u] EXCEPT ![Depth(u)] = f]
<1>2. /\ c \in Nat /\ c < ErrCcalls
      /\ nC' = [nC EXCEPT ![u] = c] /\ base' = [base EXCEPT ![u] = c]
      /\ nny' = [nny EXCEPT ![u] = 0] /\ active' = Append(active, u)
  <2>1. compat \in BOOLEAN
    BY ThreadAssumption
  <2> QED BY <1>1, <2>1, StartedCount
<1>3. /\ u \in Threads /\ u # T
      /\ ThreadOK(u, s, jmp[u], nC[u], nny[u], base[u], errf[u], allow[u], "yield")
  BY <1>1, IdleThread
<1>4. s \in Seq(Frames) /\ Len(s) > 0 /\ Shapes(s, "yield")
  <2> HIDE DEF s
  <2> QED BY <1>3 DEF ThreadOK, ThreadTypes, StackOK, TopOK
<1>5. ThreadOK(u, o, jmp[u], c, 0, c, errf[u], allow[u], "unroll")
  <2>1. o = Front(s)
    OBVIOUS
  <2> HIDE DEF s, o, c
  <2> QED BY <1>2, <1>3, <2>1, YieldReturns
<1>6. ThreadOK(u, p, jmp[u], c, 0, c, errf[u], allow[u], "run")
  <2>1. s[n] \in Frames /\ FrameShape(s[n]) /\ Depth(u) = n
    <3>1. n \in 1 .. Len(s)
      BY <1>4, LenProperties
    <3>2. Depth(u) = n
      BY DEF Depth
    <3> HIDE DEF s, n
    <3> QED BY <1>4, <3>1, <3>2, ElementOfSeq DEF Shapes
  <2>2. f \in Frames /\ IsBack(f, s[n])
    BY <2>1, BackIsBack
  <2>3. NewTop(s, p, n) /\ p[n] = f
    <3> DEFINE q == [s EXCEPT ![Len(s)] = f]
    <3>1. NewTop(s, q, Len(s)) /\ q[Len(s)] = f
      <4> HIDE DEF s, f
      <4> QED BY <1>4, <2>2, ReplacedTop
    <3>2. p = q
      BY <2>1
    <3> HIDE DEF p, q
    <3> QED BY <3>1, <3>2
  <2>4. IsBack(p[n], s[n]) /\ n = Len(s)
    BY <2>2, <2>3
  <2> HIDE DEF s, n, p, c
  <2> QED BY <1>2, <1>3, <2>3, <2>4, Continues, SMTT(20)
<1>7. status' = [status EXCEPT ![u] = "OK"] /\ jmp' = jmp /\ errf' = errf /\ allow' = allow
  BY <1>1
<1>8. \/ ci' = [ci EXCEPT ![T] = w, ![u] = p] /\ mode' = "run"
      \/ ci' = [ci EXCEPT ![T] = w, ![u] = o] /\ mode' = "unroll"
  <2>1. ci \in [Threads -> Seq(Frames)] /\ T \in Threads /\ u \in Threads /\ T # u
    BY <1>3, RunningThread DEF IInv, TypeOK
  <2>2. CASE ci[u][Depth(u)].k
    <3>1. ci' = [ci EXCEPT ![T][Depth(T)].doing = "resume", ![u][Depth(u)] = Back(@)]
      BY <1>1, <2>2
    <3> QED BY <1>1, <2>1, <2>2, <3>1
  <2>3. CASE ~ci[u][Depth(u)].k
    <3>1. ci' = [ci EXCEPT ![T][Depth(T)].doing = "resume", ![u] = Front(@)]
      BY <1>1, <2>3
    <3> QED BY <1>1, <2>1, <2>3, <3>1
  <2> QED BY <2>2, <2>3
<1>9. w = [ci[T] EXCEPT ![Depth(T)].doing = "resume"]
  OBVIOUS
<1>10. Running /\ ~IsLuaCode(Top) /\ Idle(u) /\ "run" \in Modes /\ "unroll" \in Modes
  BY <1>1 DEF Modes
<1>11. /\ nC' = [nC EXCEPT ![u] = c] /\ base' = [base EXCEPT ![u] = c]
       /\ nny' = [nny EXCEPT ![u] = 0] /\ active' = Append(active, u)
  BY <1>2
<1> HIDE DEF c, w, o, p, s, n, f
<1>12. CASE ci' = [ci EXCEPT ![T] = w, ![u] = p] /\ mode' = "run"
  BY <1>6, <1>7, <1>9, <1>10, <1>11, <1>12, StepInto
<1>13. CASE ci' = [ci EXCEPT ![T] = w, ![u] = o] /\ mode' = "unroll"
  BY <1>5, <1>7, <1>9, <1>10, <1>11, <1>13, StepInto
<1> QED BY <1>8, <1>12, <1>13

(***************************************************************************)
(* lua_closethread: the coroutine is as a new one, but for its hook switch.*)
(***************************************************************************)
LEMMA CloseThreadStep ==
  ASSUME IInv, CloseThread
  PROVE  IInv'
<1>1. PICK u \in Closable :
        /\ Idle(u) /\ mode' = mode
        /\ ci' = [ci EXCEPT ![u] = << >>] /\ status' = [status EXCEPT ![u] = "OK"]
        /\ errf' = [errf EXCEPT ![u] = 0] /\ nC' = [nC EXCEPT ![u] = nC[T]]
        /\ nny' = [nny EXCEPT ![u] = 0]
        /\ active' = active /\ base' = base /\ allow' = allow /\ jmp' = jmp
  BY DEF CloseThread
<1>2. u \in Coroutines
  BY ThreadAssumption
<1>3. TypeOK /\ ActiveOK /\ \A t \in Threads : ThreadInv(t)
  BY DEF IInv
<1>4. /\ u \in Threads /\ u # T /\ ~IsActive(u)
      /\ Role(u) = CASE status[u] = "ERR" -> "err" [] status[u] = "YIELD" -> "yield"
                     [] status[u] = "OK" -> "idle"
      /\ ThreadOK(u, ci[u], jmp[u], nC[u], nny[u], base[u], errf[u], allow[u], Role(u))
  BY <1>1, <1>2, IdleThread
<1>5. Role(u) \in {"idle", "yield", "err"}
  <2>1. status[u] \in {"OK", "YIELD", "ERR"}
    BY <1>3, <1>4 DEF TypeOK
  <2> QED BY <1>4, <2>1
<1>6. u # Main /\ jmp[u] = << >> /\ base[u] \in Nat /\ allow[u] \in BOOLEAN
  <2>1. u # Main /\ jmp[u] = << >>
    <3> DEFINE role == Role(u)
    <3>1. /\ role \in {"idle", "yield", "err"}
          /\ ThreadOK(u, ci[u], jmp[u], nC[u], nny[u], base[u], errf[u], allow[u], role)
      BY <1>4, <1>5
    <3> HIDE DEF role
    <3> QED BY <3>1, NotActiveFacts
  <2> QED BY <1>3, <1>4, <2>1 DEF TypeOK
<1>7. nC[T] \in Nat /\ T' = T
  BY <1>1, RunningThread DEF T
<1> DEFINE s == << >>
           c == nC[T]
           y == 0
           e == 0
<1>8. ThreadOK(u, s, jmp[u], c, y, base[u], e, allow[u], "idle")
  <2>1. s = << >> /\ c \in Nat /\ y \in Nat /\ e = 0 /\ "idle" \in {"idle", "raise"}
    BY <1>7
  <2>2. ThreadOK(u, s, << >>, c, y, base[u], e, allow[u], "idle")
    <3> HIDE DEF s, c, y, e
    <3> QED BY <1>6, <2>1, EmptyStack
  <2> HIDE DEF s, c, y, e
  <2> QED BY <1>6, <2>2
<1>9. /\ ci'[u] = s /\ status'[u] = "OK" /\ errf'[u] = e /\ nC'[u] = c /\ nny'[u] = y
      /\ jmp'[u] = jmp[u] /\ base'[u] = base[u] /\ allow'[u] = allow[u]
  BY <1>1, <1>3, <1>4 DEF TypeOK
<1>10. \A t \in Threads \ {u} :
         /\ ci'[t] = ci[t] /\ jmp'[t] = jmp[t] /\ nC'[t] = nC[t] /\ nny'[t] = nny[t]
         /\ errf'[t] = errf[t] /\ allow'[t] = allow[t] /\ base'[t] = base[t]
         /\ status'[t] = status[t]
  BY <1>1, <1>3 DEF TypeOK
<1>11. TypeOK'
  <2>1. s \in Seq(Frames)
    OBVIOUS
  <2>2. ci' \in [Threads -> Seq(Frames)]
    BY <1>1, <1>3, <2>1 DEF TypeOK
  <2>3. /\ status' \in [Threads -> {"OK", "YIELD", "ERR"}]
        /\ nC' \in [Threads -> Nat] /\ nny' \in [Threads -> Nat]
        /\ errf' \in [Threads -> Nat]
    BY <1>1, <1>3, <1>7 DEF TypeOK
  <2> QED BY <1>1, <1>3, <2>2, <2>3 DEF TypeOK
<1>12. ActiveOK'
  <2>1. \A i \in 1 .. Len(active) : status'[active[i]] = "OK"
    <3> SUFFICES ASSUME NEW i \in 1 .. Len(active) PROVE status'[active[i]] = "OK"
      OBVIOUS
    <3>1. active[i] \in Threads /\ active[i] # u /\ status[active[i]] = "OK"
      BY <1>1, <1>3, ElementOfSeq DEF Idle, ActiveOK, TypeOK
    <3> QED BY <1>10, <3>1
  <2> QED BY <1>1, <1>3, <2>1 DEF ActiveOK
<1>13. ThreadInv(u)'
  <2>1. ~IsActive(u)'
    BY <1>1, <1>4 DEF IsActive
  <2>2. Role(u)' = "idle"
    BY <1>4, <1>7, <1>9, <2>1 DEF Role
  <2> HIDE DEF s, c, y, e
  <2> QED BY <1>8, <1>9, <2>2 DEF ThreadInv
<1>14. \A t \in Threads \ {u} : ThreadInv(t)'
  <2> SUFFICES ASSUME NEW t \in Threads \ {u} PROVE ThreadInv(t)'
    OBVIOUS
  <2>1. Role(t)' = Role(t)
    BY <1>1, <1>7, <1>10 DEF Role, IsActive
  <2> QED BY <1>3, <1>10, <2>1, SameThread
<1>15. \A t \in Threads : ThreadInv(t)'
  BY <1>13, <1>14
<1> QED BY <1>11, <1>12, <1>15 DEF IInv

(***************************************************************************)
(* A hook starts on top of the running function, or ends.                  *)
(***************************************************************************)
LEMMA HookTop ==
  ASSUME IInv, Running, NEW f, Hooking(f, Top), NEW a2, Switched(f, Top, allow[T], a2),
         NEW r, NewTop(ci[T], r, Len(ci[T])), r[Len(ci[T])] = f
  PROVE  ThreadOK(T, r, jmp[T], nC[T], nny[T], base[T], errf[T], a2, "run")
<1> DEFINE s == ci[T]
           n == Len(ci[T])
           a == allow[T]
<1>1. /\ ThreadOK(T, s, jmp[T], nC[T], nny[T], base[T], errf[T], a, "run")
      /\ Depth(T) > 0 /\ Depth(T) = n /\ Top = s[n]
  BY RunningTop DEF Depth, Frame
<1>2. /\ Hooking(f, s[n]) /\ Switched(f, s[n], a, a2)
      /\ n = Len(s) /\ Len(s) > 0
      /\ NewTop(s, r, n) /\ r[n] = f
  BY <1>1
<1> HIDE DEF s, n, a
<1> QED BY <1>1, <1>2, Hooks, SMTT(20)

(***************************************************************************)
(* Both steps keep the invariant.                                          *)
(***************************************************************************)
LEMMA HookStep ==
  ASSUME IInv, Running, NEW f, Hooking(f, Top), NEW a2, Switched(f, Top, allow[T], a2),
         ci' = SetTop(f), allow' = [allow EXCEPT ![T] = a2],
         UNCHANGED << active, status, nC, nny, base, errf, jmp, mode >>
  PROVE  IInv'
<1> DEFINE r == [ci[T] EXCEPT ![Depth(T)] = f]
<1>1. Depth(T) > 0 /\ f \in Frames /\ mode = "run"
  BY DEF Hooking, Running
<1>2. NewTop(ci[T], r, Len(ci[T])) /\ r[Len(ci[T])] = f /\ ci' = [ci EXCEPT ![T] = r]
  BY <1>1, OwnTop
<1> HIDE DEF r
<1>3. ThreadOK(T, r, jmp[T], nC[T], nny[T], base[T], errf[T], a2, "run")
  BY <1>2, HookTop
<1>4. /\ jmp' = [jmp EXCEPT ![T] = jmp[T]]
      /\ nC' = [nC EXCEPT ![T] = nC[T]] /\ nny' = [nny EXCEPT ![T] = nny[T]]
      /\ errf' = [errf EXCEPT ![T] = errf[T]] /\ allow' = [allow EXCEPT ![T] = a2]
      /\ active' = active /\ status' = status /\ base' = base /\ mode' = "run"
  BY <1>1 DEF IInv, TypeOK
<1> QED BY <1>2, <1>3, <1>4, OwnStep, ZenonT(40) DEF Modes

(***************************************************************************)
(* luaD_hook turns hooks off and calls the hook.                           *)
(***************************************************************************)
LEMMA StartHookStep ==
  ASSUME IInv, StartHook
  PROVE  IInv'
<1> DEFINE g == Top
           f == [g EXCEPT !.hook = TRUE]
<1>1. /\ Running /\ IsLuaCode(g) /\ allow[T] /\ ci' = SetTop(f)
      /\ allow' = [allow EXCEPT ![T] = FALSE]
      /\ UNCHANGED << active, status, nC, nny, base, errf, jmp, mode >>
  BY DEF StartHook
<1>2. g \in Frames /\ g = Top /\ allow[T] \in BOOLEAN
  BY <1>1, RunningTop, RunningThread
<1>3. ci' = SetTop(f)
  BY <1>1
<1> HIDE DEF g
<1>4. f \in Frames /\ Hooking(f, g) /\ f.hook /\ ~g.hook
  BY <1>1, <1>2 DEF Frames, Hooking, IsLuaCode
<1> HIDE DEF f
<1>5. Switched(f, g, allow[T], FALSE)
  BY <1>1, <1>2, <1>4 DEF Frames, Switched
<1>6. allow' = [allow EXCEPT ![T] = FALSE]
  BY <1>1
<1> QED BY <1>1, <1>2, <1>3, <1>4, <1>5, <1>6, HookStep

(***************************************************************************)
(* luaD_hook turns hooks on again when the hook returns.                   *)
(***************************************************************************)
LEMMA EndHookStep ==
  ASSUME IInv, EndHook
  PROVE  IInv'
<1> DEFINE g == Top
           f == [g EXCEPT !.hook = FALSE]
<1>1. /\ Running /\ g.hook /\ ci' = SetTop(f)
      /\ allow' = [allow EXCEPT ![T] = TRUE]
      /\ UNCHANGED << active, status, nC, nny, base, errf, jmp, mode >>
  BY DEF EndHook
<1>2. /\ g \in Frames /\ g = Top /\ FrameShape(g) /\ allow[T] \in BOOLEAN
      /\ StackOK(T, ci[T], jmp[T], nC[T], nny[T], base[T], errf[T], allow[T], "run")
      /\ Depth(T) \in 1 .. Len(ci[T]) /\ g = ci[T][Depth(T)]
  BY <1>1, RunningTop, RunningThread, TopFrame DEF Top
<1>3. ~allow[T]
  <2>1. InForce(T, ci[T], errf[T], allow[T], "run")
    BY <1>2 DEF StackOK
  <2>2. allow[T] => NoHook(ci[T], Len(ci[T]))
    BY <2>1 DEF InForce, Settled, HookIs
  <2> QED BY <1>1, <1>2, <2>2 DEF NoHook
<1>4. ci' = SetTop(f)
  BY <1>1
<1> HIDE DEF g
<1>5. f \in Frames /\ Hooking(f, g) /\ ~f.hook /\ g.hook /\ g.hook \in BOOLEAN
  BY <1>1, <1>2 DEF Frames, Hooking, FrameShape
<1> HIDE DEF f
<1>6. Switched(f, g, allow[T], TRUE)
  BY <1>2, <1>3, <1>5 DEF Frames, Switched
<1>7. allow' = [allow EXCEPT ![T] = TRUE]
  BY <1>1
<1> QED BY <1>1, <1>2, <1>4, <1>5, <1>6, <1>7, HookStep

-----------------------------------------------------------------------------
(***************************************************************************)
(* A call stack of one CallInfo.                                           *)
(***************************************************************************)
LEMMA OneFrame ==
  ASSUME NEW f \in Frames
  PROVE  << f >> \in Seq(Frames) /\ Len(<< f >>) = 1 /\ << f >>[1] = f
  OBVIOUS

(***************************************************************************)
(* The main thread runs the host program's function.                       *)
(***************************************************************************)
LEMMA MainStarts ==
  ASSUME NEW f, f = NewFrame("C", FALSE), NEW s, s = << f >>, NEW a, a = TRUE
  PROVE  ThreadOK(Main, s, << >>, 0, 1, 0, 0, a, "run")
<1>1. /\ f \in Frames /\ f.fn = "C" /\ f.doing = "none" /\ ~f.msgh
      /\ f.live /\ ~f.k /\ ~f.ypcall /\ ~f.recst /\ ~f.hook
  <2> DEFINE g == NewFrame("C", FALSE)
  <2>1. /\ g \in Frames /\ g.fn = "C" /\ g.doing = "none" /\ ~g.msgh
        /\ g.live /\ ~g.k /\ ~g.ypcall /\ ~g.recst /\ ~g.hook
    BY NewFrameFields DEF Functions
  <2> QED BY <2>1
<1>2. s \in Seq(Frames) /\ Len(s) = 1 /\ s[1] = f /\ Frame(s) = f
  <2>1. s \in Seq(Frames) /\ Len(s) = 1 /\ s[1] = f
    BY <1>1, OneFrame
  <2> QED BY <2>1 DEF Frame
<1>3. /\ \A i \in 1 .. 1 : i = 1
      /\ \A i \in 1 .. 0 : FALSE
      /\ 1 \in Nat /\ 0 \in Nat /\ 1 - 1 = 0
  OBVIOUS
<1>4. FrameShape(f)
  BY <1>1 DEF FrameShape
<1>5. /\ CCallsIn(s, 1) = 0 /\ HeldIn(s, 1) = 0 /\ HandledIn(s, 1) = 0
  <2>1. \A i \in 1 .. 1 : s[i].doing = "none" /\ ~s[i].msgh
    BY <1>1, <1>2, <1>3
  <2>2. \A i \in 1 .. 1 : s[i].doing \notin CDoing /\ s[i].doing \notin Held
    BY <2>1 DEF CDoing, Held
  <2> QED BY <1>3, <2>1, <2>2, CountTypes
<1>6. HandlerIn(s, 1) = 0 /\ NoHook(s, 1) /\ NoneHandled(s, 1)
  <2>1. ~\E i \in 1 .. 1 : s[i].doing \in Protected
    BY <1>1, <1>2, <1>3 DEF Protected
  <2> QED BY <1>1, <1>2, <1>3, <2>1 DEF HandlerIn, NoHook, NoneHandled
<1>7. ThreadTypes(s, << >>, 0, 1, 0, 0, a)
  <2>1. << >> \in Seq(Saved)
    OBVIOUS
  <2>2. a \in BOOLEAN
    OBVIOUS
  <2> QED BY <1>2, <1>3, <2>1, <2>2 DEF ThreadTypes
<1>8. Shapes(s, "run") /\ TopOK(s, "run") /\ MainOK(Main, s, "run")
  <2>1. Shapes(s, "run")
    <3>1. \A i \in 1 .. Len(s) : s[i] = f
      BY <1>2, <1>3
    <3>2. \A i \in 1 .. Len(s) - 1 : FALSE
      BY <1>2, <1>3
    <3> QED BY <1>1, <1>4, <3>1, <3>2 DEF Shapes
  <2>2. TopOK(s, "run")
    BY <1>1, <1>2 DEF TopOK
  <2>3. MainOK(Main, s, "run")
    <3>1. /\ Len(s) > 0 /\ ~(Len(s) > 1) /\ s[1].fn = "C"
          /\ \A i \in 1 .. Len(s) : s[i].live
      <4>1. Len(s) > 0 /\ ~(Len(s) > 1)
        BY <1>2
      <4>2. \A i \in 1 .. Len(s) : s[i] = f
        BY <1>2, <1>3
      <4> QED BY <1>1, <1>2, <4>1, <4>2
    <3>2. "run" \in {"run", "raise", "throw", "wait"} /\ "run" \notin {"raise", "throw"}
      OBVIOUS
    <3> QED BY <3>1, <3>2 DEF MainOK
  <2> QED BY <2>1, <2>2, <2>3
<1>9. Nested(Main, s) /\ OneHook(s)
  BY <1>1, <1>2, <1>3 DEF Nested, NestedAt, OneHook
<1>10. Buffers(Main, s, << >>, 0)
  BY <1>1, <1>2, <1>3, EmptyBuffers DEF IsLanding
<1>11. Counts(Main, s, 0, 1, 0, "run")
  <2>1. One(Main) = 1
    BY DEF One
  <2>2. CountC(s, 1, 0, 0) /\ CountY(Main, s, 1, 1)
    BY <1>5, <2>1 DEF CountC, CountY
  <2> QED BY <1>2, <1>5, <2>1, <2>2 DEF Counts
<1>12. InForce(Main, s, 0, a, "run")
  BY <1>2, <1>6 DEF InForce, HookIs
<1>13. Bounded(0, 0, "run")
  BY LimitAssumption DEF Bounded
<1> QED BY <1>7, <1>8, <1>9, <1>10, <1>11, <1>12, <1>13 DEF ThreadOK, StackOK

(***************************************************************************)
(* Every initial state has the invariant: the coroutines are ready to      *)
(* start.                                                                  *)
(***************************************************************************)
LEMMA InitIInv ==
  Init => IInv
<1> SUFFICES ASSUME Init PROVE IInv
  OBVIOUS
<1> DEFINE s == << NewFrame("C", FALSE) >>
<1>1. /\ active = << Main >> /\ mode = "run"
      /\ ci = [t \in Threads |-> IF t = Main THEN s ELSE << >>]
      /\ status = [t \in Threads |-> "OK"]
      /\ nC = [t \in Threads |-> 0]
      /\ nny = [t \in Threads |-> IF t = Main THEN 1 ELSE 0]
      /\ base = [t \in Threads |-> 0] /\ errf = [t \in Threads |-> 0]
      /\ allow = [t \in Threads |-> TRUE] /\ jmp = [t \in Threads |-> << >>]
  BY DEF Init
<1>2. s \in Seq(Frames)
  BY OneFrame, NewFrameFields DEF Functions
<1>3. Main \in Threads
  BY DEF Threads
<1>4. Len(active) = 1 /\ active[1] = Main /\ active \in Seq(Threads) /\ active # << >>
  BY <1>1, <1>3
<1>5. T = Main
  BY <1>4 DEF T
<1>6. \A t \in Threads : t # Main => ~IsActive(t)
  BY <1>4 DEF IsActive
<1>7. << >> \in Seq(Frames) /\ << >> \in Seq(Saved)
  OBVIOUS
<1> HIDE DEF s
<1>8. TypeOK
  <2>1. ci \in [Threads -> Seq(Frames)] /\ jmp \in [Threads -> Seq(Saved)]
    BY <1>1, <1>2, <1>7
  <2>2. /\ status \in [Threads -> {"OK", "YIELD", "ERR"}]
        /\ allow \in [Threads -> BOOLEAN] /\ mode \in Modes
    BY <1>1 DEF Modes
  <2>3. /\ nC \in [Threads -> Nat] /\ nny \in [Threads -> Nat]
        /\ base \in [Threads -> Nat] /\ errf \in [Threads -> Nat]
    BY <1>1
  <2> QED BY <1>4, <2>1, <2>2, <2>3 DEF TypeOK
<1>9. ActiveOK
  <2>1. \A i \in 1 .. Len(active) : i = 1
    BY <1>4
  <2>2. status[Main] = "OK"
    BY <1>1, <1>3
  <2> QED BY <1>4, <2>1, <2>2 DEF ActiveOK
<1>10. ThreadInv(Main)
  <2>1. Role(Main) = "run"
    BY <1>1, <1>3, <1>5 DEF Role
  <2>2. /\ ci[Main] = s /\ jmp[Main] = << >>
        /\ nC[Main] = 0 /\ nny[Main] = 1 /\ base[Main] = 0 /\ errf[Main] = 0
        /\ allow[Main] = TRUE
    BY <1>1, <1>3
  <2>3. ThreadOK(Main, s, << >>, 0, 1, 0, 0, TRUE, "run")
    BY MainStarts DEF s
  <2> QED BY <2>1, <2>2, <2>3 DEF ThreadInv
<1>11. \A t \in Threads : t # Main => ThreadInv(t)
  <2> SUFFICES ASSUME NEW t \in Threads, t # Main PROVE ThreadInv(t)
    OBVIOUS
  <2>1. Role(t) = "idle"
    BY <1>1, <1>5, <1>6 DEF Role
  <2>2. /\ ci[t] = << >> /\ jmp[t] = << >> /\ nC[t] = 0 /\ nny[t] = 0
        /\ base[t] = 0 /\ errf[t] = 0 /\ allow[t] = TRUE
    BY <1>1
  <2>3. ThreadOK(t, << >>, << >>, 0, 0, 0, 0, TRUE, "idle")
    <3>1. "idle" \in {"idle", "raise"} /\ "idle" # "raise" /\ TRUE \in BOOLEAN /\ 0 \in Nat
      OBVIOUS
    <3> QED BY <3>1, EmptyStack
  <2> QED BY <2>1, <2>2, <2>3 DEF ThreadInv
<1> QED BY <1>8, <1>9, <1>10, <1>11 DEF IInv

(***************************************************************************)
(* Every step of calls, errors, yields and resumes keeps the invariant.    *)
(***************************************************************************)
LEMMA NextIInv ==
  IInv /\ [Next]_vars => IInv'
<1> SUFFICES ASSUME IInv, [Next]_vars PROVE IInv'
  OBVIOUS
<1>1. CASE LuaCall \/ CallK \/ PCallK
  BY <1>1, LuaCallStep, CallKStep, PCallKStep
<1>2. CASE Return \/ ReturnFromHandler \/ ReturnToUnroll
  BY <1>2, ReturnStep, ReturnFromHandlerStep, ReturnToUnrollStep
<1>3. CASE Raise \/ ErrorMsg \/ ThrowToPCall
  BY <1>3, RaiseStep, ErrorMsgStep, ThrowToPCallStep
<1>4. CASE ThrowToResume \/ Precover \/ Die
  BY <1>4, ThrowToResumeStep, PrecoverStep, DieStep
<1>5. CASE UnrollLua \/ UnrollC \/ UnrollEnd
  BY <1>5, UnrollLuaStep, UnrollCStep, UnrollEndStep
<1>6. CASE Yield \/ ResumeNew \/ ResumeSuspended \/ CloseThread
  BY <1>6, YieldStep, ResumeNewStep, ResumeSuspendedStep, CloseThreadStep
<1>7. CASE StartHook \/ EndHook
  BY <1>7, StartHookStep, EndHookStep
<1>8. CASE UNCHANGED vars
  <2>1. /\ active' = active /\ ci' = ci /\ status' = status /\ nC' = nC /\ nny' = nny
        /\ base' = base /\ errf' = errf /\ allow' = allow /\ jmp' = jmp /\ mode' = mode
    BY <1>8 DEF vars
  <2>2. TypeOK' /\ ActiveOK'
    BY <2>1 DEF IInv, TypeOK, ActiveOK
  <2>3. \A t \in Threads : ThreadInv(t)'
    <3> SUFFICES ASSUME NEW t \in Threads PROVE ThreadInv(t)'
      OBVIOUS
    <3>1. Role(t)' = Role(t)
      BY <2>1 DEF Role, IsActive, T
    <3> QED BY <2>1, <3>1, SameThread DEF IInv
  <2> QED BY <2>2, <2>3 DEF IInv
<1> QED BY <1>1, <1>2, <1>3, <1>4, <1>5, <1>6, <1>7, <1>8 DEF Next

(***************************************************************************)
(* The inductive invariant holds in every state.                           *)
(***************************************************************************)
THEOREM Invariance == Spec => []IInv
BY InitIInv, NextIInv, PTL DEF Spec

-----------------------------------------------------------------------------
(***************************************************************************)
(* The state has its type: the fields of lua_State and of the CallInfos.   *)
(***************************************************************************)
THEOREM TypeCorrect == Spec => []TypeOK
<1>1. IInv => TypeOK
  BY DEF IInv
<1> QED BY Invariance, <1>1, PTL

-----------------------------------------------------------------------------
(***************************************************************************)
(* The longjmp buffers of one thread are of luaD_pcalls whose activations  *)
(* are there, innermost last; a thread that may yield has none.            *)
(***************************************************************************)
LEMMA BuffersLand ==
  ASSUME NEW t, NEW s, NEW j, NEW c, NEW y, NEW b, NEW e, NEW a, NEW role,
         ThreadOK(t, s, j, c, y, b, e, a, role)
  PROVE  /\ \A i \in 1 .. Len(j) :
              /\ j[i].lvl \in 1 .. Len(s)
              /\ s[j[i].lvl].live /\ s[j[i].lvl].doing = "pcall"
              /\ i > 1 => j[i - 1].lvl < j[i].lvl
         /\ y = 0 => j = << >>
<1>1. s \in Seq(Frames) /\ j \in Seq(Saved) /\ y \in Nat
  BY DEF ThreadOK, ThreadTypes
<1>2. Len(s) \in Nat /\ Len(j) \in Nat
  BY <1>1, LenProperties
<1>3. CASE role = "err"
  <2>1. j = << >>
    BY <1>3 DEF ThreadOK
  <2>2. Len(j) = 0 /\ \A i \in 1 .. 0 : FALSE
    BY <2>1
  <2> QED BY <2>1, <2>2
<1>4. CASE role # "err"
  <2>1. StackOK(t, s, j, c, y, b, e, a, role)
    BY <1>4 DEF ThreadOK
  <2>2. Buffers(t, s, j, b)
    BY <2>1 DEF StackOK
  <2>3. \A i \in 1 .. Len(j) :
           j[i].lvl \in 1 .. Len(s) /\ s[j[i].lvl].live /\ s[j[i].lvl].doing = "pcall"
    BY <2>2 DEF Buffers, Lands
  <2>4. ASSUME NEW i \in 1 .. Len(j), i > 1 PROVE j[i - 1].lvl < j[i].lvl
    <3>1. i - 1 \in 1 .. Len(j) /\ i - 1 < i
      BY <1>2, <2>4
    <3> QED BY <2>2, <3>1 DEF Buffers
  <2>5. ASSUME y = 0, j # << >> PROVE FALSE
    <3>1. role # "idle"
      BY <2>5, EmptyFacts
    <3>2. y >= One(t) + HeldIn(s, Len(s)) + HandledIn(s, Len(s))
      BY <2>1, <3>1 DEF StackOK, Counts
    <3>3. HeldIn(s, Len(s)) \in Nat /\ HandledIn(s, Len(s)) \in Nat /\ One(t) \in Nat
      BY <1>2, CountTypes DEF One
    <3>4. HeldIn(s, Len(s)) = 0
      BY <2>5, <3>2, <3>3
    <3>5. Len(j) # 0
      BY <1>1, <2>5, EmptySeq
    <3>6. 1 \in 1 .. Len(j)
      BY <1>2, <3>5
    <3>7. PICK l \in 1 .. Len(s) : s[l].live /\ s[l].doing = "pcall"
      BY <2>3, <3>6
    <3>8. ~(s[l].live /\ s[l].doing \in Held)
      BY <1>2, <3>4, CountTypes
    <3> QED BY <3>7, <3>8 DEF Held
  <2> QED BY <2>3, <2>4, <2>5
<1> QED BY <1>3, <1>4

(***************************************************************************)
(* A longjmp only goes to an activation that is still on the C stack, and  *)
(* LUA_YIELD is only thrown when lua_resume is at the head of L->errorJmp. *)
(***************************************************************************)
THEOREM LongjmpsLand == Spec => []JumpsLand
<1>1. ASSUME IInv PROVE JumpsLand
  <2> SUFFICES ASSUME NEW t \in Threads
               PROVE  /\ \A i \in 1 .. Len(jmp[t]) :
                           /\ jmp[t][i].lvl \in 1 .. Depth(t)
                           /\ ci[t][jmp[t][i].lvl].live
                           /\ ci[t][jmp[t][i].lvl].doing = "pcall"
                           /\ i > 1 => jmp[t][i - 1].lvl < jmp[t][i].lvl
                      /\ nny[t] = 0 => jmp[t] = << >>
    BY DEF JumpsLand
  <2>1. ThreadOK(t, ci[t], jmp[t], nC[t], nny[t], base[t], errf[t], allow[t], Role(t))
    BY <1>1 DEF IInv, ThreadInv
  <2> QED BY <2>1, BuffersLand DEF Depth
<1> QED BY Invariance, <1>1, PTL

-----------------------------------------------------------------------------
(***************************************************************************)
(* In a thread that is neither dead nor in luaD_throw's hands, a C         *)
(* function without its activation waits in lua_callk or lua_pcallk with a *)
(* continuation, or is the one that yielded.                               *)
(***************************************************************************)
LEMMA DeadFunctions ==
  ASSUME NEW t, NEW s, NEW j, NEW c, NEW y, NEW b, NEW e, NEW a, NEW role,
         ThreadOK(t, s, j, c, y, b, e, a, role), role # "err", role # "caught",
         NEW i \in 1 .. Len(s), s[i].fn = "C", ~s[i].live
  PROVE  \/ s[i].k /\ s[i].doing \in {"callk", "pcallk"}
         \/ i = Len(s) /\ s[i].doing \in {"yield", "yieldk"}
<1>1. Shapes(s, role) /\ s \in Seq(Frames)
  BY DEF ThreadOK, StackOK, ThreadTypes
<1>2. s[i] \in Frames /\ Len(s) \in Nat
  BY <1>1, ElementOfSeq, LenProperties
<1>3. FrameShape(s[i]) /\ DeadShape(s[i])
  BY <1>1 DEF Shapes
<1>4. s[i].doing \in {"callk", "pcallk", "yield", "yieldk"}
  BY <1>2, <1>3 DEF Frames, Doing, FrameShape, DeadShape
<1>5. s[i].doing \in {"callk", "pcallk"} => s[i].k
  BY <1>3 DEF FrameShape
<1>6. ASSUME i # Len(s) PROVE s[i].doing \notin {"yield", "yieldk"}
  <2>1. i \in 1 .. Len(s) - 1
    BY <1>2, <1>6
  <2>2. Waits(s[i])
    BY <1>1, <2>1 DEF Shapes
  <2> QED BY <1>4, <2>2 DEF Waits, Pending
<1> QED BY <1>4, <1>5, <1>6

(***************************************************************************)
(* A C function whose activation is gone has a continuation to go on with  *)
(* (the assertion in finishCcall), unless it is the one that yielded.      *)
(***************************************************************************)
THEOREM FunctionsCanBeContinued == Spec => []CanBeContinued
<1>1. ASSUME IInv PROVE CanBeContinued
  <2> SUFFICES ASSUME NEW t \in Threads, status[t] # "ERR", NEW i \in 1 .. Depth(t),
                      ci[t][i].fn = "C", ~ci[t][i].live
               PROVE  \/ ci[t][i].k /\ ci[t][i].doing \in {"callk", "pcallk"}
                      \/ i = Depth(t) /\ ci[t][i].doing \in {"yield", "yieldk"}
                      \/ t = T /\ mode = "caught"
    BY DEF CanBeContinued
  <2>1. ThreadOK(t, ci[t], jmp[t], nC[t], nny[t], base[t], errf[t], allow[t], Role(t))
    BY <1>1 DEF IInv, ThreadInv
  <2>2. mode # "err"
    BY <1>1, RunningThread DEF Modes
  <2>3. Role(t) # "err" /\ (Role(t) = "caught" => t = T /\ mode = "caught")
    BY <2>2 DEF Role
  <2>4. i \in 1 .. Len(ci[t])
    BY DEF Depth
  <2>5. CASE Role(t) = "caught"
    BY <2>3, <2>5
  <2>6. CASE Role(t) # "caught"
    BY <2>1, <2>3, <2>4, <2>6, DeadFunctions DEF Depth
  <2> QED BY <2>5, <2>6
<1> QED BY Invariance, <1>1, PTL

-----------------------------------------------------------------------------
(***************************************************************************)
(* While no error is in flight, the counts of an active thread are those   *)
(* of its CallInfos.                                                       *)
(***************************************************************************)
LEMMA CountsOfThread ==
  ASSUME NEW t, NEW s, NEW j, NEW c, NEW y, NEW b, NEW e, NEW a,
         NEW role \in {"run", "unroll", "wait"},
         ThreadOK(t, s, j, c, y, b, e, a, role), \A i \in 1 .. Len(s) : ~s[i].msgh
  PROVE  c = b + CCallsIn(s, Len(s)) /\ y = HeldIn(s, Len(s)) + One(t)
<1>1. role # "err" /\ role # "idle" /\ role # "throw"
  OBVIOUS
<1>2. CountC(s, Len(s), c, b) /\ CountY(t, s, Len(s), y)
  BY <1>1 DEF ThreadOK, StackOK, Counts
<1>3. NoneHandled(s, Len(s))
  BY DEF NoneHandled
<1>4. y = One(t) + HeldIn(s, Len(s)) /\ c = b + CCallsIn(s, Len(s))
  BY <1>2, <1>3 DEF CountC, CountY
<1>5. One(t) \in Nat /\ HeldIn(s, Len(s)) \in Nat
  <2>1. Len(s) \in Nat
    BY LenProperties DEF ThreadOK, ThreadTypes
  <2> QED BY <2>1, CountTypes DEF One
<1> QED BY <1>4, <1>5

(***************************************************************************)
(* L->nCcalls is what the C stack of the thread really holds, so that a    *)
(* thread is never left unyieldable, nor short of C stack, by an error or  *)
(* a yield that went through it.                                           *)
(***************************************************************************)
THEOREM CountsAreExact == Spec => []CountsAreRight
<1>1. ASSUME IInv PROVE CountsAreRight
  <2> SUFFICES ASSUME NEW t \in {active[i] : i \in 1 .. Len(active)},
                      \A i \in 1 .. Depth(t) : ~ci[t][i].msgh,
                      mode \in {"run", "unroll"}
               PROVE  /\ nC[t] = base[t] + CCalls(t)
                      /\ nny[t] = NoYieldCalls(t) + (IF t = Main THEN 1 ELSE 0)
    BY DEF CountsAreRight
  <2>1. PICK i \in 1 .. Len(active) : active[i] = t
    OBVIOUS
  <2>2. t \in Threads
    BY <1>1, <2>1, ElementOfSeq DEF IInv, TypeOK
  <2>3. status[t] = "OK" /\ IsActive(t)
    BY <1>1, <2>1 DEF IInv, ActiveOK, IsActive
  <2>4. Role(t) \in {"run", "unroll", "wait"}
    BY <2>3 DEF Role
  <2>5. ThreadOK(t, ci[t], jmp[t], nC[t], nny[t], base[t], errf[t], allow[t], Role(t))
    BY <1>1, <2>2 DEF IInv, ThreadInv
  <2>6. /\ nC[t] = base[t] + CCallsIn(ci[t], Depth(t))
        /\ nny[t] = HeldIn(ci[t], Depth(t)) + One(t)
    BY <2>4, <2>5, CountsOfThread DEF Depth
  <2>7. CCalls(t) = CCallsIn(ci[t], Depth(t)) /\ NoYieldCalls(t) = HeldIn(ci[t], Depth(t))
    BY DEF CCalls, NoYieldCalls, CCallsIn, HeldIn, CDoing, Held
  <2> QED BY <2>6, <2>7 DEF One
<1> QED BY Invariance, <1>1, PTL

-----------------------------------------------------------------------------
(***************************************************************************)
(* A thread that no error is being taken through has its own handler and   *)
(* hook switch in force.                                                   *)
(***************************************************************************)
LEMMA SettledThread ==
  ASSUME IInv, NEW t \in Threads, status[t] # "ERR", t = T => mode \in {"run", "raise"}
  PROVE  errf[t] = HandlerIn(ci[t], Depth(t)) /\ HookIs(t, ci[t], Depth(t), allow[t])
<1>1. ThreadOK(t, ci[t], jmp[t], nC[t], nny[t], base[t], errf[t], allow[t], Role(t))
  BY DEF IInv, ThreadInv
<1>2. Role(t) # "err" /\ Role(t) # "unroll"
  BY DEF Role
<1>3. InForce(t, ci[t], errf[t], allow[t], Role(t))
  BY <1>1, <1>2 DEF ThreadOK, StackOK
<1>4. Settled(ci[t], Role(t))
  BY <1>2 DEF Settled
<1> QED BY <1>3, <1>4 DEF InForce, Depth

(***************************************************************************)
(* The message handler in force is the one of the innermost protected call *)
(* of the thread, however the calls inside of it ended.                    *)
(***************************************************************************)
THEOREM HandlerIsInForce == Spec => []HandlerInForce
<1>1. ASSUME IInv PROVE HandlerInForce
  <2> SUFFICES ASSUME NEW t \in Threads, status[t] # "ERR",
                      t = T => mode \in {"run", "raise"}
               PROVE  errf[t] = InnermostHandler(t)
    BY DEF HandlerInForce
  <2>1. errf[t] = HandlerIn(ci[t], Depth(t))
    BY <1>1, SettledThread
  <2>2. InnermostHandler(t) = HandlerIn(ci[t], Depth(t))
    BY DEF InnermostHandler, HandlerIn, Protected
  <2> QED BY <2>1, <2>2
<1> QED BY Invariance, <1>1, PTL

(***************************************************************************)
(* Hooks are off exactly while a hook runs in the thread, also after       *)
(* errors that left the hook.                                              *)
(***************************************************************************)
THEOREM HooksAreSwitched == Spec => []HookSwitch
<1>1. ASSUME IInv PROVE HookSwitch
  <2> SUFFICES ASSUME NEW t \in Threads \ Closable, status[t] # "ERR",
                      t = T => mode \in {"run", "raise"}
               PROVE  allow[t] = (\A i \in 1 .. Depth(t) : ~ci[t][i].hook)
    BY DEF HookSwitch
  <2>1. HookIs(t, ci[t], Depth(t), allow[t])
    BY <1>1, SettledThread
  <2>2. allow[t] <=> \A i \in 1 .. Depth(t) : ~ci[t][i].hook
    BY <2>1 DEF HookIs, NoHook
  <2>3. allow[t] \in BOOLEAN
    BY <1>1 DEF IInv, TypeOK
  <2> QED BY <2>2, <2>3
<1> QED BY Invariance, <1>1, PTL

-----------------------------------------------------------------------------
(***************************************************************************)
(* Where every resume counts from its resumer, a coroutine starts with a   *)
(* count above that of the thread that waits for it.                       *)
(***************************************************************************)
CountsFromResumer ==
  \A k \in 1 .. Len(active) - 1 : nC[active[k]] < base[active[k + 1]]

StackInv == IInv /\ CountsFromResumer

(***************************************************************************)
(* The threads that wait are threads, and not the running one.             *)
(***************************************************************************)
LEMMA WaitingThreads ==
  ASSUME IInv, NEW k \in 1 .. Len(active) - 1
  PROVE  /\ Len(active) \in Nat /\ k \in 1 .. Len(active) /\ k + 1 \in 1 .. Len(active)
         /\ active[k] \in Threads /\ active[k + 1] \in Threads /\ active[k] # T
<1>1. active \in Seq(Threads) /\ Len(active) \in Nat
  BY RunningThread DEF IInv, TypeOK
<1>2. k \in 1 .. Len(active) /\ k + 1 \in 1 .. Len(active) /\ k # Len(active)
  BY <1>1
<1>3. Len(active) \in 1 .. Len(active)
  BY RunningThread
<1>4. active[k] # T
  BY <1>2, <1>3 DEF IInv, ActiveOK, T
<1> QED BY <1>1, <1>2, <1>4, ElementOfSeq

(***************************************************************************)
(* A step that leaves the threads that wait as they are, in the running    *)
(* thread or back to its resumer.                                          *)
(***************************************************************************)
LEMMA WaitersKeepCounts ==
  ASSUME StackInv, base' = base, active' = active \/ active' = Front(active),
         \A t \in Threads : t # T /\ IsActive(t) => nC'[t] = nC[t]
  PROVE  CountsFromResumer'
<1>1. ASSUME NEW k \in 1 .. Len(active) - 1
      PROVE  nC'[active[k]] < base'[active[k + 1]]
  <2>1. active[k] \in Threads /\ active[k] # T /\ k \in 1 .. Len(active)
    BY WaitingThreads DEF StackInv
  <2>2. IsActive(active[k])
    BY <2>1 DEF IsActive
  <2>3. nC'[active[k]] = nC[active[k]]
    BY <2>1, <2>2
  <2> QED BY <2>3 DEF StackInv, CountsFromResumer
<1>2. CASE active' = active
  BY <1>1, <1>2 DEF CountsFromResumer
<1>3. CASE active' = Front(active)
  <2>1. active \in Seq(Threads) /\ Len(active) \in Nat /\ Len(active) > 0
    BY RunningThread DEF StackInv, IInv, TypeOK
  <2>2. Len(active) - 1 \in 0 .. Len(active)
    BY <2>1
  <2>3. /\ Len(active') = Len(active) - 1
        /\ \A i \in 1 .. Len(active) - 1 : active'[i] = active[i]
    BY <1>3, <2>1, <2>2, CutIsPrefix DEF Front
  <2>4. ASSUME NEW k \in 1 .. Len(active') - 1
        PROVE  nC'[active'[k]] < base'[active'[k + 1]]
    <3>1. k \in 1 .. Len(active) - 1 /\ k + 1 \in 1 .. Len(active) - 1
      BY <2>1, <2>3
    <3> QED BY <1>1, <2>3, <3>1
  <2> QED BY <2>4 DEF CountsFromResumer
<1> QED BY <1>2, <1>3

(***************************************************************************)
(* lua_resume starts the coroutine with the resumer's count and one more.  *)
(***************************************************************************)
LEMMA ResumedCounts ==
  ASSUME StackInv, NEW u \in Coroutines, Idle(u), StartCount(u, FALSE)
  PROVE  CountsFromResumer'
<1>1. IInv /\ active \in Seq(Threads) /\ Len(active) \in Nat /\ Len(active) > 0
  BY RunningThread DEF StackInv, IInv, TypeOK
<1>2. u \in Threads /\ ~IsActive(u)
  BY <1>1, IdleThread
<1>3. /\ nC' = [nC EXCEPT ![u] = nC[T] + 1] /\ base' = [base EXCEPT ![u] = nC[T] + 1]
      /\ active' = Append(active, u)
  BY DEF StartCount, From
<1>4. /\ nC \in [Threads -> Nat] /\ base \in [Threads -> Nat] /\ T \in Threads
      /\ nC[T] \in Nat
  BY <1>1, RunningThread DEF IInv, TypeOK
<1>5. /\ Len(active') = Len(active) + 1
      /\ \A i \in 1 .. Len(active) : active'[i] = active[i]
      /\ active'[Len(active) + 1] = u
  BY <1>1, <1>2, <1>3, AppendProperties
<1>6. \A t \in Threads : IsActive(t) => nC'[t] = nC[t] /\ base'[t] = base[t]
  BY <1>2, <1>3, <1>4
<1>7. \A i \in 1 .. Len(active) : IsActive(active[i]) /\ active[i] \in Threads
  BY <1>1, ElementOfSeq DEF IsActive
<1>8. ASSUME NEW k \in 1 .. Len(active') - 1
      PROVE  nC'[active'[k]] < base'[active'[k + 1]]
  <2>1. k \in 1 .. Len(active)
    BY <1>1, <1>5
  <2>2. active'[k] = active[k] /\ nC'[active[k]] = nC[active[k]]
    BY <1>5, <1>6, <1>7, <2>1
  <2>3. CASE k = Len(active)
    <3>1. active[k] = T /\ active'[k + 1] = u
      BY <1>5, <2>3 DEF T
    <3>2. base'[u] = nC[T] + 1
      BY <1>2, <1>3, <1>4
    <3> QED BY <1>4, <2>2, <3>1, <3>2
  <2>4. CASE k # Len(active)
    <3>1. k \in 1 .. Len(active) - 1 /\ k + 1 \in 1 .. Len(active)
      BY <1>1, <2>1, <2>4
    <3>2. active'[k + 1] = active[k + 1] /\ base'[active[k + 1]] = base[active[k + 1]]
      BY <1>5, <1>6, <1>7, <3>1
    <3>3. nC[active[k]] < base[active[k + 1]]
      BY <3>1 DEF StackInv, CountsFromResumer
    <3> QED BY <2>2, <3>2, <3>3
  <2> QED BY <2>3, <2>4
<1> QED BY <1>8 DEF CountsFromResumer

(***************************************************************************)
(* The counts of the threads that wait, over every step.                   *)
(***************************************************************************)
LEMMA NextStackInv ==
  ASSUME CompatResumes = FALSE, StackInv, [Next]_vars
  PROVE  StackInv'
<1>1. IInv /\ IInv'
  BY NextIInv DEF StackInv
<1>2. nC \in [Threads -> Nat] /\ T \in Threads
  BY <1>1, RunningThread DEF IInv, TypeOK
<1> SUFFICES CountsFromResumer'
  BY <1>1 DEF StackInv
<1> DEFINE Kept == /\ base' = base /\ (active' = active \/ active' = Front(active))
                   /\ \A t \in Threads : t # T /\ IsActive(t) => nC'[t] = nC[t]
<1>3. Kept => CountsFromResumer'
  BY WaitersKeepCounts
<1>4. CASE LuaCall \/ CallK \/ PCallK \/ ErrorMsg
  <2>1. \A f, fn, calls, ny : Enter(f, fn, calls, ny) =>
           \A t \in Threads : t # T => nC'[t] = nC[t]
    BY <1>2 DEF Enter
  <2>2. base' = base /\ active' = active
    BY <1>4 DEF LuaCall, CallK, PCallK, ErrorMsg
  <2>3. (\E f, fn, calls, ny : Enter(f, fn, calls, ny)) \/ nC' = nC
    <3>1. CASE LuaCall
      BY <3>1 DEF LuaCall
    <3>2. CASE CallK
      BY <3>2 DEF CallK
    <3>3. CASE PCallK
      BY <3>3 DEF PCallK
    <3>4. CASE ErrorMsg
      BY <3>4 DEF ErrorMsg
    <3> QED BY <1>4, <3>1, <3>2, <3>3, <3>4
  <2>4. \A t \in Threads : t # T => nC'[t] = nC[t]
    BY <2>1, <2>3
  <2> QED BY <1>3, <2>2, <2>4
<1>5. CASE Return \/ ReturnFromHandler \/ ReturnToUnroll
  <2>1. base' = base /\ active' = active
    BY <1>5 DEF Return, ReturnFromHandler, ReturnToUnroll
  <2>2. \A t \in Threads : t # T => nC'[t] = nC[t]
    BY <1>2, <1>5 DEF Return, ReturnFromHandler, ReturnToUnroll, Release
  <2> QED BY <1>3, <2>1, <2>2
<1>6. CASE Raise \/ ThrowToPCall \/ ThrowToResume \/ Precover
  <2>1. base' = base /\ active' = active
    BY <1>6 DEF Raise, ThrowToPCall, ThrowToResume, Precover
  <2>2. \A t \in Threads : t # T => nC'[t] = nC[t]
    BY <1>2, <1>6 DEF Raise, ThrowToPCall, ThrowToResume, Precover, Restore
  <2> QED BY <1>3, <2>1, <2>2
<1>7. CASE UnrollLua \/ UnrollC \/ StartHook \/ EndHook
  <2>1. base' = base /\ active' = active /\ nC' = nC
    BY <1>7 DEF UnrollLua, UnrollC, StartHook, EndHook
  <2> QED BY <1>3, <2>1
<1>8. CASE Die \/ UnrollEnd \/ Yield
  <2>1. base' = base /\ active' = Front(active)
    BY <1>8 DEF Die, UnrollEnd, Yield, BackToResumer
  <2>2. \A t \in Threads : t # T => nC'[t] = nC[t]
    BY <1>2, <1>8 DEF Die, UnrollEnd, Yield
  <2> QED BY <1>3, <2>1, <2>2, SMTT(30)
<1>9. CASE CloseThread
  <2>1. PICK u \in Closable : Idle(u) /\ nC' = [nC EXCEPT ![u] = nC[T]]
    BY <1>9 DEF CloseThread
  <2>2. base' = base /\ active' = active
    BY <1>9 DEF CloseThread
  <2>3. ~IsActive(u)
    BY <2>1 DEF Idle, IsActive
  <2>4. \A t \in Threads : IsActive(t) => nC'[t] = nC[t]
    BY <1>2, <2>1, <2>3
  <2> QED BY <1>3, <2>2, <2>4
<1>10. CASE ResumeNew
  <2>1. PICK u \in Coroutines : Idle(u) /\ StartCount(u, FALSE)
    BY <1>10 DEF ResumeNew
  <2> QED BY <2>1, ResumedCounts
<1>11. CASE ResumeSuspended
  <2>1. PICK u \in Coroutines : Idle(u) /\ StartCount(u, FALSE)
    BY <1>11 DEF ResumeSuspended
  <2> QED BY <2>1, ResumedCounts
<1>12. CASE UNCHANGED vars
  BY <1>3, <1>12 DEF vars
<1> QED
  BY <1>4, <1>5, <1>6, <1>7, <1>8, <1>9, <1>10, <1>11, <1>12 DEF Next

(***************************************************************************)
(* The size of a set of tagged elements, and of a union.                   *)
(***************************************************************************)
LEMMA TaggedSize ==
  ASSUME NEW x, NEW S, IsFiniteSet(S)
  PROVE  /\ IsFiniteSet({x} \X S) /\ Cardinality(S) \in Nat
         /\ Cardinality({x} \X S) = Cardinality(S)
<1>1. IsFiniteSet({x}) /\ Cardinality({x}) = 1
  BY FS_Singleton
<1>2. Cardinality(S) \in Nat
  BY FS_CardinalityType
<1>3. /\ IsFiniteSet({x} \X S)
      /\ Cardinality({x} \X S) = Cardinality({x}) * Cardinality(S)
  BY <1>1, FS_Product
<1>4. 1 * Cardinality(S) = Cardinality(S)
  BY <1>2
<1> QED BY <1>1, <1>2, <1>3, <1>4

(***************************************************************************)
(* A union is at most as large as its parts together.                      *)
(***************************************************************************)
LEMMA UnionSize ==
  ASSUME NEW S, NEW R, IsFiniteSet(S), IsFiniteSet(R)
  PROVE  /\ IsFiniteSet(S \cup R) /\ Cardinality(S \cup R) \in Nat
         /\ Cardinality(S \cup R) <= Cardinality(S) + Cardinality(R)
<1>1. /\ IsFiniteSet(S \cup R)
      /\ Cardinality(S \cup R) =
           Cardinality(S) + Cardinality(R) - Cardinality(S \cap R)
  BY FS_Union
<1>2. IsFiniteSet(S \cap R)
  BY FS_Intersection
<1>3. /\ Cardinality(S) \in Nat /\ Cardinality(R) \in Nat
      /\ Cardinality(S \cap R) \in Nat /\ Cardinality(S \cup R) \in Nat
  BY <1>1, <1>2, FS_CardinalityType
<1> QED BY <1>1, <1>3

(***************************************************************************)
(* What a thread has on the C stack: its C calls, its calls of message     *)
(* handlers and, if it waits, the resume.                                  *)
(***************************************************************************)
LEMMA ThreadStack ==
  ASSUME IInv, NEW t \in Threads, IsActive(t)
  PROVE  /\ IsFiniteSet(CStackOf(t)) /\ Cardinality(CStackOf(t)) \in Nat
         /\ base[t] + Cardinality(CStackOf(t)) <= nC[t] + (IF t = T THEN 0 ELSE 1)
<1> DEFINE s == ci[t]
           n == Len(s)
           role == Role(t)
           A == {i \in 1 .. n : s[i].live /\ s[i].doing \in CDoing}
           H == {i \in 1 .. n : s[i].live /\ s[i].msgh}
           R == {i \in 1 .. n : s[i].live /\ s[i].doing = "resume"}
<1>1. status[t] = "OK"
  BY DEF IInv, ActiveOK, IsActive
<1>2. role = IF t = T THEN mode ELSE "wait"
  BY <1>1 DEF Role
<1>3. role \notin {"err", "idle", "yield"} /\ (t = T => role \in Modes)
  BY <1>2, RunningThread DEF Modes
<1>4. ThreadOK(t, s, jmp[t], nC[t], nny[t], base[t], errf[t], allow[t], role)
  BY DEF IInv, ThreadInv
<1>5. /\ s \in Seq(Frames) /\ n \in Nat /\ nC[t] \in Nat /\ base[t] \in Nat
      /\ Shapes(s, role) /\ TopOK(s, role)
      /\ Counts(t, s, nC[t], nny[t], base[t], role)
  BY <1>3, <1>4, LenProperties DEF ThreadOK, ThreadTypes, StackOK
<1>6. nC[t] >= base[t] + Cardinality(A) + Cardinality(H)
  BY <1>3, <1>5 DEF Counts, CCallsIn, HandledIn
<1>7. CStackOf(t) = ({"call"} \X (A \cup R)) \cup ({"handler"} \X H)
  BY DEF CStackOf, CCallsAndResumes, HandlerCalls, CDoing, Depth
<1>8. \A i \in R : i = n
  <2> SUFFICES ASSUME NEW i \in R, i # n PROVE FALSE
    OBVIOUS
  <2>1. i \in 1 .. n - 1
    BY <1>5
  <2>2. Waits(s[i])
    BY <1>5, <2>1 DEF Shapes
  <2> QED BY <2>2 DEF Waits, Pending
<1>9. t = T => R = {}
  <2> SUFFICES ASSUME t = T, NEW i \in R PROVE FALSE
    OBVIOUS
  <2>1. i = n /\ n > 0 /\ s[n].live /\ s[n].doing = "resume" /\ Frame(s) = s[n]
    BY <1>5, <1>8 DEF Frame
  <2>2. n \in 1 .. n
    BY <1>5, <2>1
  <2> HIDE DEF s, n, role, R
  <2>3. role = "run" => Frame(s).doing = "none"
    BY <1>5, <2>1 DEF TopOK, n
  <2>4. role \in {"raise", "throw"} => Frame(s).doing \in Pending \cup {"none"}
    BY <1>5, <2>1 DEF TopOK, n
  <2>5. role = "unroll" => ~Frame(s).live
    BY <1>5, <2>1 DEF TopOK, n
  <2>6. role = "caught" => ~s[n].live
    BY <1>5, <2>2 DEF TopOK, n
  <2> QED BY <1>3, <2>1, <2>3, <2>4, <2>5, <2>6 DEF Modes, Pending
<1>10. IsFiniteSet(A) /\ IsFiniteSet(H) /\ IsFiniteSet(R)
  <2>1. IsFiniteSet(1 .. n)
    <3>1. \A m \in Nat : IsFiniteSet(1 .. m)
      BY FS_Interval
    <3> QED BY <1>5, <3>1
  <2>2. A \in SUBSET (1 .. n) /\ H \in SUBSET (1 .. n) /\ R \in SUBSET (1 .. n)
    OBVIOUS
  <2> HIDE DEF A, H, R, n
  <2> QED BY <2>1, <2>2, FS_Subset
<1>11. Cardinality(R) <= (IF t = T THEN 0 ELSE 1) /\ Cardinality(R) \in Nat
  <2>1. R \in SUBSET {n}
    BY <1>8
  <2>2. IsFiniteSet({n}) /\ Cardinality({n}) = 1 /\ Cardinality({}) = 0
    BY FS_Singleton, FS_EmptySet
  <2> HIDE DEF R, n
  <2>3. Cardinality(R) <= 1 /\ Cardinality(R) \in Nat
    BY <1>10, <2>1, <2>2, FS_Subset, FS_CardinalityType
  <2> QED BY <1>9, <2>2, <2>3
<1> HIDE DEF A, H, R, s, n, role
<1>12. /\ IsFiniteSet(A \cup R)
       /\ Cardinality(A \cup R) <= Cardinality(A) + Cardinality(R)
  BY <1>10, UnionSize
<1>13. /\ IsFiniteSet({"call"} \X (A \cup R))
       /\ Cardinality({"call"} \X (A \cup R)) = Cardinality(A \cup R)
       /\ Cardinality(A \cup R) \in Nat
  BY <1>12, TaggedSize
<1>14. /\ IsFiniteSet({"handler"} \X H)
       /\ Cardinality({"handler"} \X H) = Cardinality(H) /\ Cardinality(H) \in Nat
  BY <1>10, TaggedSize
<1>15. /\ IsFiniteSet(CStackOf(t)) /\ Cardinality(CStackOf(t)) \in Nat
       /\ Cardinality(CStackOf(t)) <= Cardinality(A \cup R) + Cardinality(H)
  <2>1. /\ IsFiniteSet(CStackOf(t)) /\ Cardinality(CStackOf(t)) \in Nat
        /\ Cardinality(CStackOf(t)) <=
             Cardinality({"call"} \X (A \cup R)) + Cardinality({"handler"} \X H)
    BY <1>7, <1>13, <1>14, UnionSize
  <2> QED BY <1>13, <1>14, <2>1
<1>16. Cardinality(A) \in Nat
  BY <1>10, FS_CardinalityType
<1> QED BY <1>5, <1>6, <1>11, <1>12, <1>13, <1>14, <1>15, <1>16, SMTT(40)

(***************************************************************************)
(* The C stack of the first k threads is that of the first k - 1 and of    *)
(* thread k.                                                               *)
(***************************************************************************)
LEMMA StackOfNext ==
  ASSUME NEW k \in Nat \ {0}
  PROVE  /\ CStackUpTo(0) = {}
         /\ CStackUpTo(k) = CStackUpTo(k - 1) \cup ({k} \X CStackOf(active[k]))
<1>1. 1 .. k = (1 .. k - 1) \cup {k} /\ 1 .. 0 = {}
  OBVIOUS
<1> QED BY <1>1 DEF CStackUpTo

(***************************************************************************)
(* The thread k adds at most its own C calls to those of the threads below *)
(* it.                                                                     *)
(***************************************************************************)
LEMMA StackGrows ==
  ASSUME IInv, NEW k \in 1 .. Len(active),
         IsFiniteSet(CStackUpTo(k - 1)), Cardinality(CStackUpTo(k - 1)) <= base[active[k]]
  PROVE  /\ IsFiniteSet(CStackUpTo(k)) /\ Cardinality(CStackUpTo(k)) \in Nat
         /\ Cardinality(CStackUpTo(k)) <=
              nC[active[k]] + (IF k = Len(active) THEN 0 ELSE 1)
<1> DEFINE t == active[k]
<1>1. active \in Seq(Threads) /\ Len(active) \in Nat /\ k \in Nat \ {0}
  <2>1. active \in Seq(Threads) /\ Len(active) \in Nat
    BY RunningThread DEF IInv, TypeOK
  <2> QED BY <2>1
<1>2. t \in Threads /\ IsActive(t)
  BY <1>1, ElementOfSeq DEF IsActive
<1>3. k = Len(active) <=> t = T
  <2>1. Len(active) \in 1 .. Len(active)
    BY RunningThread
  <2> QED BY <2>1 DEF T, IInv, ActiveOK
<1>4. nC[t] \in Nat /\ base[t] \in Nat
  BY <1>2 DEF IInv, TypeOK
<1> HIDE DEF t
<1>5. /\ IsFiniteSet(CStackOf(t)) /\ Cardinality(CStackOf(t)) \in Nat
      /\ base[t] + Cardinality(CStackOf(t)) <= nC[t] + (IF t = T THEN 0 ELSE 1)
  BY <1>2, ThreadStack
<1>6. /\ IsFiniteSet({k} \X CStackOf(t))
      /\ Cardinality({k} \X CStackOf(t)) = Cardinality(CStackOf(t))
  BY <1>5, TaggedSize
<1>7. CStackUpTo(k) = CStackUpTo(k - 1) \cup ({k} \X CStackOf(t))
  BY <1>1, StackOfNext DEF t
<1>8. /\ IsFiniteSet(CStackUpTo(k)) /\ Cardinality(CStackUpTo(k)) \in Nat
      /\ Cardinality(CStackUpTo(k)) <=
           Cardinality(CStackUpTo(k - 1)) + Cardinality(CStackOf(t))
  BY <1>6, <1>7, UnionSize, SMTT(30)
<1>9. Cardinality(CStackUpTo(k - 1)) \in Nat /\ Cardinality(CStackUpTo(k - 1)) <= base[t]
  BY FS_CardinalityType DEF t
<1> QED BY <1>3, <1>4, <1>5, <1>8, <1>9, SMTT(30) DEF t

(***************************************************************************)
(* The threads below a thread have on the C stack at most what it started  *)
(* its count with, thread by thread.                                       *)
(***************************************************************************)
LEMMA StackBelow ==
  ASSUME StackInv, NEW k \in 1 .. Len(active)
  PROVE  /\ IsFiniteSet(CStackUpTo(k - 1))
         /\ Cardinality(CStackUpTo(k - 1)) <= base[active[k]]
<1>1. IInv /\ active \in Seq(Threads) /\ Len(active) \in Nat /\ base \in [Threads -> Nat]
      /\ nC \in [Threads -> Nat]
  BY RunningThread DEF StackInv, IInv, TypeOK
<1> DEFINE Fits(i) == /\ IsFiniteSet(CStackUpTo(i))
                      /\ Cardinality(CStackUpTo(i)) <= base[active[i + 1]]
           S == {i \in Nat : i + 1 \in 1 .. Len(active) => Fits(i)}
<1>2. 0 \in S
  <2>1. CStackUpTo(0) = {} 
    BY StackOfNext
  <2>2. IsFiniteSet({}) /\ Cardinality({}) = 0
    BY FS_EmptySet
  <2>3. 1 \in 1 .. Len(active) => base[active[1]] \in Nat
    BY <1>1, ElementOfSeq
  <2>4. 0 + 1 \in 1 .. Len(active) => Fits(0)
    <3>1. SUFFICES ASSUME 1 \in 1 .. Len(active)
                   PROVE  /\ IsFiniteSet(CStackUpTo(0))
                          /\ Cardinality(CStackUpTo(0)) <= base[active[1]]
      OBVIOUS
    <3>2. Cardinality(CStackUpTo(0)) = 0 /\ IsFiniteSet(CStackUpTo(0))
      BY <2>1, <2>2
    <3> QED BY <2>3, <3>1, <3>2
  <2> HIDE DEF Fits
  <2> QED BY <2>4
<1>3. ASSUME NEW i \in S PROVE i + 1 \in S
  <2>1. i \in Nat
    OBVIOUS
  <2>2. SUFFICES ASSUME i + 2 \in 1 .. Len(active) PROVE Fits(i + 1)
    BY <2>1
  <2>3. i + 1 \in 1 .. Len(active) - 1 /\ i + 1 \in 1 .. Len(active)
    BY <1>1, <2>1, <2>2
  <2>4. Fits(i)
    BY <2>3
  <2>5. i + 1 - 1 = i /\ i + 1 # Len(active)
    BY <1>1, <2>1, <2>3
  <2>6. /\ IsFiniteSet(CStackUpTo(i + 1)) /\ Cardinality(CStackUpTo(i + 1)) \in Nat
        /\ Cardinality(CStackUpTo(i + 1)) <= nC[active[i + 1]] + 1
    <3> DEFINE l == i + 1
    <3>1. l \in 1 .. Len(active) /\ l - 1 = i /\ l # Len(active)
      BY <2>3, <2>5
    <3>2. IsFiniteSet(CStackUpTo(l - 1)) /\ Cardinality(CStackUpTo(l - 1)) <= base[active[l]]
      BY <2>4, <3>1
    <3> HIDE DEF l, Fits
    <3>3. /\ IsFiniteSet(CStackUpTo(l)) /\ Cardinality(CStackUpTo(l)) \in Nat
          /\ Cardinality(CStackUpTo(l)) <= nC[active[l]] + 1
      BY <1>1, <3>1, <3>2, StackGrows
    <3> QED BY <3>3 DEF l
  <2>7. /\ nC[active[i + 1]] < base[active[i + 2]]
        /\ nC[active[i + 1]] \in Nat /\ base[active[i + 2]] \in Nat
    BY <1>1, <2>1, <2>2, <2>3, ElementOfSeq, SMTT(30) DEF StackInv, CountsFromResumer
  <2>8. i + 1 + 1 = i + 2
    BY <2>1
  <2> QED BY <2>6, <2>7, <2>8
<1>4. S = Nat
  <2> HIDE DEF S
  <2>1. S \in SUBSET Nat
    BY DEF S
  <2> QED BY <1>2, <1>3, <2>1, NatSetInduction
<1>5. k - 1 \in Nat /\ k - 1 + 1 = k
  BY <1>1
<1>6. Fits(k - 1)
  BY <1>4, <1>5
<1> QED BY <1>5, <1>6

(***************************************************************************)
(* The C stack of the process is bounded where every resume counts from    *)
(* its resumer, as Lua's own coroutine library does it: nested C calls,    *)
(* error handlers and resumes of all threads stay below LUAI_MAXCCALLS and *)
(* what error handling may add.                                            *)
(***************************************************************************)
THEOREM CStackIsBounded ==
  ASSUME CompatResumes = FALSE
  PROVE  Spec => []CStackBounded
<1>1. Init => StackInv
  <2> SUFFICES ASSUME Init PROVE StackInv
    OBVIOUS
  <2>1. Len(active) = 1 /\ 1 .. Len(active) - 1 = {}
    BY DEF Init
  <2> QED BY <2>1, InitIInv DEF StackInv, CountsFromResumer
<1>2. StackInv /\ [Next]_vars => StackInv'
  BY NextStackInv
<1>3. ASSUME StackInv PROVE CStackBounded
  <2>1. /\ Len(active) \in 1 .. Len(active) /\ T \in Threads /\ status[T] = "OK"
        /\ Role(T) = mode /\ nC[T] \in Nat /\ mode \in Modes
        /\ ThreadOK(T, ci[T], jmp[T], nC[T], nny[T], base[T], errf[T], allow[T], mode)
    BY <1>3, RunningThread DEF StackInv
  <2>2. /\ IsFiniteSet(CStackUpTo(Len(active) - 1))
        /\ Cardinality(CStackUpTo(Len(active) - 1)) <= base[active[Len(active)]]
    BY <1>3, <2>1, StackBelow
  <2>3. Cardinality(CStackUpTo(Len(active))) \in Nat /\ Cardinality(CStackUpTo(Len(active))) <= nC[T]
    BY <1>3, <2>1, <2>2, StackGrows DEF StackInv, T
  <2>4. nC[T] <= ErrCcalls
    BY <2>1 DEF ThreadOK, Bounded, Modes
  <2> QED BY <2>1, <2>3, <2>4, LimitAssumption DEF CStackBounded, CStack
<1> QED BY <1>1, <1>2, <1>3, PTL DEF Spec

-----------------------------------------------------------------------------
(***************************************************************************)
(* What Coroutines sees of a CallInfo and of a call stack.                 *)
(***************************************************************************)
LF(f) == [fn |-> f.fn, hook |-> f.hook, msgh |-> f.msgh, doing |-> f.doing]

View(s) == [i \in 1 .. Len(s) |-> LF(s[i])]

LFrames == [fn : Functions, hook : BOOLEAN, msgh : BOOLEAN, doing : Doing]

\* The function g back from its call.
Quit(g) == [g EXCEPT !.doing = "none", !.msgh = FALSE]

CallsOf == [t \in Threads |-> Logical(t)]

InFlight == mode \in {"raise", "throw", "caught"}

(***************************************************************************)
(* Two sequences are the same when they have the same elements.            *)
(***************************************************************************)
LEMMA SameElements ==
  ASSUME NEW S, NEW v \in Seq(S), NEW w \in Seq(S), Len(v) = Len(w),
         \A i \in 1 .. Len(v) : v[i] = w[i]
  PROVE  v = w
BY SeqEqual

(***************************************************************************)
(* The view has the same length, and the same order.                       *)
(***************************************************************************)
LEMMA ViewTypes ==
  ASSUME NEW s \in Seq(Frames)
  PROVE  /\ View(s) \in Seq(LFrames) /\ Len(View(s)) = Len(s) /\ Len(s) \in Nat
         /\ \A i \in 1 .. Len(s) : View(s)[i] = LF(s[i]) /\ s[i] \in Frames
<1>1. Len(s) \in Nat /\ \A i \in 1 .. Len(s) : s[i] \in Frames
  BY LenProperties, ElementOfSeq
<1>2. \A f \in Frames : LF(f) \in LFrames
  BY DEF Frames, LFrames, LF
<1> DEFINE v == View(s)
<1>3. v = [i \in 1 .. Len(s) |-> LF(s[i])]
  BY DEF View
<1>4. v \in [1 .. Len(s) -> LFrames]
  BY <1>1, <1>2, <1>3
<1>5. v \in Seq(LFrames) /\ Len(v) = Len(s)
  <2> HIDE DEF v
  <2> QED BY <1>1, <1>4
<1>6. \A i \in 1 .. Len(s) : v[i] = LF(s[i])
  BY <1>3
<1> QED BY <1>1, <1>5, <1>6

(***************************************************************************)
(* A function of a logical call stack is what its four fields are.         *)
(***************************************************************************)
LEMMA SameFields ==
  ASSUME NEW g \in LFrames, NEW h \in LFrames, g.fn = h.fn, g.hook = h.hook,
         g.msgh = h.msgh, g.doing = h.doing
  PROVE  g = h
BY DEF LFrames

(***************************************************************************)
(* What a function of a logical call stack is when it is back from its     *)
(* call.                                                                   *)
(***************************************************************************)
LEMMA QuitFields ==
  ASSUME NEW g \in LFrames
  PROVE  /\ Quit(g) \in LFrames /\ Quit(g).fn = g.fn /\ Quit(g).hook = g.hook
         /\ Quit(g).msgh = FALSE /\ Quit(g).doing = "none"
<1> DEFINE h == [g EXCEPT !.doing = "none"]
<1>1. h \in LFrames /\ h.fn = g.fn /\ h.hook = g.hook /\ h.doing = "none"
  BY DEF LFrames, Doing
<1>2. Quit(g) = [h EXCEPT !.msgh = FALSE]
  BY DEF Quit
<1> HIDE DEF h
<1> QED BY <1>1, <1>2 DEF LFrames

(***************************************************************************)
(* What is seen of a CallInfo: its function, hook, message handler and     *)
(* call. Whether its C activation is still there is not seen.              *)
(***************************************************************************)
LEMMA FrameViews ==
  ASSUME NEW f \in Frames
  PROVE  /\ LF(f) \in LFrames /\ LF(Back(f)) = Quit(LF(f))
         /\ LF(f).fn = f.fn /\ LF(f).hook = f.hook /\ LF(f).msgh = f.msgh
         /\ LF(f).doing = f.doing
         /\ \A d \in Doing : LF([f EXCEPT !.doing = d]) = [LF(f) EXCEPT !.doing = d]
         /\ LF([f EXCEPT !.live = FALSE]) = LF(f)
<1>1. /\ LF(f) \in LFrames
      /\ LF(f).fn = f.fn /\ LF(f).hook = f.hook /\ LF(f).msgh = f.msgh
      /\ LF(f).doing = f.doing
  BY DEF Frames, LFrames, LF
<1>2. /\ Back(f).fn = f.fn /\ Back(f).hook = f.hook /\ ~Back(f).msgh
      /\ Back(f).msgh = FALSE /\ Back(f).doing = "none"
  BY DEF Back, NewFrame
<1>3. LF(Back(f)) = Quit(LF(f))
  <2>1. Back(f) \in Frames
    BY BackFields
  <2>2. /\ LF(Back(f)) \in LFrames /\ LF(Back(f)).fn = f.fn /\ LF(Back(f)).hook = f.hook
        /\ LF(Back(f)).msgh = FALSE /\ LF(Back(f)).doing = "none"
    BY <1>2, <2>1 DEF Frames, LFrames, LF
  <2> DEFINE g == LF(f)
             h == LF(Back(f))
  <2>3. /\ g \in LFrames /\ h \in LFrames /\ h.fn = g.fn /\ h.hook = g.hook
        /\ h.msgh = FALSE /\ h.doing = "none"
    BY <1>1, <2>2
  <2> HIDE DEF g, h
  <2>4. /\ Quit(g) \in LFrames /\ Quit(g).fn = g.fn /\ Quit(g).hook = g.hook
        /\ Quit(g).msgh = FALSE /\ Quit(g).doing = "none"
    BY <2>3, QuitFields
  <2>5. h = Quit(g)
    BY <2>3, <2>4, SameFields
  <2> QED BY <2>5 DEF g, h
<1>4. \A d \in Doing : LF([f EXCEPT !.doing = d]) = [LF(f) EXCEPT !.doing = d]
  BY DEF Frames, LF
<1>5. LF([f EXCEPT !.live = FALSE]) = LF(f)
  BY DEF Frames, LF
<1> QED BY <1>1, <1>3, <1>4, <1>5

(***************************************************************************)
(* Calls, changes of the last CallInfo and returns, seen in the view.      *)
(***************************************************************************)
LEMMA ViewAppend ==
  ASSUME NEW s \in Seq(Frames), NEW f \in Frames
  PROVE  View(Append(s, f)) = Append(View(s), LF(f))
<1> DEFINE r == Append(s, f)
           v == View(s)
           w == Append(v, LF(f))
<1>1. /\ r \in Seq(Frames) /\ Len(r) = Len(s) + 1 /\ Len(s) \in Nat
      /\ \A i \in 1 .. Len(s) : r[i] = s[i]
      /\ r[Len(s) + 1] = f
  BY AppendProperties, LenProperties
<1>2. v \in Seq(LFrames) /\ Len(v) = Len(s) /\ \A i \in 1 .. Len(s) : v[i] = LF(s[i])
  BY ViewTypes
<1>3. LF(f) \in LFrames
  BY FrameViews
<1> HIDE DEF r, v
<1>4. /\ View(r) \in Seq(LFrames) /\ Len(View(r)) = Len(r)
      /\ \A i \in 1 .. Len(r) : View(r)[i] = LF(r[i])
  BY <1>1, ViewTypes
<1>5. /\ w \in Seq(LFrames) /\ Len(w) = Len(s) + 1
      /\ \A i \in 1 .. Len(s) : w[i] = LF(s[i])
      /\ w[Len(s) + 1] = LF(f)
  BY <1>2, <1>3, AppendProperties
<1> HIDE DEF w
<1>6. \A i \in 1 .. Len(View(r)) : i \in 1 .. Len(s) \/ i = Len(s) + 1
  BY <1>1, <1>4
<1>7. \A i \in 1 .. Len(View(r)) : View(r)[i] = w[i]
  BY <1>1, <1>4, <1>5, <1>6
<1>8. View(r) = w
  BY <1>1, <1>4, <1>5, <1>7, SameElements, SMTT(30)
<1> QED BY <1>8 DEF r, v, w

(***************************************************************************)
(* A change of the last CallInfo changes the last function of the view.    *)
(***************************************************************************)
LEMMA ViewTop ==
  ASSUME NEW s \in Seq(Frames), Len(s) > 0, NEW f \in Frames
  PROVE  /\ View([s EXCEPT ![Len(s)] = f]) = [View(s) EXCEPT ![Len(s)] = LF(f)]
         /\ [s EXCEPT ![Len(s)] = f] \in Seq(Frames)
<1> DEFINE n == Len(s)
           r == [s EXCEPT ![n] = f]
           v == View(s)
           w == [v EXCEPT ![n] = LF(f)]
<1>1. n \in Nat /\ n \in 1 .. n /\ Len(s) = n
  BY LenProperties
<1>2. v \in Seq(LFrames) /\ Len(v) = n /\ \A i \in 1 .. n : v[i] = LF(s[i])
  BY ViewTypes
<1>3. LF(f) \in LFrames
  BY FrameViews
<1> HIDE DEF n, v
<1>4. /\ r \in Seq(Frames) /\ Len(r) = n /\ r[n] = f
      /\ \A i \in 1 .. n : i # n => r[i] = s[i]
  BY <1>1, ExceptSeq
<1>5. /\ w \in Seq(LFrames) /\ Len(w) = n /\ w[n] = LF(f)
      /\ \A i \in 1 .. n : i # n => w[i] = v[i]
  BY <1>1, <1>2, <1>3, ExceptSeq
<1> HIDE DEF r, w
<1>6. /\ View(r) \in Seq(LFrames) /\ Len(View(r)) = n
      /\ \A i \in 1 .. n : View(r)[i] = LF(r[i])
  BY <1>4, ViewTypes
<1>7. \A i \in 1 .. Len(View(r)) : View(r)[i] = w[i]
  BY <1>2, <1>4, <1>5, <1>6
<1>8. View(r) = w
  BY <1>5, <1>6, <1>7, SameElements
<1> QED BY <1>4, <1>8, Zenon DEF n, r, v, w

(***************************************************************************)
(* The view of the first CallInfos is the first functions of the view.     *)
(***************************************************************************)
LEMMA ViewCut ==
  ASSUME NEW s \in Seq(Frames), NEW n \in 0 .. Len(s)
  PROVE  View(SubSeq(s, 1, n)) = SubSeq(View(s), 1, n)
<1> DEFINE r == SubSeq(s, 1, n)
           v == View(s)
           w == SubSeq(v, 1, n)
<1>1. Len(s) \in Nat /\ v \in Seq(LFrames) /\ Len(v) = Len(s)
      /\ \A i \in 1 .. Len(s) : v[i] = LF(s[i])
  BY ViewTypes
<1>2. r \in Seq(Frames) /\ Len(r) = n /\ \A i \in 1 .. n : r[i] = s[i]
  BY CutIsPrefix
<1> HIDE DEF v, r
<1>3. w \in Seq(LFrames) /\ Len(w) = n /\ \A i \in 1 .. n : w[i] = v[i]
  BY <1>1, CutIsPrefix
<1> HIDE DEF w
<1>4. /\ View(r) \in Seq(LFrames) /\ Len(View(r)) = n
      /\ \A i \in 1 .. n : View(r)[i] = LF(r[i])
  BY <1>2, ViewTypes
<1>5. \A i \in 1 .. n : i \in 1 .. Len(s)
  BY <1>1
<1>6. \A i \in 1 .. Len(View(r)) : View(r)[i] = w[i]
  BY <1>1, <1>2, <1>3, <1>4, <1>5
<1>7. View(r) = w
  BY <1>3, <1>4, <1>6, SameElements
<1> QED BY <1>7 DEF r, v, w

(***************************************************************************)
(* A longjmp that takes the C activations away (luaD_throw) is not seen.   *)
(***************************************************************************)
LEMMA ViewUnwound ==
  ASSUME NEW s \in Seq(Frames)
  PROVE  View(Unwound(s)) = View(s)
<1> DEFINE r == Unwound(s)
<1>1. /\ r \in Seq(Frames) /\ Len(r) = Len(s)
      /\ \A i \in 1 .. Len(s) : r[i] = [s[i] EXCEPT !.live = FALSE]
  BY UnwoundFields
<1> HIDE DEF r
<1>2. \A i \in 1 .. Len(s) : s[i] \in Frames
  BY ElementOfSeq
<1>3. \A i \in 1 .. Len(s) : LF(r[i]) = LF(s[i])
  BY <1>1, <1>2, FrameViews
<1>4. /\ View(s) \in Seq(LFrames) /\ Len(View(s)) = Len(s)
      /\ \A i \in 1 .. Len(s) : View(s)[i] = LF(s[i])
      /\ View(r) \in Seq(LFrames) /\ Len(View(r)) = Len(s)
      /\ \A i \in 1 .. Len(s) : View(r)[i] = LF(r[i])
  BY <1>1, ViewTypes
<1>5. View(r) = View(s)
  BY <1>3, <1>4, SameElements
<1> QED BY <1>5 DEF r

(***************************************************************************)
(* The last function back from its call: Back here is Back of Coroutines.  *)
(***************************************************************************)
LEMMA ViewBack ==
  ASSUME NEW s \in Seq(Frames), Len(s) > 0
  PROVE  View([s EXCEPT ![Len(s)] = Back(s[Len(s)])]) = Promise!Back(View(s))
<1> DEFINE n == Len(s)
           v == View(s)
<1>1. n \in Nat /\ n \in 1 .. n /\ s[n] \in Frames
  BY LenProperties, ElementOfSeq
<1>2. Back(s[n]) \in Frames /\ LF(Back(s[n])) = Quit(LF(s[n]))
  BY <1>1, FrameViews, BackFields
<1>3. Len(v) = n /\ v[n] = LF(s[n]) /\ v # << >>
  <2>1. v \in Seq(LFrames) /\ Len(v) = n /\ v[n] = LF(s[n])
    BY <1>1, ViewTypes
  <2> HIDE DEF v
  <2> QED BY <1>1, <2>1, EmptySeq
<1>4. View([s EXCEPT ![n] = Back(s[n])]) = [v EXCEPT ![n] = Quit(v[n])]
  BY <1>2, <1>3, ViewTop, ZenonT(40)
<1> HIDE DEF v
<1>5. [v EXCEPT ![n] = Quit(v[n])] = Promise!Back(v)
  <2>1. v # << >>
    BY <1>3
  <2>2. Promise!Back(v) = [v EXCEPT ![n].doing = "none", ![n].msgh = FALSE]
    BY <1>3, <2>1 DEF Promise!Back
  <2>3. [v EXCEPT ![n].doing = "none", ![n].msgh = FALSE] = [v EXCEPT ![n] = Quit(v[n])]
    <3>1. v \in Seq(LFrames) /\ n \in DOMAIN v
      BY <1>1, <1>3, ViewTypes DEF v
    <3> HIDE DEF n
    <3> QED BY <3>1 DEF Quit
  <2> QED BY <2>2, <2>3
<1> HIDE DEF n
<1> QED BY <1>4, <1>5 DEF n, v

-----------------------------------------------------------------------------
(***************************************************************************)
(* The refinement mapping, as a function of the stack and of whether       *)
(* unroll is about to go on with its last function.                        *)
(***************************************************************************)
ViewAt(s, d) ==
  [i \in 1 .. Len(s) |->
     LET done == d /\ i = Len(s)
     IN  [fn |-> s[i].fn, hook |-> s[i].hook, msgh |-> s[i].msgh /\ ~done,
          doing |-> IF done THEN "none" ELSE s[i].doing]]

(***************************************************************************)
(* The logical call stack of a thread, in this and in the next state.      *)
(***************************************************************************)
LEMMA LogicalIsView ==
  ASSUME NEW t
  PROVE  /\ Logical(t) = ViewAt(ci[t], t = T /\ mode = "unroll")
         /\ Logical(t)' = ViewAt(ci'[t], t = T' /\ mode' = "unroll")
BY DEF Logical, ViewAt, Depth

(***************************************************************************)
(* In the middle of unroll the last function is seen back from its call;   *)
(* everywhere else the view is that of the CallInfos as they are.          *)
(***************************************************************************)
LEMMA ViewCases ==
  ASSUME NEW s \in Seq(Frames), NEW d \in BOOLEAN
  PROVE  /\ ~d \/ Len(s) = 0 => ViewAt(s, d) = View(s)
         /\ d /\ Len(s) > 0 => ViewAt(s, d) = Promise!Back(View(s))
<1>1. Len(s) \in Nat /\ \A i \in 1 .. Len(s) : s[i] \in Frames
  BY LenProperties, ElementOfSeq
<1>2. ASSUME ~d \/ Len(s) = 0 PROVE ViewAt(s, d) = View(s)
  <2>1. \A i \in 1 .. Len(s) : ~(d /\ i = Len(s))
    BY <1>1, <1>2
  <2>2. \A i \in 1 .. Len(s) : s[i].msgh \in BOOLEAN
    BY <1>1 DEF Frames
  <2> QED BY <2>1, <2>2 DEF ViewAt, View, LF
<1>3. ASSUME d, Len(s) > 0 PROVE ViewAt(s, d) = Promise!Back(View(s))
  <2> DEFINE n == Len(s)
             v == View(s)
             r == [s EXCEPT ![n] = Back(s[n])]
  <2>1. View(r) = Promise!Back(v)
    BY <1>3, ViewBack
  <2>2. n \in 1 .. n /\ s[n] \in Frames
    BY <1>1, <1>3
  <2>3. Back(s[n]) \in Frames /\ LF(Back(s[n])) = Quit(LF(s[n]))
    BY <2>2, BackFields, FrameViews
  <2>4. r \in Seq(Frames) /\ Len(r) = n /\ r[n] = Back(s[n])
        /\ \A i \in 1 .. n : i # n => r[i] = s[i]
    BY <2>2, <2>3, ExceptSeq
  <2>5. \A i \in 1 .. n : ViewAt(s, d)[i] = LF(r[i])
    <3> SUFFICES ASSUME NEW i \in 1 .. n PROVE ViewAt(s, d)[i] = LF(r[i])
      OBVIOUS
    <3>1. CASE i = n
      <4>1. /\ Back(s[n]).fn = s[n].fn /\ Back(s[n]).hook = s[n].hook
            /\ Back(s[n]).msgh = FALSE /\ Back(s[n]).doing = "none"
        BY SMTT(30) DEF Back, NewFrame
      <4>2. LF(r[n]) = [fn |-> s[n].fn, hook |-> s[n].hook, msgh |-> FALSE, doing |-> "none"]
        BY <2>4, <4>1, Zenon DEF LF
      <4>3. ViewAt(s, d)[n] =
              [fn |-> s[n].fn, hook |-> s[n].hook, msgh |-> FALSE, doing |-> "none"]
        BY <1>3, <2>2, Zenon DEF ViewAt
      <4> QED BY <3>1, <4>2, <4>3
    <3>2. CASE i # n
      <4>1. s[i].msgh \in BOOLEAN
        BY <1>1 DEF Frames
      <4>2. ViewAt(s, d)[i] = LF(s[i])
        BY <3>2, <4>1 DEF ViewAt, LF
      <4> QED BY <2>4, <3>2, <4>2, Zenon
    <3> QED BY <3>1, <3>2
  <2>6. ViewAt(s, d) = View(r)
    <3>1. View(r) = [i \in 1 .. n |-> LF(r[i])]
      BY <2>4, Zenon DEF View
    <3>2. ViewAt(s, d) = [i \in 1 .. n |-> ViewAt(s, d)[i]]
      BY DEF ViewAt
    <3> HIDE DEF r, n
    <3> QED BY <2>5, <3>1, <3>2, SMTT(30)
  <2> QED BY <2>1, <2>6
<1> QED BY <1>2, <1>3

(***************************************************************************)
(* A step of the running thread, seen by Coroutines.                       *)
(***************************************************************************)
LEMMA OwnCalls ==
  ASSUME IInv
  PROVE  /\ CallsOf[T] = ViewAt(ci[T], mode = "unroll")
         /\ \A t \in Threads : t # T => CallsOf[t] = View(ci[t])
         /\ DOMAIN CallsOf = Threads
<1>1. T \in Threads /\ ci \in [Threads -> Seq(Frames)]
  BY RunningThread DEF IInv, TypeOK
<1>2. CallsOf[T] = ViewAt(ci[T], mode = "unroll")
  BY <1>1, LogicalIsView DEF CallsOf
<1>3. ASSUME NEW t \in Threads, t # T PROVE CallsOf[t] = View(ci[t])
  <2>1. CallsOf[t] = ViewAt(ci[t], FALSE)
    BY <1>3, LogicalIsView DEF CallsOf
  <2> QED BY <1>1, <2>1, ViewCases
<1> QED BY <1>2, <1>3 DEF CallsOf

(***************************************************************************)
(* A step that changes the CallInfos of the running thread alone changes   *)
(* the logical stack of that thread alone.                                 *)
(***************************************************************************)
LEMMA OwnMap ==
  ASSUME IInv, active' = active, NEW s \in Seq(Frames), ci' = [ci EXCEPT ![T] = s]
  PROVE  CallsOf' = [CallsOf EXCEPT ![T] = ViewAt(s, mode' = "unroll")]
<1>1. T \in Threads /\ ci \in [Threads -> Seq(Frames)]
  BY RunningThread DEF IInv, TypeOK
<1>2. T' = T
  BY DEF T
<1>3. ci'[T] = s /\ \A t \in Threads : t # T => ci'[t] = ci[t]
  BY <1>1
<1> DEFINE v == ViewAt(s, mode' = "unroll")
<1>4. CallsOf' = [t \in Threads |-> Logical(t)']
  BY DEF CallsOf
<1>5. \A t \in Threads : Logical(t)' = IF t = T THEN v ELSE CallsOf[t]
  <2> SUFFICES ASSUME NEW t \in Threads
               PROVE  Logical(t)' = IF t = T THEN v ELSE CallsOf[t]
    OBVIOUS
  <2>1. Logical(t)' = ViewAt(ci'[t], t = T /\ mode' = "unroll")
    BY <1>2, LogicalIsView
  <2>2. CASE t = T
    BY <1>3, <2>1, <2>2
  <2>3. CASE t # T
    <3>1. Logical(t)' = ViewAt(ci[t], FALSE)
      BY <1>3, <2>1, <2>3
    <3>2. ci[t] \in Seq(Frames)
      BY <1>1
    <3>3. Logical(t)' = View(ci[t])
      BY <3>1, <3>2, ViewCases
    <3> QED BY <2>3, <3>3, OwnCalls
  <2> QED BY <2>2, <2>3
<1> HIDE DEF v
<1>6. CallsOf = [t \in Threads |-> CallsOf[t]]
  BY DEF CallsOf
<1>7. [CallsOf EXCEPT ![T] = v] = [t \in Threads |-> IF t = T THEN v ELSE CallsOf[t]]
  <2> DEFINE w == CallsOf
  <2>1. w = [t \in Threads |-> w[t]]
    BY <1>6
  <2> HIDE DEF w
  <2>2. [w EXCEPT ![T] = v] = [t \in Threads |-> IF t = T THEN v ELSE w[t]]
    BY <1>1, <2>1
  <2> QED BY <2>2 DEF w
<1> QED BY <1>4, <1>5, <1>7 DEF v

-----------------------------------------------------------------------------
(***************************************************************************)
(* The actions of Coroutines for a thread with the logical call stack v.   *)
(***************************************************************************)
BusyWith(v, d) == [v EXCEPT ![Len(v)].doing = d]

CallDoing == Promise!Resumable \cup {"call", "pcall"}

\* The functions of the running thread become w.
OwnSet(w) == CallsOf' = [CallsOf EXCEPT ![T] = w]

(***************************************************************************)
(* No error is on its way before the step or after it.                     *)
(***************************************************************************)
LEMMA FlagSame ==
  ASSUME ~InFlight, ~InFlight'
  PROVE  (mode \in {"raise", "throw", "caught"})' = (mode \in {"raise", "throw", "caught"})
<1>1. (mode \in {"raise", "throw", "caught"})' <=> (mode \in {"raise", "throw", "caught"})
  BY DEF InFlight
<1> QED BY <1>1

(***************************************************************************)
(* Whether an error is on its way after the step.                          *)
(***************************************************************************)
LEMMA FlagIs ==
  ASSUME NEW p \in BOOLEAN, InFlight' <=> p
  PROVE  (mode \in {"raise", "throw", "caught"})' = p
<1>1. (mode \in {"raise", "throw", "caught"})' <=> p
  BY DEF InFlight
<1> QED BY <1>1

(***************************************************************************)
(* Call of Coroutines: luaD_precall or ccall with room on the C stack.     *)
(***************************************************************************)
LEMMA IsCall ==
  ASSUME NEW v, CallsOf[T] = v, T \in Threads, Len(v) > 0, ~InFlight, ~InFlight',
         NEW fn \in Functions, NEW d \in CallDoing,
         OwnSet(Append(BusyWith(v, d), Promise!New(fn))),
         active' = active, status' = status
  PROVE  Promise!Call
<1>1. Promise!T = T /\ Promise!Depth(T) = Len(v)
  BY DEF Promise!T, T, Promise!Depth, CallsOf
<1>2. Promise!IsRunning
  BY <1>1 DEF Promise!IsRunning, InFlight
<1>3. Promise!Busy(d) = BusyWith(v, d)
  BY <1>1 DEF Promise!Busy, BusyWith, CallsOf
<1>4. Promise!SetCalls(Append(Promise!Busy(d), Promise!New(fn)))
  BY <1>1, <1>3 DEF Promise!SetCalls, CallsOf, OwnSet
<1> QED BY <1>2, <1>4 DEF Promise!Call, CallDoing, Functions, InFlight

(***************************************************************************)
(* Raise of Coroutines: luaG_errormsg is called, in the function or in a   *)
(* call that the C stack has no room for (luaE_checkcstack).               *)
(***************************************************************************)
LEMMA IsRaise ==
  ASSUME NEW v, CallsOf[T] = v, T \in Threads, Len(v) > 0, ~InFlight, InFlight',
         NEW d \in {v[Len(v)].doing} \cup CallDoing,
         OwnSet(BusyWith(v, d)),
         active' = active, status' = status
  PROVE  Promise!Raise
<1>1. Promise!T = T /\ Promise!Depth(T) = Len(v) /\ Promise!Top = v[Len(v)]
  BY DEF Promise!T, T, Promise!Depth, Promise!Top, CallsOf
<1>2. Promise!Busy(d) = BusyWith(v, d)
  BY <1>1 DEF Promise!Busy, BusyWith, CallsOf
<1>3. Promise!SetCalls(Promise!Busy(d))
  BY <1>1, <1>2 DEF Promise!SetCalls, CallsOf, OwnSet
<1> QED BY <1>1, <1>3 DEF Promise!Raise, CallDoing, InFlight

(***************************************************************************)
(* Return of Coroutines: luaD_poscall, the caller goes on; or the error    *)
(* goes on, when a message handler returns (luaG_errormsg).                *)
(***************************************************************************)
LEMMA IsReturn ==
  ASSUME NEW v, CallsOf[T] = v, T \in Threads, Len(v) > 0, ~InFlight,
         ~v[Len(v)].hook, NEW b, b = SubSeq(v, 1, Len(v) - 1), NEW w,
         OwnSet(w), active' = active, status' = status,
         IF b # << >> /\ b[Len(b)].msgh
         THEN w = [b EXCEPT ![Len(b)].msgh = FALSE] /\ InFlight'
         ELSE w = Promise!Back(b) /\ ~InFlight'
  PROVE  Promise!Return
<1>1. Promise!T = T /\ Promise!Depth(T) = Len(v) /\ Promise!Top = v[Len(v)]
  BY DEF Promise!T, T, Promise!Depth, Promise!Top, CallsOf
<1>2. Promise!IsRunning
  BY <1>1 DEF Promise!IsRunning, InFlight
<1>3. Promise!Cut(T, Len(v) - 1) = b
  BY DEF Promise!Cut, CallsOf
<1>4. Promise!SetCalls(w)
  BY <1>1 DEF Promise!SetCalls, CallsOf, OwnSet
<1>5. CASE b # << >> /\ b[Len(b)].msgh
  BY <1>1, <1>2, <1>3, <1>4, <1>5 DEF Promise!Return, InFlight
<1>6. CASE ~(b # << >> /\ b[Len(b)].msgh)
  BY <1>1, <1>2, <1>3, <1>4, <1>6, FlagSame DEF Promise!Return
<1> QED BY <1>5, <1>6

(***************************************************************************)
(* CallHandler of Coroutines: luaG_errormsg calls the message handler, or  *)
(* fails to.                                                               *)
(***************************************************************************)
LEMMA IsCallHandler ==
  ASSUME NEW v, CallsOf[T] = v, T \in Threads, Len(v) > 0, InFlight,
         NEW above \in {<< >>, << Promise!New("C") >>, << Promise!New("Lua") >>},
         OwnSet([v EXCEPT ![Len(v)].msgh = TRUE] \o above),
         InFlight' <=> above = << >>, active' = active, status' = status
  PROVE  Promise!CallHandler
<1>1. Promise!T = T /\ Promise!Depth(T) = Len(v)
  BY DEF Promise!T, T, Promise!Depth, CallsOf
<1>2. Promise!SetCalls([CallsOf[T] EXCEPT ![Promise!Depth(T)].msgh = TRUE] \o above)
  BY <1>1 DEF Promise!SetCalls, CallsOf, OwnSet
<1>3. (mode \in {"raise", "throw", "caught"})' = (above = << >>)
  BY FlagIs
<1>4. mode \in {"raise", "throw", "caught"} /\ Promise!Depth(Promise!T) > 0
  BY <1>1 DEF InFlight
<1>5. Promise!SetCalls([[t \in Threads |-> Logical(t)][Promise!T]
                         EXCEPT ![Promise!Depth(Promise!T)].msgh = TRUE] \o above)
  BY <1>1, <1>2 DEF CallsOf
<1> QED BY <1>3, <1>4, <1>5 DEF Promise!CallHandler

(***************************************************************************)
(* Catch of Coroutines: the error ends in the innermost protected call.    *)
(***************************************************************************)
LEMMA IsCatch ==
  ASSUME NEW v, CallsOf[T] = v, T \in Threads, InFlight, ~InFlight',
         NEW n \in 1 .. Len(v), v[n].doing \in Protected,
         \A i \in n + 1 .. Len(v) : v[i].doing \notin Protected,
         OwnSet(Promise!Back(SubSeq(v, 1, n))),
         active' = active, status' = status
  PROVE  Promise!Catch
<1>1. Promise!T = T /\ Promise!Depth(T) = Len(v)
  BY DEF Promise!T, T, Promise!Depth, CallsOf
<1>2. Promise!Cut(T, n) = SubSeq(v, 1, n)
  BY DEF Promise!Cut, CallsOf
<1>3. Promise!SetCalls(Promise!Back(Promise!Cut(T, n)))
  BY <1>1, <1>2 DEF Promise!SetCalls, CallsOf, OwnSet
<1>4. Promise!Protected = Protected
  BY DEF Promise!Protected, Protected
<1>5. /\ CallsOf[T][n].doing \in Protected
      /\ \A i \in n + 1 .. Len(v) : CallsOf[T][i].doing \notin Protected
  OBVIOUS
<1> QED BY <1>1, <1>3, <1>4, <1>5 DEF Promise!Catch, InFlight, CallsOf

(***************************************************************************)
(* The running thread, with the logical call stack v, stops with w.        *)
(***************************************************************************)
Stops(w, st) ==
  LET r == active[Len(active) - 1]
  IN  /\ CallsOf' = [CallsOf EXCEPT ![T] = w, ![r] = Promise!Back(CallsOf[r])]
      /\ status' = [status EXCEPT ![T] = st]
      /\ active' = SubSeq(active, 1, Len(active) - 1)

(***************************************************************************)
(* Stop of Coroutines: what is left of the thread, and its resumer back    *)
(* from lua_resume.                                                        *)
(***************************************************************************)
LEMMA IsStop ==
  ASSUME NEW w, NEW st, Stops(w, st)
  PROVE  Promise!Stop(w, st)
BY DEF Stops, Promise!Stop, CallsOf, T, Promise!T

(***************************************************************************)
(* Die of Coroutines: lua_resume reports an error that nothing caught.     *)
(***************************************************************************)
LEMMA IsDie ==
  ASSUME NEW v, CallsOf[T] = v, T # Main, InFlight, ~InFlight',
         \A i \in 1 .. Len(v) : v[i].doing \notin Protected, Stops(v, "ERR")
  PROVE  Promise!Die
<1>1. Promise!T = T /\ Promise!Depth(T) = Len(v)
  BY DEF Promise!T, T, Promise!Depth, CallsOf
<1>2. Promise!Stop(CallsOf[T], "ERR")
  BY IsStop
<1>3. \A i \in 1 .. Len(v) : CallsOf[T][i].doing \notin Promise!Protected
  BY DEF Promise!Protected, Protected
<1> QED BY <1>1, <1>2, <1>3 DEF Promise!Die, InFlight, CallsOf

(***************************************************************************)
(* Yield of Coroutines: all of the thread is suspended (lua_yieldk).       *)
(***************************************************************************)
LEMMA IsYield ==
  ASSUME NEW v, CallsOf[T] = v, T # Main, Len(v) > 0, ~InFlight, ~InFlight',
         \A i \in 1 .. Len(v) : ~v[i].hook /\ ~v[i].msgh,
         \A i \in 1 .. Len(v) - 1 : v[i].doing \in Promise!Resumable,
         NEW k \in BOOLEAN, NEW d, d = IF k THEN "yieldk" ELSE "yield",
         Stops(BusyWith(v, d), "YIELD")
  PROVE  Promise!Yield
<1>1. Promise!T = T /\ Promise!Depth(T) = Len(v)
  BY DEF Promise!T, T, Promise!Depth, CallsOf
<1>2. Promise!Busy(d) = BusyWith(v, d)
  BY <1>1 DEF Promise!Busy, BusyWith, CallsOf
<1>3. Promise!Stop(Promise!Busy(IF k THEN "yieldk" ELSE "yield"), "YIELD")
  BY <1>2, IsStop
<1>4. Promise!IsRunning
  BY <1>1 DEF Promise!IsRunning, InFlight
<1>5. /\ \A i \in 1 .. Len(v) : ~CallsOf[T][i].hook /\ ~CallsOf[T][i].msgh
      /\ \A i \in 1 .. Len(v) - 1 : CallsOf[T][i].doing \in Promise!Resumable
  OBVIOUS
<1> QED BY <1>1, <1>3, <1>4, <1>5 DEF Promise!Yield, InFlight, CallsOf

(***************************************************************************)
(* Finish of Coroutines: the body has returned (unroll at base_ci).        *)
(***************************************************************************)
LEMMA IsFinish ==
  ASSUME CallsOf[T] = << >>, T # Main, ~InFlight, ~InFlight', Stops(<< >>, "OK")
  PROVE  Promise!Finish
<1>1. Promise!T = T
  BY DEF Promise!T, T
<1>2. Promise!Stop(<< >>, "OK")
  BY IsStop
<1> QED BY <1>1, <1>2 DEF Promise!Finish, InFlight, CallsOf

(***************************************************************************)
(* The running thread, with the stack v, resumes u, which then has w.      *)
(***************************************************************************)
Starts(v, u, w) ==
  /\ CallsOf' = [CallsOf EXCEPT ![T] = BusyWith(v, "resume"), ![u] = w]
  /\ status' = [status EXCEPT ![u] = "OK"]
  /\ active' = Append(active, u)

(***************************************************************************)
(* Resume of Coroutines: a new body starts or has no room, or a suspended  *)
(* stack goes on where it was.                                             *)
(***************************************************************************)
LEMMA IsResume ==
  ASSUME NEW v, CallsOf[T] = v, Len(v) > 0, ~InFlight,
         NEW u \in Threads \ {Main}, Idle(u), NEW w, Starts(v, u, w),
         \/ /\ status[u] = "OK"
            /\ w \in {<< >>, << Promise!New("C") >>, << Promise!New("Lua") >>}
            /\ InFlight' <=> w = << >>
         \/ /\ status[u] = "YIELD"
            /\ w = Promise!Resumed(u)
            /\ ~InFlight'
  PROVE  Promise!Resume
<1>1. Promise!T = T /\ Promise!Depth(T) = Len(v)
  BY DEF Promise!T, T, Promise!Depth, CallsOf
<1>2. Promise!IsRunning
  BY <1>1 DEF Promise!IsRunning, InFlight
<1>3. Promise!Busy("resume") = BusyWith(v, "resume")
  BY <1>1 DEF Promise!Busy, BusyWith, CallsOf
<1>4. /\ CallsOf' = [CallsOf EXCEPT ![T] = Promise!Busy("resume"), ![u] = w]
      /\ status' = [status EXCEPT ![u] = "OK"]
      /\ active' = Append(active, u)
  BY <1>3 DEF Starts
<1>5. \A i \in 1 .. Len(active) : active[i] # u
  BY DEF Idle
<1>6. CASE status[u] = "OK" /\ w \in {<< >>, << Promise!New("C") >>, << Promise!New("Lua") >>}
           /\ (InFlight' <=> w = << >>)
  <2>1. (mode \in {"raise", "throw", "caught"})' = (w = << >>)
    BY <1>6, FlagIs
  <2>2. [t \in Threads |-> Logical(t)]' =
          [[t \in Threads |-> Logical(t)] EXCEPT ![Promise!T] = Promise!Busy("resume"), ![u] = w]
    BY <1>1, <1>4 DEF CallsOf
  <2> QED BY <1>2, <1>4, <1>5, <1>6, <2>1, <2>2 DEF Promise!Resume
<1>7. CASE status[u] = "YIELD" /\ w = Promise!Resumed(u) /\ ~InFlight'
  <2>1. (mode \in {"raise", "throw", "caught"})' = (mode \in {"raise", "throw", "caught"})
    BY <1>7, FlagSame
  <2>2. [t \in Threads |-> Logical(t)]' =
          [[t \in Threads |-> Logical(t)] EXCEPT ![Promise!T] = Promise!Busy("resume"),
                                                 ![u] = Promise!Resumed(u)]
    BY <1>1, <1>4, <1>7 DEF CallsOf
  <2> QED BY <1>2, <1>4, <1>5, <1>7, <2>1, <2>2 DEF Promise!Resume
<1> QED BY <1>6, <1>7

(***************************************************************************)
(* Close of Coroutines: lua_closethread.                                   *)
(***************************************************************************)
LEMMA IsClose ==
  ASSUME NEW v, CallsOf[T] = v, Len(v) > 0, ~InFlight, ~InFlight',
         NEW u \in Threads \ {Main}, Idle(u),
         CallsOf' = [CallsOf EXCEPT ![u] = << >>],
         status' = [status EXCEPT ![u] = "OK"], active' = active
  PROVE  Promise!Close
<1>1. Promise!T = T /\ Promise!Depth(T) = Len(v)
  BY DEF Promise!T, T, Promise!Depth, CallsOf
<1>2. Promise!IsRunning
  BY <1>1 DEF Promise!IsRunning, InFlight
<1>3. \A i \in 1 .. Len(active) : active[i] # u
  BY DEF Idle
<1>4. (mode \in {"raise", "throw", "caught"})' = (mode \in {"raise", "throw", "caught"})
  BY FlagSame
<1>5. [t \in Threads |-> Logical(t)]' = [[t \in Threads |-> Logical(t)] EXCEPT ![u] = << >>]
  BY DEF CallsOf
<1> QED BY <1>2, <1>3, <1>4, <1>5 DEF Promise!Close

(***************************************************************************)
(* StartHook and EndHook of Coroutines: luaD_hook.                         *)
(***************************************************************************)
LEMMA IsHook ==
  ASSUME NEW v, CallsOf[T] = v, T \in Threads, Len(v) > 0, ~InFlight, ~InFlight',
         NEW h \in BOOLEAN,
         OwnSet([v EXCEPT ![Len(v)].hook = h]),
         active' = active, status' = status,
         IF h THEN \A i \in 1 .. Len(v) : ~v[i].hook ELSE v[Len(v)].hook
  PROVE  Promise!StartHook \/ Promise!EndHook
<1>1. Promise!T = T /\ Promise!Depth(T) = Len(v) /\ Promise!Top = v[Len(v)]
  BY DEF Promise!T, T, Promise!Depth, Promise!Top, CallsOf
<1>2. Promise!IsRunning
  BY <1>1 DEF Promise!IsRunning, InFlight
<1>3. Promise!SetCalls([CallsOf[T] EXCEPT ![Len(v)].hook = h])
  BY <1>1 DEF Promise!SetCalls, CallsOf, OwnSet
<1>4. CASE h
  <2>1. h = TRUE /\ \A i \in 1 .. Len(v) : ~CallsOf[T][i].hook
    BY <1>4
  <2>2. Promise!StartHook
    BY <1>1, <1>2, <1>3, <2>1 DEF Promise!StartHook, InFlight, CallsOf
  <2> QED BY <2>2
<1>5. CASE ~h
  <2>1. h = FALSE /\ v[Len(v)].hook
    BY <1>5
  <2>2. Promise!EndHook
    <3>1. Promise!Top.hook
      BY <1>1, <2>1
    <3>2. Promise!SetCalls([[t \in Threads |-> Logical(t)][Promise!T]
                            EXCEPT ![Promise!Depth(Promise!T)].hook = FALSE])
      BY <1>1, <1>3, <2>1 DEF CallsOf
    <3> QED BY <1>2, <3>1, <3>2, FlagSame DEF Promise!EndHook
  <2> QED BY <2>2
<1> QED BY <1>4, <1>5

-----------------------------------------------------------------------------
(***************************************************************************)
(* What Coroutines sees of a step that ends in another thread.             *)
(***************************************************************************)
TwoSet(f, g, a, v, b, w) == g = [f EXCEPT ![a] = v, ![b] = w]

(***************************************************************************)
(* Two functions that differ in the values for a and b.                    *)
(***************************************************************************)
LEMMA TwoChanges ==
  ASSUME NEW D, NEW f, f = [t \in D |-> f[t]], NEW g, g = [t \in D |-> g[t]],
         NEW a \in D, NEW b \in D, a # b, NEW v, NEW w, g[a] = v, g[b] = w,
         \A t \in D : t # a /\ t # b => g[t] = f[t]
  PROVE  TwoSet(f, g, a, v, b, w)
<1> DEFINE h == [f EXCEPT ![a] = v, ![b] = w]
<1>1. h = [t \in D |-> IF t = b THEN w ELSE IF t = a THEN v ELSE f[t]]
  OBVIOUS
<1>2. \A t \in D : g[t] = IF t = b THEN w ELSE IF t = a THEN v ELSE f[t]
  OBVIOUS
<1> HIDE DEF h
<1>3. g = [t \in D |-> IF t = b THEN w ELSE IF t = a THEN v ELSE f[t]]
  BY <1>2
<1> QED BY <1>1, <1>3 DEF h, TwoSet

(***************************************************************************)
(* The logical call stacks, as a function on the threads.                  *)
(***************************************************************************)
LEMMA CallsAre ==
  /\ CallsOf = [t \in Threads |-> CallsOf[t]]
  /\ CallsOf' = [t \in Threads |-> CallsOf'[t]]
  /\ \A t \in Threads : CallsOf[t] = Logical(t) /\ CallsOf'[t] = Logical(t)'
BY DEF CallsOf

(***************************************************************************)
(* The logical stack of the running thread is the view of its CallInfos,   *)
(* but in the middle of unroll.                                            *)
(***************************************************************************)
LEMMA BusyView ==
  ASSUME IInv, mode # "unroll"
  PROVE  /\ CallsOf[T] = View(ci[T]) /\ View(ci[T]) \in Seq(LFrames)
         /\ Len(View(ci[T])) = Depth(T) /\ Depth(T) \in Nat
         /\ \A i \in 1 .. Depth(T) : View(ci[T])[i] = LF(ci[T][i]) /\ ci[T][i] \in Frames
<1>1. ci[T] \in Seq(Frames)
  BY RunningThread
<1>2. CallsOf[T] = ViewAt(ci[T], FALSE)
  BY OwnCalls
<1>3. CallsOf[T] = View(ci[T])
  BY <1>1, <1>2, ViewCases
<1> QED BY <1>1, <1>3, ViewTypes DEF Depth

(***************************************************************************)
(* The running thread stops with the CallInfos s.                          *)
(***************************************************************************)
LEMMA StopMap ==
  ASSUME IInv, T # Main, NEW s \in Seq(Frames), BackToResumer(s),
         NEW st, status' = [status EXCEPT ![T] = st]
  PROVE  Stops(View(s), st) /\ ~InFlight'
<1> DEFINE m == Len(active) - 1
           p == active[m]
<1>1. /\ T \in Threads /\ ci \in [Threads -> Seq(Frames)] /\ Len(active) \in Nat
      /\ Len(active) > 0 /\ active \in Seq(Threads) /\ ActiveOK
  BY RunningThread DEF IInv, TypeOK
<1>2. /\ active' = Front(active) /\ mode' = "run"
      /\ ci' = [ci EXCEPT ![T] = s, ![p][Depth(p)] = Back(@)]
  BY DEF BackToResumer
<1>3. m \in 1 .. Len(active) /\ m # Len(active) /\ Len(active) \in 1 .. Len(active)
      /\ m \in 1 .. m /\ m \in 0 .. Len(active)
  <2>1. Len(active) # 1
    BY <1>1 DEF ActiveOK, T
  <2> DEFINE l == Len(active)
  <2>2. l \in Nat /\ l > 0 /\ l # 1 /\ m = l - 1
    BY <1>1, <2>1
  <2> HIDE DEF l, m
  <2>3. m \in 1 .. l /\ m # l /\ l \in 1 .. l /\ m \in 1 .. m /\ m \in 0 .. l
    BY <2>2
  <2> QED BY <2>3 DEF l
<1>4. p \in Threads /\ p # T
  <2> HIDE DEF m
  <2>1. active[m] \in Threads
    BY <1>1, <1>3, ElementOfSeq
  <2>2. active[m] # active[Len(active)]
    BY <1>1, <1>3 DEF ActiveOK
  <2> QED BY <2>1, <2>2 DEF T
<1>5. /\ Len(active') = m /\ active'[m] = p
  <2>1. active' = SubSeq(active, 1, m)
    BY <1>2 DEF Front
  <2> HIDE DEF m
  <2> QED BY <1>1, <1>3, <2>1, CutIsPrefix
<1>6. T' = p
  BY <1>5 DEF T
<1> HIDE DEF m
<1>7. ci[p] \in Seq(Frames) /\ Len(ci[p]) > 0
  <2>1. IsActive(p)
    BY <1>3 DEF IsActive
  <2>2. Role(p) = "wait"
    <3>1. status[p] = "OK"
      BY <1>1, <1>3 DEF ActiveOK
    <3> QED BY <1>4, <2>1, <3>1 DEF Role
  <2>3. ThreadOK(p, ci[p], jmp[p], nC[p], nny[p], base[p], errf[p], allow[p], "wait")
    BY <1>4, <2>2 DEF IInv, ThreadInv
  <2> QED BY <1>1, <1>4, <2>3 DEF ThreadOK, StackOK, TopOK
<1> HIDE DEF p
<1> DEFINE q == ci[p]
           r == [q EXCEPT ![Len(q)] = Back(q[Len(q)])]
<1>8. ci'[T] = s /\ ci'[p] = r /\ \A t \in Threads : t # T /\ t # p => ci'[t] = ci[t]
  BY <1>1, <1>2, <1>4 DEF Depth
<1>9. r \in Seq(Frames) /\ View(r) = Promise!Back(View(q))
  <2>1. q \in Seq(Frames) /\ Len(q) > 0
    BY <1>7
  <2> HIDE DEF q
  <2>2. q[Len(q)] \in Frames
    BY <2>1, LenProperties, ElementOfSeq
  <2>3. Back(q[Len(q)]) \in Frames
    BY <2>2, BackFields
  <2> QED BY <2>1, <2>3, ViewBack, ViewTop
<1> HIDE DEF r
<1>10. ASSUME NEW t \in Threads PROVE CallsOf'[t] = View(ci'[t])
  <2>1. ci'[t] \in Seq(Frames)
    BY <1>1, <1>8, <1>9
  <2>2. CallsOf'[t] = ViewAt(ci'[t], FALSE)
    BY <1>2, CallsAre, LogicalIsView
  <2> QED BY <2>1, <2>2, ViewCases
<1>11. CallsOf[p] = View(q) /\ \A t \in Threads : t # T => CallsOf[t] = View(ci[t])
  BY <1>4, OwnCalls
<1>12. CallsOf' = [CallsOf EXCEPT ![T] = View(s), ![p] = Promise!Back(CallsOf[p])]
  <2> DEFINE f == CallsOf
             g == CallsOf'
             v == View(s)
             w == Promise!Back(CallsOf[p])
  <2>1. f = [t \in Threads |-> f[t]] /\ g = [t \in Threads |-> g[t]]
    BY CallsAre
  <2>2. g[T] = v /\ g[p] = w
    BY <1>1, <1>4, <1>8, <1>9, <1>10, <1>11
  <2>3. \A t \in Threads : t # T /\ t # p => g[t] = f[t]
    BY <1>8, <1>10, <1>11
  <2> HIDE DEF f, g, v, w
  <2>4. TwoSet(f, g, T, v, p, w)
    BY <1>1, <1>4, <2>1, <2>2, <2>3, TwoChanges
  <2> QED BY <2>4 DEF TwoSet, f, g, v, w
<1> QED BY <1>2, <1>12 DEF Stops, Front, InFlight, p, m

(***************************************************************************)
(* The running thread has the CallInfos s now.                             *)
(***************************************************************************)
LEMMA OwnView ==
  ASSUME IInv, active' = active, NEW s \in Seq(Frames), ci' = [ci EXCEPT ![T] = s]
  PROVE  /\ mode' # "unroll" \/ Len(s) = 0 => OwnSet(View(s))
         /\ mode' = "unroll" /\ Len(s) > 0 => OwnSet(Promise!Back(View(s)))
<1> DEFINE d == mode' = "unroll"
<1>1. OwnSet(ViewAt(s, d))
  BY OwnMap DEF OwnSet
<1>2. d \in BOOLEAN /\ (d <=> mode' = "unroll")
  OBVIOUS
<1> HIDE DEF d
<1>3. /\ ~d \/ Len(s) = 0 => ViewAt(s, d) = View(s)
      /\ d /\ Len(s) > 0 => ViewAt(s, d) = Promise!Back(View(s))
  BY <1>2, ViewCases
<1> QED BY <1>1, <1>2, <1>3

(***************************************************************************)
(* Changes of a CallInfo, seen by Coroutines.                              *)
(***************************************************************************)
LEMMA DoingView ==
  ASSUME NEW f \in Frames, NEW g \in Frames, g.fn = f.fn, g.hook = f.hook,
         g.msgh = f.msgh, NEW d, g.doing = d
  PROVE  LF(g) = [LF(f) EXCEPT !.doing = d]
BY DEF LF

(***************************************************************************)
(* A change of whether an error in the function is handled.                *)
(***************************************************************************)
LEMMA MsghView ==
  ASSUME NEW f \in Frames, NEW g \in Frames, g.fn = f.fn, g.hook = f.hook,
         g.doing = f.doing, NEW b, g.msgh = b
  PROVE  LF(g) = [LF(f) EXCEPT !.msgh = b]
BY DEF LF

(***************************************************************************)
(* A change of whether a hook runs on top of the function.                 *)
(***************************************************************************)
LEMMA HookView ==
  ASSUME NEW f \in Frames, NEW g \in Frames, g.fn = f.fn, g.msgh = f.msgh,
         g.doing = f.doing, NEW b, g.hook = b
  PROVE  LF(g) = [LF(f) EXCEPT !.hook = b]
BY DEF LF

(***************************************************************************)
(* The CallInfo of a new call is a new function.                           *)
(***************************************************************************)
LEMMA NewView ==
  ASSUME NEW fn \in Functions, NEW fresh \in BOOLEAN
  PROVE  NewFrame(fn, fresh) \in Frames /\ LF(NewFrame(fn, fresh)) = Promise!New(fn)
<1>1. NewFrame(fn, fresh) \in Frames
  BY NewFrameFields
<1>2. LF(NewFrame(fn, fresh)) = Promise!New(fn)
  BY DEF LF, NewFrame, Promise!New
<1> QED BY <1>1, <1>2

(***************************************************************************)
(* What Coroutines sees of L->ci changing into f.                          *)
(***************************************************************************)
LEMMA TopView ==
  ASSUME IInv, Depth(T) > 0, NEW f \in Frames
  PROVE  LET r == [ci[T] EXCEPT ![Depth(T)] = f]
             v == View(ci[T])
         IN  /\ r \in Seq(Frames) /\ Len(r) = Depth(T) /\ SetTop(f) = [ci EXCEPT ![T] = r]
             /\ View(r) = [v EXCEPT ![Len(v)] = LF(f)]
             /\ Len(v) > 0 /\ v \in Seq(LFrames) /\ v[Len(v)] = LF(Top)
<1> DEFINE s == ci[T]
           r == [ci[T] EXCEPT ![Depth(T)] = f]
           v == View(ci[T])
<1>1. s \in Seq(Frames) /\ Len(s) = Depth(T) /\ Len(s) > 0
  BY RunningThread DEF Depth
<1>2. r \in Seq(Frames) /\ Len(r) = Depth(T) /\ SetTop(f) = [ci EXCEPT ![T] = r]
  BY OwnTop DEF Depth
<1>3. r = [s EXCEPT ![Len(s)] = f]
  BY <1>1
<1>4. Top = s[Len(s)]
  BY DEF Top, Depth
<1>5. v = View(s)
  OBVIOUS
<1> HIDE DEF s, r, v
<1>6. v \in Seq(LFrames) /\ Len(v) = Len(s) /\ v[Len(s)] = LF(s[Len(s)])
  <2>1. Len(s) \in 1 .. Len(s)
    BY <1>1, LenProperties
  <2> QED BY <1>1, <1>5, <2>1, ViewTypes
<1>7. View(r) = [v EXCEPT ![Len(s)] = LF(f)]
  BY <1>1, <1>3, <1>5, ViewTop
<1>8. View(r) = [v EXCEPT ![Len(v)] = LF(f)]
  BY <1>6, <1>7
<1> QED BY <1>1, <1>2, <1>4, <1>6, <1>8 DEF r, v

(***************************************************************************)
(* Enter: a call, or the error that the C stack overflows.                 *)
(***************************************************************************)
LEMMA EnterMap ==
  ASSUME IInv, Depth(T) > 0, NEW f \in Frames, NEW fn \in Functions,
         NEW calls, NEW ny, Enter(f, fn, calls, ny), active' = active,
         NEW v, v = View(ci[T]), NEW w, w = [v EXCEPT ![Len(v)] = LF(f)]
  PROVE  \/ OwnSet(w) /\ InFlight'
         \/ OwnSet(Append(w, Promise!New(fn))) /\ ~InFlight'
<1> DEFINE r == [ci[T] EXCEPT ![Depth(T)] = f]
           g == NewFrame(fn, calls = 1)
<1>1. /\ r \in Seq(Frames) /\ SetTop(f) = [ci EXCEPT ![T] = r] /\ View(r) = w
  BY TopView
<1>2. \/ ci' = SetTop(f) /\ mode' \in {"raise", "throw"}
      \/ ci' = [ci EXCEPT ![T] = Append(r, g)] /\ mode' = "run"
  BY DEF Enter
<1>3. g \in Frames /\ LF(g) = Promise!New(fn)
  BY NewView
<1> HIDE DEF r, g
<1>4. CASE ci' = SetTop(f) /\ mode' \in {"raise", "throw"}
  <2>1. OwnSet(View(r))
    BY <1>1, <1>4, OwnView
  <2> QED BY <1>1, <1>4, <2>1 DEF InFlight
<1>5. CASE ci' = [ci EXCEPT ![T] = Append(r, g)] /\ mode' = "run"
  <2>1. Append(r, g) \in Seq(Frames)
    BY <1>1, <1>3, AppendProperties
  <2>2. OwnSet(View(Append(r, g)))
    BY <1>5, <2>1, OwnView
  <2>3. View(Append(r, g)) = Append(w, Promise!New(fn))
    BY <1>1, <1>3, ViewAppend
  <2> QED BY <1>5, <2>2, <2>3 DEF InFlight
<1> QED BY <1>2, <1>4, <1>5

(***************************************************************************)
(* A call by any of the three ways: the callee is there, or the error of   *)
(* an overflow is.                                                         *)
(***************************************************************************)
LEMMA CallMap ==
  ASSUME IInv, Running, NEW f \in Frames, f.fn = Top.fn, f.hook = Top.hook,
         f.msgh = Top.msgh, f.doing \in CallDoing, NEW fn \in Functions,
         NEW calls, NEW ny, Enter(f, fn, calls, ny), active' = active, status' = status
  PROVE  Promise!Call \/ Promise!Raise
<1> DEFINE v == View(ci[T])
           d == f.doing
           w == [v EXCEPT ![Len(v)] = LF(f)]
<1>1. Depth(T) > 0 /\ mode = "run" /\ T \in Threads /\ Top \in Frames
  BY RunningTop, RunningThread DEF Running
<1>2. CallsOf[T] = v /\ Len(v) > 0 /\ v \in Seq(LFrames) /\ v[Len(v)] = LF(Top)
  BY <1>1, TopView, BusyView
<1>3. w = BusyWith(v, d)
  <2>1. LF(f) = [LF(Top) EXCEPT !.doing = d]
    BY <1>1, DoingView
  <2> HIDE DEF v, d
  <2> QED BY <1>2, <2>1 DEF BusyWith
<1>4. \/ OwnSet(w) /\ InFlight'
      \/ OwnSet(Append(w, Promise!New(fn))) /\ ~InFlight'
  BY <1>1, EnterMap
<1>5. ~InFlight /\ d \in CallDoing /\ d \in {v[Len(v)].doing} \cup CallDoing
  BY <1>1 DEF InFlight
<1> HIDE DEF v, w, d
<1>6. CASE OwnSet(w) /\ InFlight'
  <2>1. OwnSet(BusyWith(v, d))
    BY <1>3, <1>6
  <2> QED BY <1>1, <1>2, <1>5, <1>6, <2>1, IsRaise
<1>7. CASE OwnSet(Append(w, Promise!New(fn))) /\ ~InFlight'
  <2>1. OwnSet(Append(BusyWith(v, d), Promise!New(fn)))
    BY <1>3, <1>7
  <2> QED BY <1>1, <1>2, <1>5, <1>7, <2>1, IsCall
<1> QED BY <1>4, <1>6, <1>7

(***************************************************************************)
(* The calls of LuaCalls are Call of Coroutines, or Raise when the C stack *)
(* is full.                                                                *)
(***************************************************************************)
LEMMA LuaCallMap ==
  ASSUME IInv, LuaCall
  PROVE  Promise!Call \/ Promise!Raise
<1>1. PICK fn \in Functions, tm \in BOOLEAN :
        /\ Running
        /\ Enter([Top EXCEPT !.doing = IF tm THEN "tm" ELSE "op"],
                 fn, IF tm THEN 1 ELSE 0, 0)
        /\ active' = active /\ status' = status
  BY DEF LuaCall
<1> DEFINE g == Top
           f == [g EXCEPT !.doing = IF tm THEN "tm" ELSE "op"]
           c == IF tm THEN 1 ELSE 0
<1>2. g \in Frames /\ g = Top
  BY <1>1, RunningTop
<1>3. Enter(f, fn, c, 0)
  BY <1>1
<1> HIDE DEF g
<1>4. /\ f \in Frames /\ f.fn = g.fn /\ f.hook = g.hook /\ f.msgh = g.msgh
      /\ f.doing \in CallDoing
  BY <1>2 DEF Frames, Doing, CallDoing, Promise!Resumable
<1> HIDE DEF f, c
<1> QED BY <1>1, <1>2, <1>3, <1>4, CallMap

(***************************************************************************)
(* lua_callk.                                                              *)
(***************************************************************************)
LEMMA CallKMap ==
  ASSUME IInv, CallK
  PROVE  Promise!Call \/ Promise!Raise
<1>1. PICK fn \in Functions, k \in BOOLEAN :
        /\ Running
        /\ IF k /\ Yieldable
           THEN Enter([Top EXCEPT !.doing = "callk", !.k = TRUE], fn, 1, 0)
           ELSE Enter([Top EXCEPT !.doing = "call"], fn, 1, 1)
        /\ active' = active /\ status' = status
  BY DEF CallK
<1> DEFINE g == Top
           f == IF k /\ Yieldable THEN [g EXCEPT !.doing = "callk", !.k = TRUE]
                ELSE [g EXCEPT !.doing = "call"]
           y == IF k /\ Yieldable THEN 0 ELSE 1
<1>2. g \in Frames /\ g = Top
  BY <1>1, RunningTop
<1>3. Enter(f, fn, 1, y)
  BY <1>1
<1> HIDE DEF g
<1>4. /\ f \in Frames /\ f.fn = g.fn /\ f.hook = g.hook /\ f.msgh = g.msgh
      /\ f.doing \in CallDoing
  BY <1>2 DEF Frames, Doing, CallDoing, Promise!Resumable
<1> HIDE DEF f, y
<1> QED BY <1>1, <1>2, <1>3, <1>4, CallMap

(***************************************************************************)
(* lua_pcallk: the longjmp buffer and the flags of the CallInfo are not    *)
(* seen, only that the call is protected.                                  *)
(***************************************************************************)
LEMMA PCallKMap ==
  ASSUME IInv, PCallK
  PROVE  Promise!Call \/ Promise!Raise
<1>1. PICK fn \in Functions, k \in BOOLEAN, msgh \in Handlers :
        LET handler == IF msgh THEN Depth(T) ELSE 0
        IN  /\ Running
            /\ IF k /\ Yieldable
               THEN Enter([Top EXCEPT !.doing = "pcallk", !.k = TRUE,
                                      !.ypcall = TRUE, !.oah = allow[T],
                                      !.olderr = errf[T],
                                      !.handler = handler], fn, 1, 0)
               ELSE Enter([Top EXCEPT !.doing = "pcall", !.handler = handler], fn, 1, 1)
            /\ active' = active /\ status' = status
  BY DEF PCallK
<1> DEFINE g == Top
           a == allow[T]
           e == errf[T]
           h == IF msgh THEN Depth(T) ELSE 0
           f == IF k /\ Yieldable
                THEN [g EXCEPT !.doing = "pcallk", !.k = TRUE, !.ypcall = TRUE,
                               !.oah = a, !.olderr = e, !.handler = h]
                ELSE [g EXCEPT !.doing = "pcall", !.handler = h]
           y == IF k /\ Yieldable THEN 0 ELSE 1
<1>2. g \in Frames /\ g = Top /\ a \in BOOLEAN /\ e \in Nat /\ h \in Nat
  BY <1>1, RunningTop, RunningThread, TopFrame
<1>3. Enter(f, fn, 1, y)
  BY <1>1
<1> HIDE DEF g, a, e, h
<1>4. /\ f \in Frames /\ f.fn = g.fn /\ f.hook = g.hook /\ f.msgh = g.msgh
      /\ f.doing \in CallDoing
  BY <1>2, ZenonT(40) DEF Frames, Doing, CallDoing, Promise!Resumable
<1> HIDE DEF f, y
<1> QED BY <1>1, <1>2, <1>3, <1>4, CallMap

(***************************************************************************)
(* The running function returns: what is below it.                         *)
(***************************************************************************)
LEMMA BelowView ==
  ASSUME IInv, Depth(T) > 0, NEW v, v = View(ci[T]),
         NEW b, b = SubSeq(v, 1, Len(v) - 1)
  PROVE  /\ Below \in Seq(Frames) /\ Len(Below) = Depth(T) - 1 /\ Depth(T) \in Nat
         /\ b = View(Below) /\ b \in Seq(LFrames) /\ Len(b) = Len(Below)
         /\ Depth(T) > 1 => /\ Below[Len(Below)] = Caller /\ Caller \in Frames
                            /\ b # << >> /\ b[Len(b)] = LF(Caller)
         /\ ~(Depth(T) > 1) => b = << >>
<1> DEFINE s == ci[T]
           n == Len(s) - 1
<1>1. s \in Seq(Frames) /\ Len(s) = Depth(T) /\ Depth(T) \in Nat /\ v = View(s)
  BY RunningThread, TopFrame DEF Depth
<1>2. n \in 0 .. Len(s) /\ n = Depth(T) - 1 /\ (Depth(T) > 1 => n \in 1 .. n /\ n > 0)
      /\ n \in Nat /\ (~(Depth(T) > 1) => n = 0)
  BY <1>1
<1>3. /\ Below \in Seq(Frames) /\ Len(Below) = n
      /\ \A i \in 1 .. n : Below[i] = s[i]
      /\ Below = Front(s)
  BY CutBelow
<1>4. Caller = s[n]
  BY <1>1 DEF Caller
<1>5. Below = SubSeq(s, 1, n)
  BY <1>3 DEF Front
<1> HIDE DEF s, n
<1>6. Len(v) = Len(s)
  BY <1>1, ViewTypes
<1>7. b = SubSeq(v, 1, n)
  BY <1>1, <1>2, <1>6
<1>8. b = View(Below)
  BY <1>1, <1>2, <1>5, <1>7, ViewCut
<1>9. b \in Seq(LFrames) /\ Len(b) = n /\ \A i \in 1 .. n : b[i] = LF(Below[i])
  BY <1>3, <1>8, ViewTypes
<1>10. ASSUME Depth(T) > 1
       PROVE  /\ Below[n] = Caller /\ Caller \in Frames
              /\ b # << >> /\ b[n] = LF(Caller)
  <2>1. n \in 1 .. n /\ n > 0
    BY <1>2, <1>10
  <2>2. Below[n] = Caller /\ Caller \in Frames
    BY <1>3, <1>4, <2>1, ElementOfSeq
  <2> QED BY <1>9, <2>1, <2>2, EmptySeq
<1>11. ASSUME ~(Depth(T) > 1) PROVE b = << >>
  BY <1>2, <1>9, <1>11, EmptySeq
<1> QED BY <1>1, <1>2, <1>3, <1>8, <1>9, <1>10, <1>11

(***************************************************************************)
(* The caller, as f, is the last function after a return.                  *)
(***************************************************************************)
LEMMA GoOnView ==
  ASSUME IInv, Depth(T) > 1, NEW f \in Frames, GoOn(f),
         active' = active, mode' # "unroll", NEW v, v = View(ci[T]),
         NEW b, b = SubSeq(v, 1, Len(v) - 1)
  PROVE  /\ OwnSet([b EXCEPT ![Len(b)] = LF(f)])
         /\ f = Back(Caller) => OwnSet(Promise!Back(b))
<1> DEFINE r == [Below EXCEPT ![Len(Below)] = f]
<1>1. /\ Below \in Seq(Frames) /\ Len(Below) = Depth(T) - 1 /\ Depth(T) \in Nat
      /\ b = View(Below) /\ Len(b) = Len(Below) /\ Below[Len(Below)] = Caller
      /\ Len(Below) > 0
  <2>1. /\ Below \in Seq(Frames) /\ Len(Below) = Depth(T) - 1 /\ Depth(T) \in Nat
        /\ b = View(Below) /\ Len(b) = Len(Below) /\ Below[Len(Below)] = Caller
    <3>1. Depth(T) > 0
      BY RunningThread, LenProperties DEF Depth
    <3> QED BY <3>1, BelowView
  <2> QED BY <2>1
<1>2. ci' = [ci EXCEPT ![T] = r]
  BY <1>1 DEF GoOn
<1>3. r \in Seq(Frames) /\ View(r) = [b EXCEPT ![Len(b)] = LF(f)]
  BY <1>1, ViewTop
<1>4. f = Back(Caller) => View(r) = Promise!Back(b)
  BY <1>1, ViewBack
<1> HIDE DEF r
<1>5. OwnSet(View(r))
  BY <1>2, <1>3, OwnView
<1> QED BY <1>3, <1>4, <1>5

(***************************************************************************)
(* The returns of LuaCalls are Return of Coroutines.                       *)
(***************************************************************************)
LEMMA ReturnView ==
  ASSUME IInv, Running, ~Top.hook
  PROVE  LET v == View(ci[T])
         IN  /\ CallsOf[T] = v /\ Len(v) > 0 /\ T \in Threads /\ ~InFlight
             /\ ~v[Len(v)].hook
<1> DEFINE v == View(ci[T])
<1>1. Depth(T) > 0 /\ mode = "run" /\ T \in Threads /\ Top \in Frames
  BY RunningTop, RunningThread DEF Running
<1>2. CallsOf[T] = v /\ Len(v) > 0 /\ v[Len(v)] = LF(Top)
  BY <1>1, TopView, BusyView
<1>3. LF(Top).hook = Top.hook
  BY <1>1, FrameViews
<1> HIDE DEF v
<1> QED BY <1>1, <1>2, <1>3 DEF InFlight, v

(***************************************************************************)
(* A return to a caller whose C activation is there.                       *)
(***************************************************************************)
LEMMA ReturnMap ==
  ASSUME IInv, Return
  PROVE  Promise!Return
<1> DEFINE v == View(ci[T])
           b == SubSeq(v, 1, Len(v) - 1)
           w == Promise!Back(b)
<1>1. /\ Running /\ ~Top.hook /\ Depth(T) > 1 /\ ~Caller.msgh /\ GoOn(Back(Caller))
      /\ mode' = "run" /\ active' = active /\ status' = status
  BY DEF Return, Returning, HasCaller, Running
<1>2. CallsOf[T] = v /\ Len(v) > 0 /\ T \in Threads /\ ~InFlight /\ ~v[Len(v)].hook
  BY <1>1, ReturnView
<1>3. b # << >> /\ b[Len(b)] = LF(Caller) /\ Caller \in Frames
  BY <1>1, BelowView DEF Running
<1>4. ~b[Len(b)].msgh
  BY <1>1, <1>3, FrameViews
<1>5. OwnSet(w)
  <2>1. Back(Caller) \in Frames
    BY <1>3, BackFields
  <2> HIDE DEF v, b
  <2> QED BY <1>1, <2>1, GoOnView DEF v, b
<1>6. ~InFlight' /\ w = Promise!Back(b) /\ b = SubSeq(v, 1, Len(v) - 1)
  BY <1>1 DEF InFlight
<1> HIDE DEF v, b, w
<1> QED BY <1>1, <1>2, <1>4, <1>5, <1>6, IsReturn

(***************************************************************************)
(* A return of a message handler: the error goes on.                       *)
(***************************************************************************)
LEMMA ReturnFromHandlerMap ==
  ASSUME IInv, ReturnFromHandler
  PROVE  Promise!Return
<1> DEFINE v == View(ci[T])
           b == SubSeq(v, 1, Len(v) - 1)
           g == Caller
           f == [g EXCEPT !.msgh = FALSE]
           w == [b EXCEPT ![Len(b)] = LF(f)]
<1>1. /\ Running /\ ~Top.hook /\ Depth(T) > 1 /\ Caller.msgh
      /\ GoOn([Caller EXCEPT !.msgh = FALSE])
      /\ mode' = "throw" /\ active' = active /\ status' = status
  BY DEF ReturnFromHandler, Returning, HasCaller, Running
<1>2. CallsOf[T] = v /\ Len(v) > 0 /\ T \in Threads /\ ~InFlight /\ ~v[Len(v)].hook
  BY <1>1, ReturnView
<1>3. b # << >> /\ b[Len(b)] = LF(g) /\ g \in Frames /\ g = Caller
  BY <1>1, BelowView DEF Running
<1>4. b[Len(b)].msgh
  BY <1>1, <1>3, FrameViews
<1>5. GoOn(f)
  BY <1>1
<1>6. f \in Frames /\ LF(f) = [LF(g) EXCEPT !.msgh = FALSE]
  <2>1. /\ f \in Frames /\ f.fn = g.fn /\ f.hook = g.hook /\ f.doing = g.doing
        /\ f.msgh = FALSE
    <3> HIDE DEF g
    <3> QED BY <1>3 DEF Frames
  <2> HIDE DEF f, g
  <2> QED BY <1>3, <2>1, MsghView
<1>7. w = [b EXCEPT ![Len(b)].msgh = FALSE]
  <2> HIDE DEF b, f, g
  <2> QED BY <1>3, <1>6
<1>8. OwnSet(w)
  <2> HIDE DEF f
  <2> QED BY <1>1, <1>5, <1>6, GoOnView
<1>9. InFlight' /\ b = SubSeq(v, 1, Len(v) - 1)
  BY <1>1 DEF InFlight
<1> HIDE DEF v, b, w
<1> QED BY <1>1, <1>2, <1>3, <1>4, <1>7, <1>8, <1>9, IsReturn

(***************************************************************************)
(* A return to a caller whose C activation is gone: for Coroutines the     *)
(* caller goes on at once, although unroll has yet to continue it.         *)
(***************************************************************************)
LEMMA ReturnToUnrollMap ==
  ASSUME IInv, ReturnToUnroll
  PROVE  Promise!Return
<1> DEFINE v == View(ci[T])
           b == SubSeq(v, 1, Len(v) - 1)
           w == Promise!Back(b)
<1>1. /\ Running /\ ~Top.hook /\ ~HasCaller
      /\ \/ Depth(T) > 1 /\ GoOn(Back(Caller)) /\ mode' = "run"
         \/ ci' = [ci EXCEPT ![T] = Below] /\ mode' = "unroll"
      /\ active' = active /\ status' = status /\ Depth(T) > 0
  BY DEF ReturnToUnroll, Returning, Running
<1>2. CallsOf[T] = v /\ Len(v) > 0 /\ T \in Threads /\ ~InFlight /\ ~v[Len(v)].hook
  BY <1>1, ReturnView
<1>3. /\ Below \in Seq(Frames) /\ Len(Below) = Depth(T) - 1 /\ Depth(T) \in Nat
      /\ b = View(Below) /\ b \in Seq(LFrames) /\ Len(b) = Len(Below)
      /\ Depth(T) > 1 => /\ b # << >> /\ b[Len(b)] = LF(Caller) /\ Caller \in Frames
      /\ ~(Depth(T) > 1) => b = << >>
  <2>1. v = View(ci[T]) /\ b = SubSeq(v, 1, Len(v) - 1) /\ Depth(T) > 0
    BY <1>1
  <2> HIDE DEF v, b
  <2> QED BY <2>1, BelowView
<1>4. Depth(T) > 1 => ~Caller.msgh
  <2> SUFFICES ASSUME Depth(T) > 1 PROVE ~Caller.msgh
    OBVIOUS
  <2>1. ~Caller.live
    BY <1>1 DEF HasCaller
  <2>2. PICK n : n = Len(ci[T]) - 1
    OBVIOUS
  <2>3. Caller = ci[T][n] /\ n \in 1 .. n /\ Len(ci[T]) = Depth(T)
    BY <1>1, <2>2, CallerFrame DEF Depth
  <2>4. n \in 1 .. Len(ci[T]) /\ n # Len(ci[T])
    BY <1>3, <2>2, <2>3
  <2>5. Shapes(ci[T], "run")
    BY <1>1, RunningTop DEF StackOK
  <2>6. DeadShape(Caller) /\ ~Caller.recst
    BY <2>1, <2>3, <2>4, <2>5 DEF Shapes
  <2> QED BY <2>6 DEF DeadShape
<1>5. ~(b # << >> /\ b[Len(b)].msgh)
  <2> HIDE DEF v, b
  <2> QED BY <1>3, <1>4, FrameViews
<1>6. OwnSet(w)
  <2>1. CASE Depth(T) > 1 /\ GoOn(Back(Caller)) /\ mode' = "run"
    <3>1. Back(Caller) \in Frames
      BY <1>3, <2>1, BackFields
    <3> QED BY <1>1, <2>1, <3>1, GoOnView
  <2>2. CASE ci' = [ci EXCEPT ![T] = Below] /\ mode' = "unroll"
    <3>1. CASE Depth(T) > 1
      <4>1. Len(Below) > 0
        BY <1>3, <3>1
      <4>2. OwnSet(Promise!Back(View(Below)))
        BY <1>1, <1>3, <2>2, <4>1, OwnView
      <4> QED BY <1>3, <4>2
    <3>2. CASE ~(Depth(T) > 1)
      <4>1. Len(Below) = 0 /\ b = << >>
        BY <1>1, <1>3, <3>2
      <4>2. OwnSet(View(Below))
        BY <1>1, <1>3, <2>2, <4>1, OwnView
      <4>3. w = b
        <5> HIDE DEF b
        <5> QED BY <4>1 DEF Promise!Back
      <4> HIDE DEF w, b
      <4> QED BY <1>3, <4>2, <4>3
    <3> QED BY <3>1, <3>2
  <2> QED BY <1>1, <2>1, <2>2
<1>7. ~InFlight' /\ w = Promise!Back(b) /\ b = SubSeq(v, 1, Len(v) - 1)
  BY <1>1 DEF InFlight
<1> HIDE DEF v, b, w
<1> QED BY <1>1, <1>2, <1>5, <1>6, <1>7, IsReturn

-----------------------------------------------------------------------------
(***************************************************************************)
(* Errors: Raise, CallHandler, Catch and Die of Coroutines.                *)
(***************************************************************************)
LEMMA SameCalls ==
  ASSUME IInv, active' = active, ci' = ci, mode # "unroll", mode' # "unroll"
  PROVE  OwnSet(View(ci[T])) /\ CallsOf' = CallsOf
<1>1. ci[T] \in Seq(Frames) /\ T \in Threads /\ ci' = [ci EXCEPT ![T] = ci[T]]
  BY RunningThread DEF IInv, TypeOK
<1>2. OwnSet(View(ci[T]))
  BY <1>1, OwnView
<1>3. CallsOf[T] = View(ci[T])
  BY BusyView
<1>4. CallsOf' = CallsOf
  <2> DEFINE f == CallsOf
             g == CallsOf'
             v == View(ci[T])
  <2>1. f = [t \in Threads |-> f[t]] /\ g = [f EXCEPT ![T] = v] /\ f[T] = v
    BY <1>2, <1>3, CallsAre DEF OwnSet
  <2> HIDE DEF f, g, v
  <2>2. g = f
    BY <2>1
  <2> QED BY <2>2 DEF f, g
<1> QED BY <1>2, <1>4

(***************************************************************************)
(* lua_error and luaG_runerror.                                            *)
(***************************************************************************)
LEMMA RaiseMap ==
  ASSUME IInv, Raise
  PROVE  Promise!Raise
<1> DEFINE v == View(ci[T])
           d == v[Len(v)].doing
<1>1. /\ Running /\ mode' = "raise" /\ ci' = ci /\ active' = active /\ status' = status
      /\ Depth(T) > 0 /\ mode = "run" /\ T \in Threads /\ Top \in Frames
  BY RunningTop, RunningThread DEF Raise, Running
<1>2. CallsOf[T] = v /\ Len(v) > 0 /\ v \in Seq(LFrames) /\ Len(v) \in Nat
  BY <1>1, TopView, BusyView
<1>3. OwnSet(v)
  BY <1>1, SameCalls
<1> HIDE DEF v
<1>4. v = BusyWith(v, d)
  <2>1. Len(v) \in 1 .. Len(v)
    BY <1>2
  <2>2. v[Len(v)] \in LFrames
    BY <1>2, <2>1, ElementOfSeq
  <2>3. [v[Len(v)] EXCEPT !.doing = d] = v[Len(v)]
    BY <2>2 DEF LFrames
  <2>4. BusyWith(v, d) = [v EXCEPT ![Len(v)] = v[Len(v)]]
    BY <2>3 DEF BusyWith
  <2>5. v \in [1 .. Len(v) -> LFrames]
    BY <1>2
  <2> QED BY <2>4, <2>5
<1>5. OwnSet(BusyWith(v, d))
  BY <1>3, <1>4
<1>6. ~InFlight /\ InFlight' /\ d \in {v[Len(v)].doing} \cup CallDoing
  BY <1>1 DEF InFlight
<1> HIDE DEF d
<1> QED BY <1>1, <1>2, <1>5, <1>6, IsRaise

\* What Coroutines sees does not change.
Stutters == /\ CallsOf' = CallsOf /\ active' = active /\ status' = status
            /\ InFlight' <=> InFlight

(***************************************************************************)
(* luaG_errormsg: the message handler is called, or nothing is seen.       *)
(***************************************************************************)
LEMMA ErrorMsgMap ==
  ASSUME IInv, ErrorMsg
  PROVE  Promise!CallHandler \/ Stutters
<1>1. mode = "raise" /\ active' = active /\ status' = status
  BY DEF ErrorMsg
<1>2. CASE ~(errf[T] # 0 /\ Depth(T) > 0)
  <2>1. mode' = "throw" /\ ci' = ci
    BY <1>2 DEF ErrorMsg
  <2>2. CallsOf' = CallsOf
    BY <1>1, <2>1, SameCalls
  <2> QED BY <1>1, <2>1, <2>2 DEF Stutters, InFlight
<1>3. CASE errf[T] # 0 /\ Depth(T) > 0
  <2> DEFINE v == View(ci[T])
             g == Top
             f == [g EXCEPT !.msgh = TRUE]
             w == [v EXCEPT ![Len(v)] = LF(f)]
  <2>1. PICK fn \in Functions : Enter(f, fn, 1, 1)
    BY <1>3 DEF ErrorMsg
  <2>2. g \in Frames /\ g = Top /\ T \in Threads
    BY <1>3, TopFrame, RunningThread
  <2>3. /\ CallsOf[T] = v /\ Len(v) > 0 /\ v \in Seq(LFrames) /\ v[Len(v)] = LF(g)
        /\ Len(v) \in Nat
    BY <1>1, <1>3, <2>2, TopView, BusyView
  <2> HIDE DEF g
  <2>4. /\ f \in Frames /\ f.fn = g.fn /\ f.hook = g.hook /\ f.doing = g.doing
        /\ f.msgh = TRUE
    BY <2>2 DEF Frames
  <2> HIDE DEF f
  <2>5. LF(f) = [LF(g) EXCEPT !.msgh = TRUE] /\ LF(f) \in LFrames
    <3>1. LF(f) = [LF(g) EXCEPT !.msgh = TRUE]
      BY <2>2, <2>4, MsghView
    <3>2. LF(f) \in LFrames
      BY <2>4, FrameViews
    <3> QED BY <3>1, <3>2
  <2>6. \/ OwnSet(w) /\ InFlight'
        \/ OwnSet(Append(w, Promise!New(fn))) /\ ~InFlight'
    BY <1>1, <1>3, <2>1, <2>4, EnterMap
  <2> HIDE DEF v
  <2>7. w = [v EXCEPT ![Len(v)].msgh = TRUE]
    BY <2>3, <2>5
  <2>8. w \in Seq(LFrames)
    BY <2>3, <2>5, ExceptSeq
  <2> HIDE DEF w
  <2>9. PICK above \in {<< >>, << Promise!New("C") >>, << Promise!New("Lua") >>} :
          OwnSet(w \o above) /\ (InFlight' <=> above = << >>)
    <3>1. CASE OwnSet(w) /\ InFlight'
      <4>1. w \o << >> = w
        BY <2>8
      <4> QED BY <3>1, <4>1
    <3>2. CASE OwnSet(Append(w, Promise!New(fn))) /\ ~InFlight'
      <4> DEFINE a == << Promise!New(fn) >>
      <4>1. a \in {<< Promise!New("C") >>, << Promise!New("Lua") >>}
        BY DEF Functions
      <4>2. Append(w, Promise!New(fn)) = w \o a
        <5>1. PICK x : x = Promise!New(fn)
          OBVIOUS
        <5>2. Append(w, x) = w \o << x >>
          BY <2>8
        <5> QED BY <5>1, <5>2
      <4>3. a # << >>
        OBVIOUS
      <4> HIDE DEF a
      <4> QED BY <3>2, <4>1, <4>2, <4>3
    <3> QED BY <2>6, <3>1, <3>2
  <2>10. OwnSet([v EXCEPT ![Len(v)].msgh = TRUE] \o above)
    BY <2>7, <2>9
  <2>11. InFlight
    BY <1>1 DEF InFlight
  <2> QED BY <1>1, <2>2, <2>3, <2>9, <2>10, <2>11, IsCallHandler
<1> QED BY <1>2, <1>3

(***************************************************************************)
(* The CallInfos up to one of them, and their view.                        *)
(***************************************************************************)
LEMMA CutView ==
  ASSUME IInv, NEW n \in 1 .. Depth(T)
  PROVE  /\ Cut(n) \in Seq(Frames) /\ Len(Cut(n)) = n /\ n > 0 /\ n \in 1 .. n
         /\ View(Cut(n)) = SubSeq(View(ci[T]), 1, n)
         /\ Cut(n)[n] = ci[T][n] /\ ci[T][n] \in Frames
<1> DEFINE s == ci[T]
           q == SubSeq(s, 1, n)
<1>1. s \in Seq(Frames) /\ Len(s) \in Nat /\ n \in 1 .. Len(s)
  BY RunningThread, LenProperties DEF Depth
<1>2. n \in 0 .. Len(s) /\ n \in 1 .. n /\ n > 0
  BY <1>1
<1>3. Cut(n) = q
  BY DEF Cut
<1> HIDE DEF s
<1>4. q \in Seq(Frames) /\ Len(q) = n /\ q[n] = s[n]
  BY <1>1, <1>2, CutIsPrefix
<1>5. View(q) = SubSeq(View(s), 1, n)
  BY <1>1, <1>2, ViewCut
<1>6. s[n] \in Frames
  BY <1>1, ElementOfSeq
<1> HIDE DEF q
<1> QED BY <1>2, <1>3, <1>4, <1>5, <1>6 DEF s

(***************************************************************************)
(* An error that lands in a protected call with no other inside of it is   *)
(* caught by the innermost one.                                            *)
(***************************************************************************)
LEMMA CatchMap ==
  ASSUME IInv, mode \in {"throw", "caught"}, NEW n \in 1 .. Depth(T),
         ci[T][n].doing \in Protected,
         \A i \in n + 1 .. Depth(T) : ci[T][i].doing \notin Protected,
         OwnSet(Promise!Back(View(Cut(n)))), ~InFlight',
         active' = active, status' = status
  PROVE  Promise!Catch
<1> DEFINE v == View(ci[T])
<1>1. /\ CallsOf[T] = v /\ Len(v) = Depth(T) /\ Depth(T) \in Nat
      /\ \A i \in 1 .. Depth(T) : v[i] = LF(ci[T][i]) /\ ci[T][i] \in Frames
  BY BusyView
<1>2. OwnSet(Promise!Back(SubSeq(v, 1, n)))
  BY CutView
<1>3. T \in Threads /\ InFlight
  BY RunningThread DEF InFlight
<1> HIDE DEF v
<1>4. \A i \in 1 .. Depth(T) : v[i].doing = ci[T][i].doing
  BY <1>1, FrameViews, ZenonT(40)
<1>5. \A i \in n + 1 .. Depth(T) : i \in 1 .. Depth(T)
  BY <1>1
<1>6. /\ n \in 1 .. Len(v) /\ v[n].doing \in Protected
      /\ \A i \in n + 1 .. Len(v) : v[i].doing \notin Protected
  BY <1>1, <1>4, <1>5
<1> QED BY <1>1, <1>2, <1>3, <1>6, IsCatch

(***************************************************************************)
(* The longjmp buffer at the head of errorJmp is that of the innermost     *)
(* protected call, counting those of lua_pcallk too.                       *)
(***************************************************************************)
LEMMA Innermost ==
  ASSUME NEW t, NEW s, NEW j, NEW c, NEW y, NEW b, NEW e, NEW a,
         ThreadOK(t, s, j, c, y, b, e, a, "throw"), j # << >>,
         NEW n, n = j[Len(j)].lvl
  PROVE  /\ n \in 1 .. Len(s) /\ s[n].doing = "pcall"
         /\ \A i \in n + 1 .. Len(s) : s[i].doing \notin Protected
<1>1. /\ s \in Seq(Frames) /\ j \in Seq(Saved) /\ Len(s) \in Nat /\ Len(j) \in Nat
      /\ Shapes(s, "throw") /\ Buffers(t, s, j, b) /\ Nested(t, s)
  BY LenProperties DEF ThreadOK, ThreadTypes, StackOK
<1>2. Len(j) \in 1 .. Len(j)
  BY <1>1, EmptySeq
<1>3. n \in 1 .. Len(s) /\ s[n].doing = "pcall"
  BY <1>1, <1>2 DEF Buffers, Lands
<1>4. ASSUME NEW i \in n + 1 .. Len(s), s[i].doing \in Protected PROVE FALSE
  <2>1. i \in 1 .. Len(s) /\ n \in 1 .. i - 1 /\ ~(i < n) /\ i # n
    BY <1>1, <1>3
  <2>2. FrameShape(s[i]) /\ (s[i].live \/ DeadShape(s[i]))
    BY <1>1, <2>1 DEF Shapes
  <2>3. CASE s[i].doing = "pcall"
    <3>1. s[i].live
      BY <2>2, <2>3 DEF DeadShape
    <3>2. PICK k \in 1 .. Len(j) : j[k].lvl = i
      BY <1>1, <2>1, <2>3, <3>1 DEF Buffers
    <3>3. k < Len(j) \/ k = Len(j)
      BY <1>1
    <3>4. k < Len(j) => j[k].lvl < j[Len(j)].lvl
      BY <1>1, <1>2 DEF Buffers
    <3> QED BY <2>1, <3>2, <3>3, <3>4
  <2>4. CASE s[i].doing = "pcallk"
    <3>1. s[i].ypcall
      BY <2>2, <2>4 DEF FrameShape
    <3>2. s[n].doing \notin Held
      BY <1>1, <2>1, <3>1 DEF Nested, NestedAt
    <3> QED BY <1>3, <3>2 DEF Held
  <2> QED BY <1>4, <2>3, <2>4 DEF Protected
<1> QED BY <1>3, <1>4

(***************************************************************************)
(* The longjmp of luaD_throw to a luaD_pcall.                              *)
(***************************************************************************)
LEMMA ThrowToPCallMap ==
  ASSUME IInv, ThrowToPCall
  PROVE  Promise!Catch
<1> DEFINE s == ci[T]
           j == jmp[T]
           n == j[Len(j)].lvl
           q == Cut(n)
           r == [q EXCEPT ![n] = Back(q[n])]
<1>1. /\ mode = "throw" /\ j # << >> /\ ci' = [ci EXCEPT ![T] = r] /\ mode' = "run"
      /\ active' = active /\ status' = status
  BY DEF ThrowToPCall
<1>2. ThreadOK(T, s, j, nC[T], nny[T], base[T], errf[T], allow[T], "throw")
  BY <1>1, RunningThread
<1>3. /\ n \in 1 .. Len(s) /\ s[n].doing = "pcall"
      /\ \A i \in n + 1 .. Len(s) : s[i].doing \notin Protected
  <2> HIDE DEF s, j
  <2> QED BY <1>1, <1>2, Innermost
<1>4. Len(s) = Depth(T)
  BY DEF Depth
<1> HIDE DEF n
<1>5. /\ q \in Seq(Frames) /\ Len(q) = n /\ n > 0 /\ q[n] = s[n] /\ s[n] \in Frames
  BY <1>3, <1>4, CutView
<1> HIDE DEF q
<1>6. View(r) = Promise!Back(View(q)) /\ r \in Seq(Frames)
  <2>1. Back(q[n]) \in Frames
    BY <1>5, BackFields
  <2> HIDE DEF s, j
  <2> QED BY <1>5, <2>1, ViewBack, ViewTop
<1>7. OwnSet(Promise!Back(View(q)))
  <2>1. OwnSet(View(r))
    <3> HIDE DEF r
    <3> QED BY <1>1, <1>6, OwnView
  <2> QED BY <1>6, <2>1
<1>8. s[n].doing \in Protected /\ ~InFlight'
  BY <1>1, <1>3 DEF Protected, InFlight
<1> HIDE DEF r
<1> QED BY <1>1, <1>3, <1>4, <1>7, <1>8, CatchMap DEF q

(***************************************************************************)
(* The longjmp of luaD_throw to lua_resume: nothing is seen of it.         *)
(***************************************************************************)
LEMMA ThrowToResumeMap ==
  ASSUME IInv, ThrowToResume
  PROVE  Stutters
<1> DEFINE s == ci[T]
           r == Unwound(s)
<1>1. /\ mode = "throw" /\ mode' = "caught" /\ ci' = [ci EXCEPT ![T] = r]
      /\ active' = active /\ status' = status
  BY DEF ThrowToResume
<1>2. s \in Seq(Frames)
  BY RunningThread
<1>3. r \in Seq(Frames) /\ View(r) = View(s)
  <2> HIDE DEF s
  <2> QED BY <1>2, UnwoundFields, ViewUnwound
<1> HIDE DEF r
<1>4. OwnSet(View(s))
  BY <1>1, <1>3, OwnView
<1>5. CallsOf[T] = View(s)
  BY <1>1, BusyView
<1>6. CallsOf' = CallsOf
  <2> DEFINE f == CallsOf
             g == CallsOf'
             v == View(s)
  <2>1. f = [t \in Threads |-> f[t]] /\ g = [f EXCEPT ![T] = v] /\ f[T] = v
    BY <1>4, <1>5, CallsAre DEF OwnSet
  <2> HIDE DEF f, g, v
  <2>2. g = f
    BY <2>1
  <2> QED BY <2>2 DEF f, g
<1> QED BY <1>1, <1>6 DEF Stutters, InFlight

(***************************************************************************)
(* precover: the CallInfo that findpcall finds is that of the innermost    *)
(* protected call, since no luaD_pcall is left above it.                   *)
(***************************************************************************)
LEMMA PrecoverMap ==
  ASSUME IInv, Precover
  PROVE  Promise!Catch
<1> DEFINE s == ci[T]
<1>1. PICK n \in 1 .. Depth(T) :
        /\ mode = "caught" /\ s[n].ypcall /\ \A i \in n + 1 .. Depth(T) : ~s[i].ypcall
        /\ ci' = [ci EXCEPT ![T] = [Cut(n) EXCEPT ![n].recst = TRUE]]
        /\ mode' = "unroll" /\ active' = active /\ status' = status
  BY DEF Precover, RecoverPoint
<1> DEFINE q == Cut(n)
           g == q[n]
           f == [g EXCEPT !.recst = TRUE]
           r == [q EXCEPT ![n] = f]
<1>2. ThreadOK(T, s, jmp[T], nC[T], nny[T], base[T], errf[T], allow[T], "caught")
  BY <1>1, RunningThread
<1>3. /\ Len(s) = Depth(T) /\ Depth(T) \in Nat /\ Shapes(s, "caught")
      /\ \A i \in 1 .. Len(s) : ~s[i].live
  BY <1>2, RunningThread, LenProperties DEF Depth, ThreadOK, StackOK, TopOK
<1>4. \A i \in 1 .. Len(s) : s[i].doing \in Protected => s[i].ypcall
  <2> SUFFICES ASSUME NEW i \in 1 .. Len(s), s[i].doing \in Protected PROVE s[i].ypcall
    OBVIOUS
  <2>1. FrameShape(s[i]) /\ s[i].doing # "pcall"
    BY <1>3 DEF Shapes
  <2> QED BY <2>1 DEF FrameShape, Protected
<1>5. s[n].doing \in Protected
  <2>1. FrameShape(s[n])
    BY <1>3 DEF Shapes
  <2> QED BY <1>1, <2>1 DEF FrameShape, Protected
<1>6. \A i \in n + 1 .. Depth(T) : s[i].doing \notin Protected
  BY <1>1, <1>3, <1>4
<1>7. /\ q \in Seq(Frames) /\ Len(q) = n /\ n > 0 /\ g \in Frames /\ n \in 1 .. n
  BY CutView
<1>8. ci' = [ci EXCEPT ![T] = r]
  BY <1>1
<1> HIDE DEF g
<1>9. f \in Frames /\ LF(f) = LF(g)
  BY <1>7 DEF Frames, LF
<1> HIDE DEF f, q
<1>10. View(r) = View(q) /\ r \in Seq(Frames) /\ Len(r) > 0
  <2> DEFINE w == View(q)
  <2>1. w \in Seq(LFrames) /\ Len(w) = n /\ w[n] = LF(g) /\ LF(g) \in LFrames
    BY <1>7, ViewTypes, FrameViews DEF g
  <2>2. View(r) = [w EXCEPT ![n] = LF(g)] /\ r \in Seq(Frames)
    BY <1>7, <1>9, ViewTop
  <2> HIDE DEF w, r
  <2>3. [w EXCEPT ![n] = LF(g)] = w
    <3>1. w \in [1 .. n -> LFrames]
      BY <2>1
    <3> QED BY <2>1, <3>1
  <2>4. Len(r) > 0
    <3>1. Len(View(r)) = n
      BY <2>1, <2>2, <2>3
    <3> QED BY <1>7, <2>2, <3>1, ViewTypes
  <2> QED BY <2>2, <2>3, <2>4 DEF w
<1> HIDE DEF r
<1>11. OwnSet(Promise!Back(View(q)))
  <2>1. OwnSet(Promise!Back(View(r)))
    BY <1>1, <1>8, <1>10, OwnView
  <2> QED BY <1>10, <2>1
<1>12. ~InFlight' /\ mode \in {"throw", "caught"}
  BY <1>1 DEF InFlight
<1> QED BY <1>1, <1>5, <1>6, <1>11, <1>12, CatchMap DEF q

(***************************************************************************)
(* An error that no lua_pcallk takes is an error that nothing takes.       *)
(***************************************************************************)
LEMMA DieMap ==
  ASSUME IInv, Die
  PROVE  Promise!Die
<1> DEFINE s == ci[T]
           v == View(s)
<1>1. /\ mode = "caught" /\ \A i \in 1 .. Len(s) : ~s[i].ypcall
      /\ status' = [status EXCEPT ![T] = "ERR"] /\ BackToResumer(s)
  BY DEF Die, Depth
<1>2. ThreadOK(T, s, jmp[T], nC[T], nny[T], base[T], errf[T], allow[T], "caught")
  BY <1>1, RunningThread
<1>3. T # Main /\ s \in Seq(Frames)
  <2> HIDE DEF s
  <2>1. ThreadOK(T, s, jmp[T], nC[T], nny[T], base[T], errf[T], allow[T], "err")
    BY <1>2, Dies
  <2> QED BY <2>1 DEF ThreadOK, ThreadTypes
<1>4. \A i \in 1 .. Len(s) : s[i].doing \notin Protected
  <2>1. Shapes(s, "caught") /\ \A i \in 1 .. Len(s) : ~s[i].live
    BY <1>2 DEF ThreadOK, StackOK, TopOK
  <2> SUFFICES ASSUME NEW i \in 1 .. Len(s) PROVE s[i].doing \notin Protected
    OBVIOUS
  <2>2. FrameShape(s[i]) /\ s[i].doing # "pcall" /\ ~s[i].ypcall
    BY <1>1, <2>1 DEF Shapes
  <2> QED BY <2>2 DEF FrameShape, Protected
<1>5. Stops(v, "ERR") /\ ~InFlight'
  <2> HIDE DEF s
  <2> QED BY <1>1, <1>3, StopMap
<1>6. /\ CallsOf[T] = v /\ Len(v) = Len(s)
      /\ \A i \in 1 .. Len(s) : v[i] = LF(s[i]) /\ s[i] \in Frames
  BY <1>1, BusyView DEF Depth
<1> HIDE DEF v, s
<1>7. \A i \in 1 .. Len(v) : v[i].doing \notin Protected
  <2>1. \A i \in 1 .. Len(s) : LF(s[i]).doing = s[i].doing
    BY <1>6, FrameViews
  <2> QED BY <1>4, <1>6, <2>1
<1>8. InFlight
  BY <1>1 DEF InFlight
<1> QED BY <1>3, <1>5, <1>6, <1>7, <1>8, IsDie

-----------------------------------------------------------------------------
(***************************************************************************)
(* unroll: for Coroutines its function has gone on already, when the one   *)
(* above it returned or the error was caught.                              *)
(***************************************************************************)
LEMMA UnrollMap ==
  ASSUME IInv, mode = "unroll", Depth(T) > 0, ci' = SetTop(Back(Top)), mode' = "run",
         active' = active, status' = status
  PROVE  Stutters
<1> DEFINE s == ci[T]
           f == Back(Top)
           r == [ci[T] EXCEPT ![Depth(T)] = f]
           w == Promise!Back(View(s))
<1>1. s \in Seq(Frames) /\ Len(s) = Depth(T) /\ Top = s[Len(s)] /\ Top \in Frames
  BY RunningThread, TopFrame DEF Depth, Top
<1>2. f \in Frames
  BY <1>1, BackFields
<1>3. r \in Seq(Frames) /\ ci' = [ci EXCEPT ![T] = r]
  <2> HIDE DEF f
  <2> QED BY <1>2, TopView DEF f
<1>4. View(r) = w
  <2>1. r = [s EXCEPT ![Len(s)] = Back(s[Len(s)])]
    BY <1>1
  <2> HIDE DEF r, s, f
  <2>2. s \in Seq(Frames) /\ Len(s) > 0
    BY <1>1
  <2> QED BY <2>1, <2>2, ViewBack
<1>5. CallsOf[T] = w
  <2>1. CallsOf[T] = ViewAt(s, TRUE)
    BY OwnCalls
  <2> HIDE DEF s
  <2> QED BY <1>1, <2>1, ViewCases
<1> HIDE DEF r
<1>6. OwnSet(w)
  <2>1. OwnSet(View(r))
    BY <1>3, OwnView
  <2> HIDE DEF w
  <2> QED BY <1>4, <2>1
<1> HIDE DEF w
<1>7. CallsOf' = CallsOf
  <2> DEFINE g == CallsOf
             h == CallsOf'
  <2>1. g = [t \in Threads |-> g[t]] /\ h = [g EXCEPT ![T] = w] /\ g[T] = w
    BY <1>5, <1>6, CallsAre DEF OwnSet
  <2> HIDE DEF g, h
  <2>2. h = g
    BY <2>1
  <2> QED BY <2>2 DEF g, h
<1> QED BY <1>7 DEF Stutters, InFlight

(***************************************************************************)
(* unroll continues a Lua function.                                        *)
(***************************************************************************)
LEMMA UnrollLuaMap ==
  ASSUME IInv, UnrollLua
  PROVE  Stutters
BY UnrollMap DEF UnrollLua

(***************************************************************************)
(* unroll ends the lua_callk or lua_pcallk of a C function.                *)
(***************************************************************************)
LEMMA UnrollCMap ==
  ASSUME IInv, UnrollC
  PROVE  Stutters
BY UnrollMap DEF UnrollC

(***************************************************************************)
(* The end of a coroutine.                                                 *)
(***************************************************************************)
LEMMA UnrollEndMap ==
  ASSUME IInv, UnrollEnd
  PROVE  Promise!Finish
<1> DEFINE s == << >>
<1>1. /\ mode = "unroll" /\ Len(ci[T]) = 0 /\ BackToResumer(s) /\ status' = status
  BY DEF UnrollEnd, Depth
<1>2. /\ ThreadOK(T, ci[T], jmp[T], nC[T], nny[T], base[T], errf[T], allow[T], "unroll")
      /\ T \in Threads /\ status[T] = "OK"
  BY <1>1, RunningThread
<1>3. T # Main /\ ci[T] = << >>
  BY <1>1, <1>2, EmptyFacts
<1>4. status' = [status EXCEPT ![T] = "OK"]
  BY <1>1, <1>2 DEF IInv, TypeOK
<1>5. s \in Seq(Frames) /\ View(s) = << >>
  BY DEF View
<1>6. CallsOf[T] = << >>
  <2>1. CallsOf[T] = ViewAt(ci[T], mode = "unroll")
    BY OwnCalls
  <2> QED BY <1>3, <2>1 DEF ViewAt
<1>7. Stops(View(s), "OK") /\ ~InFlight'
  <2> HIDE DEF s
  <2> QED BY <1>1, <1>3, <1>4, <1>5, StopMap
<1>8. Stops(<< >>, "OK")
  <2> HIDE DEF s
  <2> QED BY <1>5, <1>7
<1>9. ~InFlight
  BY <1>1 DEF InFlight
<1> HIDE DEF s
<1> QED BY <1>3, <1>6, <1>7, <1>8, <1>9, IsFinish

-----------------------------------------------------------------------------
(***************************************************************************)
(* Every function of a yieldable thread can be suspended: none is in a     *)
(* hook, in the handling of an error, or in a call that a yield could not  *)
(* cross.                                                                  *)
(***************************************************************************)
LEMMA CanYield ==
  ASSUME IInv, Running, Top.fn = "C", Yieldable
  PROVE  /\ T # Main
         /\ \A i \in 1 .. Depth(T) : ~ci[T][i].hook /\ ~ci[T][i].msgh
         /\ \A i \in 1 .. Depth(T) - 1 : ci[T][i].doing \in Promise!Resumable
<1> DEFINE s == ci[T]
           n == Len(ci[T])
<1>1. /\ ThreadTypes(s, jmp[T], nC[T], nny[T], base[T], errf[T], allow[T])
      /\ StackOK(T, s, jmp[T], nC[T], nny[T], base[T], errf[T], allow[T], "run")
      /\ Depth(T) = n /\ n = Len(s) /\ n > 0 /\ n \in Nat
      /\ Top = s[n] /\ ~Top.msgh /\ FrameShape(Top) /\ nny[T] = 0
  BY RunningTop, TopFrame DEF Depth, Yieldable, Frame
<1> HIDE DEF s, n
<1>2. /\ T # Main
      /\ \A i \in 1 .. n - 1 : ~s[i].msgh /\ ~s[i].hook /\ s[i].doing \notin Held
  BY <1>1, Quiet
<1>3. ~s[n].hook /\ ~s[n].msgh
  BY <1>1 DEF FrameShape
<1>4. \A i \in 1 .. n : i \in 1 .. n - 1 \/ i = n
  BY <1>1
<1>5. \A i \in 1 .. n - 1 : s[i].doing \in Pending
  BY <1>1, <1>2 DEF StackOK, Shapes, Waits
<1>6. \A i \in 1 .. n - 1 : s[i].doing \in Promise!Resumable
  BY <1>2, <1>5 DEF Pending, Held, Promise!Resumable
<1> QED BY <1>1, <1>2, <1>3, <1>4, <1>6 DEF s

(***************************************************************************)
(* lua_yieldk suspends the whole logical stack.                            *)
(***************************************************************************)
LEMMA YieldMap ==
  ASSUME IInv, Yield
  PROVE  Promise!Yield
<1>1. PICK k \in BOOLEAN :
        /\ Running /\ Top.fn = "C" /\ Yieldable
        /\ status' = [status EXCEPT ![T] = "YIELD"]
        /\ BackToResumer(Unwound(
             [ci[T] EXCEPT ![Depth(T)].doing = IF k THEN "yieldk" ELSE "yield",
                           ![Depth(T)].k = k]))
  BY DEF Yield
<1> DEFINE d == IF k THEN "yieldk" ELSE "yield"
           g == Top
           f == [g EXCEPT !.doing = d, !.k = k]
           s == ci[T]
           v == View(s)
           q == [ci[T] EXCEPT ![Depth(T)] = f]
           r == Unwound(q)
<1>2. /\ Depth(T) > 0 /\ mode = "run" /\ g \in Frames /\ g = Top
      /\ s \in Seq(Frames) /\ Depth(T) \in DOMAIN s /\ g = s[Depth(T)]
  <2>1. Depth(T) > 0 /\ mode = "run" /\ g \in Frames /\ g = Top
    BY <1>1, RunningTop DEF Running
  <2>2. s \in Seq(Frames) /\ Depth(T) \in 1 .. Len(s) /\ g = s[Depth(T)]
    BY <2>1, RunningThread, TopFrame DEF Top
  <2> HIDE DEF s
  <2> QED BY <2>1, <2>2
<1>3. d \in Doing /\ (d = IF k THEN "yieldk" ELSE "yield")
  BY DEF Doing
<1>4. [ci[T] EXCEPT ![Depth(T)].doing = d, ![Depth(T)].k = k] = q
  <2> HIDE DEF d, g
  <2> QED BY <1>2
<1>5. BackToResumer(r)
  BY <1>1, <1>4
<1> HIDE DEF d, g
<1>6. /\ f \in Frames /\ f.fn = g.fn /\ f.hook = g.hook /\ f.msgh = g.msgh /\ f.doing = d
  BY <1>2, <1>3 DEF Frames
<1> HIDE DEF f
<1>7. /\ q \in Seq(Frames) /\ View(q) = [v EXCEPT ![Len(v)] = LF(f)]
      /\ Len(v) > 0 /\ v \in Seq(LFrames) /\ v[Len(v)] = LF(g)
  BY <1>2, <1>6, TopView
<1>8. LF(f) = [LF(g) EXCEPT !.doing = d]
  BY <1>2, <1>6, DoingView
<1>9. View(q) = BusyWith(v, d)
  <2> HIDE DEF v, q
  <2> QED BY <1>7, <1>8 DEF BusyWith
<1>10. r \in Seq(Frames) /\ View(r) = View(q)
  <2> HIDE DEF q
  <2> QED BY <1>7, UnwoundFields, ViewUnwound
<1>11. /\ T # Main
       /\ \A i \in 1 .. Depth(T) : ~s[i].hook /\ ~s[i].msgh
       /\ \A i \in 1 .. Depth(T) - 1 : s[i].doing \in Promise!Resumable
  BY <1>1, CanYield
<1>12. Stops(View(r), "YIELD") /\ ~InFlight'
  <2> HIDE DEF r
  <2> QED BY <1>1, <1>5, <1>10, <1>11, StopMap
<1>13. /\ CallsOf[T] = v /\ Len(v) = Depth(T) /\ Depth(T) \in Nat
       /\ \A i \in 1 .. Depth(T) : v[i] = LF(s[i]) /\ s[i] \in Frames
  BY <1>2, BusyView
<1> HIDE DEF r, q, v, s
<1>14. Stops(BusyWith(v, d), "YIELD")
  BY <1>9, <1>10, <1>12
<1>15. /\ \A i \in 1 .. Len(v) : ~v[i].hook /\ ~v[i].msgh
       /\ \A i \in 1 .. Len(v) - 1 : v[i].doing \in Promise!Resumable
  <2>1. \A i \in 1 .. Depth(T) : /\ v[i].hook = s[i].hook /\ v[i].msgh = s[i].msgh
                                 /\ v[i].doing = s[i].doing
    BY <1>13, FrameViews
  <2>2. \A i \in 1 .. Len(v) - 1 : i \in 1 .. Depth(T)
    BY <1>13
  <2> QED BY <1>11, <1>13, <2>1, <2>2
<1>16. ~InFlight
  BY <1>2 DEF InFlight
<1> QED BY <1>3, <1>7, <1>11, <1>12, <1>13, <1>14, <1>15, <1>16, IsYield

-----------------------------------------------------------------------------
(***************************************************************************)
(* lua_resume: the function that resumes waits, and the coroutine has the  *)
(* CallInfos s.                                                            *)
(***************************************************************************)
LEMMA StartMap ==
  ASSUME IInv, Running, NEW u \in Coroutines, Idle(u), NEW s \in Seq(Frames),
         NEW w, w = [ci[T] EXCEPT ![Depth(T)].doing = "resume"],
         ci' = [ci EXCEPT ![T] = w, ![u] = s],
         active' = Append(active, u), status' = [status EXCEPT ![u] = "OK"],
         NEW v, v = View(ci[T])
  PROVE  /\ mode' # "unroll" \/ Len(s) = 0 => Starts(v, u, View(s))
         /\ mode' = "unroll" /\ Len(s) > 0 => Starts(v, u, Promise!Back(View(s)))
<1> DEFINE d == mode' = "unroll"
           x == ViewAt(s, d)
           g == Top
           f == [g EXCEPT !.doing = "resume"]
           b == BusyWith(v, "resume")
<1>1. /\ ci \in [Threads -> Seq(Frames)] /\ active \in Seq(Threads) /\ T \in Threads
      /\ u \in Threads /\ u # T /\ Depth(T) > 0 /\ g \in Frames /\ g = ci[T][Depth(T)]
      /\ Len(active) \in Nat
  BY RunningThread, RunningTop, IdleThread DEF IInv, TypeOK, Top
<1>2. /\ w = [ci[T] EXCEPT ![Depth(T)] = f]
      /\ f \in Frames /\ LF(f) = [LF(g) EXCEPT !.doing = "resume"]
  <2>1. w = [ci[T] EXCEPT ![Depth(T)] = f]
    <3>1. ci[T] \in Seq(Frames) /\ Depth(T) \in 1 .. Len(ci[T])
      BY <1>1, TopFrame, RunningThread
    <3> QED BY <1>1, <3>1
  <2> HIDE DEF g
  <2>2. /\ f \in Frames /\ f.fn = g.fn /\ f.hook = g.hook /\ f.msgh = g.msgh
        /\ f.doing = "resume"
    BY <1>1 DEF Frames, Doing
  <2> HIDE DEF f
  <2>3. LF(f) = [LF(g) EXCEPT !.doing = "resume"]
    BY <2>2 DEF LF
  <2> QED BY <2>1, <2>2, <2>3
<1>3. w \in Seq(Frames) /\ View(w) = b
  <2> HIDE DEF f
  <2>1. /\ w \in Seq(Frames) /\ View(w) = [v EXCEPT ![Len(v)] = LF(f)]
        /\ Len(v) > 0 /\ v[Len(v)] = LF(Top)
    BY <1>1, <1>2, TopView
  <2> QED BY <1>2, <2>1 DEF BusyWith
<1> HIDE DEF f, g
<1>4. T' = u
  <2>1. Len(active') = Len(active) + 1 /\ active'[Len(active) + 1] = u
    BY <1>1, AppendProperties
  <2> QED BY <2>1 DEF T
<1>5. ci'[T] = w /\ ci'[u] = s /\ \A t \in Threads : t # T /\ t # u => ci'[t] = ci[t]
  BY <1>1
<1>6. CallsOf'[u] = x
  BY <1>1, <1>4, <1>5, CallsAre, LogicalIsView
<1>7. ASSUME NEW t \in Threads, t # u PROVE CallsOf'[t] = View(ci'[t])
  <2>1. ci'[t] \in Seq(Frames)
    BY <1>1, <1>3, <1>5, <1>7
  <2>2. CallsOf'[t] = ViewAt(ci'[t], FALSE)
    BY <1>4, <1>7, CallsAre, LogicalIsView
  <2> QED BY <2>1, <2>2, ViewCases
<1> HIDE DEF x
<1>8. CallsOf' = [CallsOf EXCEPT ![T] = b, ![u] = x]
  <2> DEFINE h == CallsOf
             k == CallsOf'
  <2>1. h = [t \in Threads |-> h[t]] /\ k = [t \in Threads |-> k[t]]
    BY CallsAre
  <2>2. k[T] = b /\ k[u] = x
    BY <1>1, <1>3, <1>5, <1>6, <1>7
  <2>3. \A t \in Threads : t # T /\ t # u => k[t] = h[t]
    <3> SUFFICES ASSUME NEW t \in Threads, t # T, t # u PROVE k[t] = h[t]
      OBVIOUS
    <3>1. CallsOf[t] = View(ci[t])
      BY OwnCalls
    <3>2. CallsOf'[t] = View(ci[t])
      BY <1>5, <1>7
    <3> QED BY <3>1, <3>2
  <2> HIDE DEF h, k, b
  <2>4. TwoSet(h, k, T, b, u, x)
    BY <1>1, <2>1, <2>2, <2>3, TwoChanges
  <2> QED BY <2>4 DEF TwoSet, h, k
<1>9. Starts(v, u, x)
  BY <1>8 DEF Starts
<1>10. d \in BOOLEAN /\ (d <=> mode' = "unroll")
  OBVIOUS
<1>11. /\ ~d \/ Len(s) = 0 => x = View(s)
       /\ d /\ Len(s) > 0 => x = Promise!Back(View(s))
  <2> HIDE DEF d
  <2> QED BY <1>10, ViewCases DEF x
<1> HIDE DEF d
<1> QED BY <1>9, <1>10, <1>11

(***************************************************************************)
(* A coroutine that has not started, or fails at once.                     *)
(***************************************************************************)
LEMMA ResumeNewMap ==
  ASSUME IInv, ResumeNew
  PROVE  Promise!Resume
<1>1. PICK u \in Coroutines, fn \in Functions, compat \in {FALSE, CompatResumes} :
        /\ Running /\ Idle(u) /\ status[u] = "OK" /\ StartCount(u, compat)
        /\ LET room == From(compat) + 1 < MaxCcalls
           IN  /\ ci' = [ci EXCEPT ![T][Depth(T)].doing = "resume",
                          ![u] = IF room THEN << NewFrame(fn, TRUE) >> ELSE << >>]
               /\ mode' = IF room THEN "run" ELSE "raise"
        /\ status' = status
  BY DEF ResumeNew
<1> DEFINE w == [ci[T] EXCEPT ![Depth(T)].doing = "resume"]
           g == NewFrame(fn, TRUE)
           o == << >>
           p == << g >>
           v == View(ci[T])
<1>2. /\ mode = "run" /\ Depth(T) > 0 /\ ~InFlight
  BY <1>1 DEF Running, InFlight
<1>3. CallsOf[T] = v /\ Len(v) > 0
  BY <1>2, BusyView
<1>4. /\ u \in Threads \ {Main} /\ active' = Append(active, u)
      /\ status' = [status EXCEPT ![u] = "OK"]
  BY <1>1, ThreadAssumption DEF StartCount, IInv, TypeOK, Threads
<1>5. \/ ci' = [ci EXCEPT ![T] = w, ![u] = p] /\ mode' = "run"
      \/ ci' = [ci EXCEPT ![T] = w, ![u] = o] /\ mode' = "raise"
  BY <1>1
<1>6. w = [ci[T] EXCEPT ![Depth(T)].doing = "resume"] /\ v = View(ci[T])
  OBVIOUS
<1>7. o \in Seq(Frames) /\ View(o) = << >>
  BY DEF View
<1>8. /\ p \in Seq(Frames) /\ View(p) = << Promise!New(fn) >>
      /\ View(p) \in {<< Promise!New("C") >>, << Promise!New("Lua") >>} /\ View(p) # << >>
  <2>1. g \in Frames /\ LF(g) = Promise!New(fn)
    BY NewView
  <2> HIDE DEF g
  <2>2. p \in Seq(Frames) /\ Len(p) = 1 /\ p[1] = g
    BY <2>1, OneFrame
  <2>3. View(p) = [i \in 1 .. 1 |-> LF(p[i])]
    BY <2>2 DEF View
  <2>4. View(p) = << LF(g) >>
    <3>1. \A i \in 1 .. 1 : LF(p[i]) = LF(g)
      BY <2>2
    <3> HIDE DEF p
    <3> QED BY <2>3, <3>1
  <2> HIDE DEF p
  <2> QED BY <2>1, <2>2, <2>4 DEF Functions
<1> HIDE DEF w, g, o, p, v
<1>9. CASE ci' = [ci EXCEPT ![T] = w, ![u] = p] /\ mode' = "run"
  <2>1. Starts(v, u, View(p))
    BY <1>1, <1>4, <1>6, <1>8, <1>9, StartMap
  <2>2. ~InFlight' /\ (InFlight' <=> View(p) = << >>)
    BY <1>8, <1>9 DEF InFlight
  <2>3. View(p) \in {<< >>, << Promise!New("C") >>, << Promise!New("Lua") >>}
    BY <1>8
  <2> QED BY <1>1, <1>2, <1>3, <1>4, <2>1, <2>2, <2>3, IsResume
<1>10. CASE ci' = [ci EXCEPT ![T] = w, ![u] = o] /\ mode' = "raise"
  <2>1. Starts(v, u, View(o))
    BY <1>1, <1>4, <1>6, <1>7, <1>10, StartMap
  <2>2. InFlight' /\ (InFlight' <=> View(o) = << >>)
    BY <1>7, <1>10 DEF InFlight
  <2>3. View(o) \in {<< >>, << Promise!New("C") >>, << Promise!New("Lua") >>}
    BY <1>7
  <2> QED BY <1>1, <1>2, <1>3, <1>4, <2>1, <2>2, <2>3, IsResume
<1> QED BY <1>5, <1>9, <1>10

(***************************************************************************)
(* Where a suspended coroutine goes on.                                    *)
(***************************************************************************)
LEMMA ResumedView ==
  ASSUME IInv, NEW u \in Coroutines, Idle(u), status[u] = "YIELD", NEW s, s = ci[u]
  PROVE  /\ s \in Seq(Frames) /\ Len(s) > 0 /\ Depth(u) = Len(s) /\ s[Len(s)] \in Frames
         /\ s[Len(s)].k => Promise!Resumed(u) = Promise!Back(View(s))
         /\ ~s[Len(s)].k => Promise!Resumed(u) = Promise!Back(View(Front(s)))
         /\ Front(s) \in Seq(Frames)
<1> DEFINE n == Len(s)
           m == Len(s) - 1
           v == View(s)
<1>1. /\ u \in Threads /\ u # T
      /\ ThreadOK(u, s, jmp[u], nC[u], nny[u], base[u], errf[u], allow[u], "yield")
  BY IdleThread
<1>2. /\ s \in Seq(Frames) /\ n > 0 /\ Shapes(s, "yield")
      /\ Frame(s).doing \in {"yield", "yieldk"}
  BY <1>1 DEF ThreadOK, ThreadTypes, StackOK, TopOK
<1>3. n \in Nat /\ n \in 1 .. n /\ m \in 0 .. n /\ s[n] \in Frames
  BY <1>2, LenProperties, ElementOfSeq
<1>4. s[n].doing = "yieldk" <=> s[n].k
  <2>1. FrameShape(s[n])
    BY <1>2, <1>3 DEF Shapes
  <2> QED BY <1>2, <2>1 DEF FrameShape, Frame
<1>5. CallsOf[u] = v
  BY <1>1, OwnCalls
<1>6. v \in Seq(LFrames) /\ Len(v) = n /\ v[n].doing = s[n].doing
  <2>1. v \in Seq(LFrames) /\ Len(v) = n /\ v[n] = LF(s[n])
    BY <1>2, <1>3, ViewTypes
  <2> QED BY <1>3, <2>1, FrameViews
<1>7. Front(s) = SubSeq(s, 1, m)
  BY DEF Front
<1> HIDE DEF v, m
<1>8. Front(s) \in Seq(Frames) /\ View(Front(s)) = SubSeq(v, 1, m)
  BY <1>2, <1>3, <1>7, CutIsPrefix, ViewCut DEF v
<1>9. Promise!Depth(u) = n
  BY <1>5, <1>6 DEF Promise!Depth, CallsOf
<1>10. Promise!Cut(u, Promise!Depth(u) - 1) = SubSeq(v, 1, m)
  BY <1>5, <1>9 DEF Promise!Cut, CallsOf, m
<1>11. Promise!Resumed(u) = IF v[n].doing = "yieldk" THEN Promise!Back(v)
                            ELSE Promise!Back(SubSeq(v, 1, m))
  <2>1. Promise!Resumed(u) =
          IF CallsOf[u][Promise!Depth(u)].doing = "yieldk" THEN Promise!Back(CallsOf[u])
          ELSE Promise!Back(Promise!Cut(u, Promise!Depth(u) - 1))
    BY DEF Promise!Resumed, CallsOf
  <2> QED BY <1>5, <1>9, <1>10, <2>1
<1>12. Depth(u) = n
  BY DEF Depth
<1> QED BY <1>2, <1>3, <1>4, <1>6, <1>8, <1>11, <1>12 DEF v

(***************************************************************************)
(* A suspended coroutine goes on exactly where it was.                     *)
(***************************************************************************)
LEMMA ResumeSuspendedMap ==
  ASSUME IInv, ResumeSuspended
  PROVE  Promise!Resume
<1>1. PICK u \in Coroutines, compat \in {FALSE, CompatResumes} :
        /\ Running /\ Idle(u) /\ status[u] = "YIELD" /\ StartCount(u, compat)
        /\ status' = [status EXCEPT ![u] = "OK"]
        /\ IF ci[u][Depth(u)].k
           THEN /\ ci' = [ci EXCEPT ![T][Depth(T)].doing = "resume",
                                    ![u][Depth(u)] = Back(@)]
                /\ mode' = "run"
           ELSE /\ ci' = [ci EXCEPT ![T][Depth(T)].doing = "resume",
                                    ![u] = Front(@)]
                /\ mode' = "unroll"
  BY DEF ResumeSuspended
<1> DEFINE s == ci[u]
           w == [ci[T] EXCEPT ![Depth(T)].doing = "resume"]
           o == Front(s)
           p == [s EXCEPT ![Len(s)] = Back(s[Len(s)])]
           v == View(ci[T])
           z == Promise!Resumed(u)
<1>2. /\ mode = "run" /\ Depth(T) > 0 /\ ~InFlight
  BY <1>1 DEF Running, InFlight
<1>3. CallsOf[T] = v /\ Len(v) > 0
  BY <1>2, BusyView
<1>4. /\ u \in Threads \ {Main} /\ active' = Append(active, u)
  BY <1>1, ThreadAssumption DEF StartCount, Threads
<1>5. /\ s \in Seq(Frames) /\ Len(s) > 0 /\ Depth(u) = Len(s) /\ s[Len(s)] \in Frames
      /\ s[Len(s)].k => z = Promise!Back(View(s))
      /\ ~s[Len(s)].k => z = Promise!Back(View(o))
      /\ o \in Seq(Frames)
  BY <1>1, ResumedView
<1>6. \/ s[Len(s)].k /\ ci' = [ci EXCEPT ![T] = w, ![u] = p] /\ mode' = "run"
      \/ ~s[Len(s)].k /\ ci' = [ci EXCEPT ![T] = w, ![u] = o] /\ mode' = "unroll"
  <2>1. ci \in [Threads -> Seq(Frames)] /\ T \in Threads /\ u \in Threads /\ T # u
    BY <1>1, IdleThread, RunningThread DEF IInv, TypeOK
  <2>2. CASE s[Len(s)].k
    <3>1. ci' = [ci EXCEPT ![T][Depth(T)].doing = "resume", ![u][Depth(u)] = Back(@)]
          /\ mode' = "run"
      BY <1>1, <1>5, <2>2
    <3> QED BY <1>5, <2>1, <2>2, <3>1
  <2>3. CASE ~s[Len(s)].k
    <3>1. ci' = [ci EXCEPT ![T][Depth(T)].doing = "resume", ![u] = Front(@)]
          /\ mode' = "unroll"
      BY <1>1, <1>5, <2>3
    <3> QED BY <2>1, <2>3, <3>1
  <2> QED BY <2>2, <2>3
<1>7. w = [ci[T] EXCEPT ![Depth(T)].doing = "resume"] /\ v = View(ci[T])
  OBVIOUS
<1>8. View(p) = Promise!Back(View(s)) /\ p \in Seq(Frames)
  <2>1. Back(s[Len(s)]) \in Frames
    BY <1>5, BackFields
  <2> HIDE DEF s
  <2> QED BY <1>5, <2>1, ViewBack, ViewTop
<1>9. Len(o) = 0 => Promise!Back(View(o)) = View(o)
  <2> HIDE DEF o
  <2>1. Len(o) = 0 => View(o) = << >>
    BY <1>5, ViewTypes, EmptySeq
  <2> QED BY <2>1 DEF Promise!Back
<1>10. Len(o) \in Nat
  BY <1>5, LenProperties
<1> HIDE DEF w, o, p, v, z, s
<1>11. Starts(v, u, z) /\ ~InFlight'
  <2>1. CASE s[Len(s)].k /\ ci' = [ci EXCEPT ![T] = w, ![u] = p] /\ mode' = "run"
    <3>1. Starts(v, u, View(p))
      BY <1>1, <1>4, <1>7, <1>8, <2>1, StartMap
    <3> QED BY <1>5, <1>8, <2>1, <3>1 DEF InFlight
  <2>2. CASE ~s[Len(s)].k /\ ci' = [ci EXCEPT ![T] = w, ![u] = o] /\ mode' = "unroll"
    <3>1. /\ Len(o) = 0 => Starts(v, u, View(o))
          /\ Len(o) > 0 => Starts(v, u, Promise!Back(View(o)))
      BY <1>1, <1>4, <1>5, <1>7, <2>2, StartMap
    <3>2. Starts(v, u, Promise!Back(View(o)))
      <4>1. CASE Len(o) = 0
        BY <1>9, <3>1, <4>1
      <4>2. CASE Len(o) > 0
        BY <3>1, <4>2
      <4> QED BY <1>10, <4>1, <4>2
    <3> QED BY <1>5, <2>2, <3>2 DEF InFlight
  <2> QED BY <1>6, <2>1, <2>2
<1> QED BY <1>1, <1>2, <1>3, <1>4, <1>11, IsResume DEF z

(***************************************************************************)
(* lua_closethread forgets what the coroutine was doing.                   *)
(***************************************************************************)
LEMMA CloseThreadMap ==
  ASSUME IInv, CloseThread
  PROVE  Promise!Close
<1> DEFINE v == View(ci[T])
           o == << >>
<1>1. PICK u \in Closable :
        /\ Running /\ Idle(u) /\ mode' = mode /\ ci' = [ci EXCEPT ![u] = o]
        /\ status' = [status EXCEPT ![u] = "OK"] /\ active' = active
  BY DEF CloseThread
<1>2. /\ u \in Threads \ {Main} /\ u # T /\ ci \in [Threads -> Seq(Frames)] /\ T' = T
  BY <1>1, ThreadAssumption, IdleThread DEF IInv, TypeOK, T
<1>3. /\ mode = "run" /\ Depth(T) > 0 /\ ~InFlight /\ ~InFlight' /\ mode' = "run"
  BY <1>1 DEF Running, InFlight
<1>4. CallsOf[T] = v /\ Len(v) > 0
  BY <1>3, BusyView
<1>5. o \in Seq(Frames) /\ View(o) = << >>
  BY DEF View
<1> HIDE DEF v, o
<1>6. ci'[u] = o /\ \A t \in Threads : t # u => ci'[t] = ci[t]
  BY <1>1, <1>2
<1>7. ASSUME NEW t \in Threads
      PROVE  CallsOf'[t] = View(ci'[t]) /\ CallsOf[t] = View(ci[t])
  <2>1. ci'[t] \in Seq(Frames) /\ ci[t] \in Seq(Frames)
    BY <1>2, <1>5, <1>6
  <2>2. CallsOf'[t] = ViewAt(ci'[t], FALSE) /\ CallsOf[t] = ViewAt(ci[t], FALSE)
    BY <1>3, CallsAre, LogicalIsView
  <2> QED BY <2>1, <2>2, ViewCases
<1>8. CallsOf' = [CallsOf EXCEPT ![u] = << >>]
  <2> DEFINE h == CallsOf
             k == CallsOf'
  <2>1. h = [t \in Threads |-> h[t]] /\ k = [t \in Threads |-> k[t]]
    BY CallsAre
  <2>2. \A t \in Threads : k[t] = IF t = u THEN << >> ELSE h[t]
    BY <1>2, <1>5, <1>6, <1>7
  <2> HIDE DEF h, k
  <2>3. k = [h EXCEPT ![u] = << >>]
    BY <2>1, <2>2
  <2> QED BY <2>3 DEF h, k
<1> QED BY <1>1, <1>2, <1>3, <1>4, <1>8, IsClose

-----------------------------------------------------------------------------
(***************************************************************************)
(* A hook that starts or ends.                                             *)
(***************************************************************************)
LEMMA HookMap ==
  ASSUME IInv, Running, NEW f \in Frames, f.fn = Top.fn, f.msgh = Top.msgh,
         f.doing = Top.doing, NEW h \in BOOLEAN, f.hook = h,
         IF h THEN NoHook(ci[T], Depth(T)) ELSE Top.hook,
         ci' = SetTop(f), active' = active, status' = status, mode' = mode
  PROVE  Promise!StartHook \/ Promise!EndHook
<1> DEFINE s == ci[T]
           v == View(s)
           r == [ci[T] EXCEPT ![Depth(T)] = f]
<1>1. Depth(T) > 0 /\ mode = "run" /\ T \in Threads /\ Top \in Frames
  BY RunningTop, RunningThread DEF Running
<1>2. /\ r \in Seq(Frames) /\ ci' = [ci EXCEPT ![T] = r]
      /\ View(r) = [v EXCEPT ![Len(v)] = LF(f)]
      /\ Len(v) > 0 /\ v \in Seq(LFrames) /\ v[Len(v)] = LF(Top)
  BY <1>1, TopView
<1>3. LF(f) = [LF(Top) EXCEPT !.hook = h]
  BY <1>1, HookView
<1>4. OwnSet(View(r))
  <2> HIDE DEF r
  <2> QED BY <1>1, <1>2, OwnView
<1>5. OwnSet([v EXCEPT ![Len(v)].hook = h])
  <2> HIDE DEF v, r
  <2>1. View(r) = [v EXCEPT ![Len(v)].hook = h]
    BY <1>2, <1>3
  <2> QED BY <1>4, <2>1
<1>6. /\ CallsOf[T] = v /\ Len(v) = Depth(T) /\ Depth(T) \in Nat
      /\ \A i \in 1 .. Depth(T) : v[i] = LF(s[i]) /\ s[i] \in Frames
  BY <1>1, BusyView
<1> HIDE DEF v, r, s
<1>7. IF h THEN \A i \in 1 .. Len(v) : ~v[i].hook ELSE v[Len(v)].hook
  <2>1. \A i \in 1 .. Depth(T) : v[i].hook = s[i].hook
    <3>1. \A i \in 1 .. Depth(T) : LF(s[i]).hook = s[i].hook
      BY <1>6, FrameViews
    <3> QED BY <1>6, <3>1
  <2>2. CASE h
    BY <1>6, <2>1, <2>2 DEF NoHook, s
  <2>3. CASE ~h
    <3>1. LF(Top).hook = Top.hook
      BY <1>1, FrameViews
    <3> QED BY <1>2, <2>3, <3>1
  <2> QED BY <2>2, <2>3
<1>8. ~InFlight /\ ~InFlight'
  BY <1>1 DEF InFlight
<1> QED BY <1>1, <1>2, <1>5, <1>6, <1>7, <1>8, IsHook

(***************************************************************************)
(* luaD_hook calls the hook; no other hook runs in the thread, since       *)
(* allowhook was set.                                                      *)
(***************************************************************************)
LEMMA StartHookMap ==
  ASSUME IInv, StartHook
  PROVE  Promise!StartHook \/ Promise!EndHook
<1> DEFINE g == Top
           f == [g EXCEPT !.hook = TRUE]
<1>1. /\ Running /\ allow[T] /\ ci' = SetTop(f)
      /\ active' = active /\ status' = status /\ mode' = mode
  BY DEF StartHook
<1>2. /\ g \in Frames /\ g = Top
      /\ StackOK(T, ci[T], jmp[T], nC[T], nny[T], base[T], errf[T], allow[T], "run")
  BY <1>1, RunningTop
<1>3. NoHook(ci[T], Depth(T))
  <2>1. InForce(T, ci[T], errf[T], allow[T], "run")
    BY <1>2 DEF StackOK
  <2> QED BY <1>1, <2>1 DEF InForce, Settled, HookIs, Depth
<1>4. ci' = SetTop(f)
  BY <1>1
<1> HIDE DEF g
<1>5. /\ f \in Frames /\ f.fn = g.fn /\ f.msgh = g.msgh /\ f.doing = g.doing
      /\ f.hook = TRUE
  BY <1>2 DEF Frames
<1> HIDE DEF f
<1> QED BY <1>1, <1>2, <1>3, <1>4, <1>5, HookMap

(***************************************************************************)
(* luaD_hook ends.                                                         *)
(***************************************************************************)
LEMMA EndHookMap ==
  ASSUME IInv, EndHook
  PROVE  Promise!StartHook \/ Promise!EndHook
<1> DEFINE g == Top
           f == [g EXCEPT !.hook = FALSE]
<1>1. /\ Running /\ g.hook /\ ci' = SetTop(f)
      /\ active' = active /\ status' = status /\ mode' = mode
  BY DEF EndHook
<1>2. g \in Frames /\ g = Top
  BY <1>1, RunningTop
<1>3. ci' = SetTop(f)
  BY <1>1
<1> HIDE DEF g
<1>4. /\ f \in Frames /\ f.fn = g.fn /\ f.msgh = g.msgh /\ f.doing = g.doing
      /\ f.hook = FALSE
  BY <1>2 DEF Frames
<1> HIDE DEF f
<1> QED BY <1>1, <1>2, <1>3, <1>4, HookMap

-----------------------------------------------------------------------------
(***************************************************************************)
(* What Coroutines sees does not change when the C code is in the middle   *)
(* of an error or of a resume.                                             *)
(***************************************************************************)
LEMMA StutterMap ==
  ASSUME Stutters
  PROVE  UNCHANGED Promise!vars
<1>1. /\ [t \in Threads |-> Logical(t)]' = [t \in Threads |-> Logical(t)]
      /\ active' = active /\ status' = status
  BY DEF Stutters, CallsOf
<1>2. (mode \in {"raise", "throw", "caught"})' <=> (mode \in {"raise", "throw", "caught"})
  BY DEF Stutters, InFlight
<1>3. (mode \in {"raise", "throw", "caught"})' = (mode \in {"raise", "throw", "caught"})
  BY <1>2
<1> QED BY <1>1, <1>3 DEF Promise!vars

(***************************************************************************)
(* In the beginning the main thread runs the host program's function.      *)
(***************************************************************************)
LEMMA InitMap ==
  Init => Promise!Init
<1> SUFFICES ASSUME Init PROVE Promise!Init
  OBVIOUS
<1>1. /\ active = << Main >> /\ mode = "run" /\ status = [t \in Threads |-> "OK"]
      /\ ci = [t \in Threads |-> IF t = Main THEN << NewFrame("C", FALSE) >> ELSE << >>]
  BY DEF Init
<1>2. ASSUME NEW t \in Threads
      PROVE  Logical(t) = IF t = Main THEN << Promise!New("C") >> ELSE << >>
  <2>1. Logical(t) = ViewAt(ci[t], FALSE)
    BY <1>1, LogicalIsView
  <2>2. CASE t = Main
    <3> DEFINE f == NewFrame("C", FALSE)
               s == << f >>
    <3>1. f \in Frames /\ LF(f) = Promise!New("C")
      BY NewView DEF Functions
    <3>2. ci[t] = s
      BY <1>1, <2>2
    <3> HIDE DEF f
    <3>3. s \in Seq(Frames) /\ Len(s) = 1 /\ s[1] = f
      BY <3>1, OneFrame
    <3>4. View(s) = << LF(f) >>
      <4>1. View(s) = [i \in 1 .. 1 |-> LF(s[i])]
        BY <3>3 DEF View
      <4>2. \A i \in 1 .. 1 : LF(s[i]) = LF(f)
        BY <3>3
      <4> HIDE DEF s
      <4> QED BY <4>1, <4>2
    <3> HIDE DEF s
    <3>5. ViewAt(s, FALSE) = View(s)
      BY <3>3, ViewCases
    <3> QED BY <2>1, <2>2, <3>1, <3>2, <3>4, <3>5
  <2>3. CASE t # Main
    <3>1. ci[t] = << >>
      BY <1>1, <2>3
    <3> QED BY <2>1, <2>3, <3>1 DEF ViewAt
  <2> QED BY <2>2, <2>3
<1>3. [t \in Threads |-> Logical(t)] =
        [t \in Threads |-> IF t = Main THEN << Promise!New("C") >> ELSE << >>]
  BY <1>2
<1>4. (mode \in {"raise", "throw", "caught"}) = FALSE
  BY <1>1
<1> QED BY <1>1, <1>3, <1>4 DEF Promise!Init

(***************************************************************************)
(* Every step of ldo.c is a step of Coroutines or none.                    *)
(***************************************************************************)
LEMMA NextMap ==
  IInv /\ [Next]_vars => [Promise!Next]_(Promise!vars)
<1> SUFFICES ASSUME IInv, [Next]_vars PROVE Promise!Next \/ UNCHANGED Promise!vars
  OBVIOUS
<1>1. CASE LuaCall \/ CallK \/ PCallK
  <2>1. Promise!Call \/ Promise!Raise
    BY <1>1, LuaCallMap, CallKMap, PCallKMap
  <2> QED BY <2>1 DEF Promise!Next
<1>2. CASE Return \/ ReturnFromHandler \/ ReturnToUnroll
  <2>1. Promise!Return
    BY <1>2, ReturnMap, ReturnFromHandlerMap, ReturnToUnrollMap
  <2> QED BY <2>1 DEF Promise!Next
<1>3. CASE Raise
  <2>1. Promise!Raise
    BY <1>3, RaiseMap
  <2> QED BY <2>1 DEF Promise!Next
<1>4. CASE ErrorMsg
  <2>1. Promise!CallHandler \/ Stutters
    BY <1>4, ErrorMsgMap
  <2> QED BY <2>1, StutterMap DEF Promise!Next
<1>5. CASE ThrowToPCall \/ Precover
  <2>1. Promise!Catch
    BY <1>5, ThrowToPCallMap, PrecoverMap
  <2> QED BY <2>1 DEF Promise!Next
<1>6. CASE ThrowToResume \/ UnrollLua \/ UnrollC
  <2>1. Stutters
    BY <1>6, ThrowToResumeMap, UnrollLuaMap, UnrollCMap
  <2> QED BY <2>1, StutterMap
<1>7. CASE Die
  <2>1. Promise!Die
    BY <1>7, DieMap
  <2> QED BY <2>1 DEF Promise!Next
<1>8. CASE Yield
  <2>1. Promise!Yield
    BY <1>8, YieldMap
  <2> QED BY <2>1 DEF Promise!Next
<1>9. CASE UnrollEnd
  <2>1. Promise!Finish
    BY <1>9, UnrollEndMap
  <2> QED BY <2>1 DEF Promise!Next
<1>10. CASE ResumeNew \/ ResumeSuspended
  <2>1. Promise!Resume
    BY <1>10, ResumeNewMap, ResumeSuspendedMap
  <2> QED BY <2>1 DEF Promise!Next
<1>11. CASE CloseThread
  <2>1. Promise!Close
    BY <1>11, CloseThreadMap
  <2> QED BY <2>1 DEF Promise!Next
<1>12. CASE StartHook \/ EndHook
  <2>1. Promise!StartHook \/ Promise!EndHook
    BY <1>12, StartHookMap, EndHookMap
  <2> QED BY <2>1 DEF Promise!Next
<1>13. CASE UNCHANGED vars
  <2>1. Stutters
    <3>1. /\ active' = active /\ ci' = ci /\ status' = status /\ mode' = mode
      BY <1>13 DEF vars
    <3>2. \A t \in Threads : Logical(t)' = Logical(t)
      BY <3>1 DEF Logical, Depth, T
    <3>3. CallsOf' = CallsOf
      BY <3>2 DEF CallsOf
    <3> QED BY <3>1, <3>3 DEF Stutters, InFlight
  <2> QED BY <2>1, StutterMap
<1> QED BY <1>1, <1>2, <1>3, <1>4, <1>5, <1>6, <1>7, <1>8, <1>9, <1>10, <1>11, <1>12,
           <1>13 DEF Next

(***************************************************************************)
(* The machinery of ldo.c implements Coroutines: whatever longjmp does to  *)
(* the C stack, an error reaches the innermost pending protected call of   *)
(* its thread, or kills the thread, and a resume goes on exactly where the *)
(* yield was.                                                              *)
(***************************************************************************)
THEOREM CallsKeepPromise == Spec => KeepsPromise
<1>1. Init => Promise!Init
  BY InitMap
<1>2. IInv /\ [Next]_vars => [Promise!Next]_(Promise!vars)
  BY NextMap
<1>3. Spec => []IInv
  BY Invariance
<1> QED BY <1>1, <1>2, <1>3, PTL DEF Spec, KeepsPromise, Promise!Spec
=============================================================================
