------------------------ MODULE SessionManagerProofs ------------------------
(***************************************************************************)
(* The older engine's sessions are in one place each, and are found under  *)
(* their own ids, for any number of sessions, threads, connections and     *)
(* messages.  A thread's remaining steps are a sequence; a step replaces   *)
(* the first by the steps it calls for.  Only four operations move a       *)
(* session from one place to another; for all others it is enough that     *)
(* they call for no step that holds a session.                             *)
(*                                                                         *)
(* The second half is about what is sent: in order, one call at a time, to *)
(* the end or until the socket is closed.  Its invariant follows the one   *)
(* call, packet or step that a session with sending_ set has to show for   *)
(* it, and says which steps come before which in a thread.                 *)
(***************************************************************************)
EXTENDS SessionManager, FiniteSetTheorems, SequenceTheorems, TLAPS

\* Sequences whatever their elements.
IsSeq(q) == \E S : q \in Seq(S)

\* Of the steps of q, one holds session s; none does.
Once(q, s)  == \E i \in 1..Len(q) : \A j \in 1..Len(q) : Holds(q[j], s) <=> j = i
Never(q, s) == \A j \in 1..Len(q) : ~Holds(q[j], s)

\* s is once among the first n elements of q.
OnceAt(q, n, s) == \E i \in 1..n : \A j \in 1..n : q[j] = s <=> j = i

Listed(s)   == OnceAt(freeList, Len(freeList), s)
Unlisted(s) == \A i \in 1..Len(freeList) : freeList[i] # s
Mapped(s)   == \E i \in Ids : \A j \in Ids : sessions[j] = s <=> j = i
Unmapped(s) == \A i \in Ids : sessions[i] # s
Held(s)     == \E t \in Threads : Once(todo[t], s) /\ \A u \in Threads \ {t} : Never(todo[u], s)
Unheld(s)   == \A t \in Threads : Never(todo[t], s)

Free(s)    == Listed(s) /\ Unmapped(s) /\ Unheld(s)
InUse(s)   == Unlisted(s) /\ Mapped(s) /\ Unheld(s)
InHands(s) == Unlisted(s) /\ Unmapped(s) /\ Held(s)

PlacesInv == \A s \in Sessions : Free(s) \/ InUse(s) \/ InHands(s)

\* What the steps that are left are about; a create is a thread's next step.
StepOK(ids, i, step) ==
  /\ step[1] \in {"register", "associate"} => step[2] \in Sessions /\ ids[step[2]] # None
  /\ step[1] = "release" => step[2] \in Sessions
  /\ step[1] = "destroy" => step[2] \in Ids
  /\ step[1] = "create" => i = 1
TodoType == todo = [t \in Threads |-> todo[t]] /\ \A t \in Threads : IsSeq(todo[t])
StepsInv == \A t \in Threads : \A i \in 1..Len(todo[t]) : StepOK(sid, i, todo[t][i])

\* Ids are new, so no two sessions have one.
IdsInv ==
  /\ \A s \in Sessions : sid[s] < idGen
  /\ \A r, s \in Sessions : sid[r] = sid[s] /\ sid[s] # None => r = s
  /\ \A i \in Ids : sessions[i] # None => sid[sessions[i]] = i

\* Each connection is created for once, so the ids last.
Creating == {t \in Threads : At(t, "create")}
EnoughIds == IsFiniteSet(Creating) /\ Cardinality(Creating) + idGen <= conns + 1

Types ==
  /\ freeList \in Seq(Sessions) /\ freeSet = {s \in Sessions : ~Unlisted(s)}
  /\ sid \in [Sessions -> Ids \cup {None}] /\ idGen \in Nat \ {0}
  /\ sessions \in [Ids -> Sessions \cup {None}]
  /\ conns \in 0..MaxConns
  /\ created \in Nat /\ destroyed \in Nat

Balance == created - destroyed = Cardinality(Active)

ManagerInv == Types /\ TodoType /\ StepsInv /\ IdsInv /\ EnoughIds /\ PlacesInv /\ Balance

-----------------------------------------------------------------------------
(* Sequences of steps.                                                     *)

\* q's first step, if it has one, is replaced by steps.
Follows(r, q, steps) == r = IF q = <<>> THEN steps ELSE steps \o Tail(q)

LEMMA SeqLarger == \A S, T, q : S \subseteq T /\ q \in Seq(S) => q \in Seq(T)
<1> SUFFICES ASSUME NEW S, NEW T, NEW q, S \subseteq T, q \in Seq(S) PROVE q \in Seq(T)
  OBVIOUS
<1>1. Len(q) \in Nat /\ q \in [1..Len(q) -> S]
  OBVIOUS
<1>2. q \in [1..Len(q) -> T]
  BY <1>1
<1>3. QED
  BY <1>1, <1>2

LEMMA SeqLen == \A q : IsSeq(q) => Len(q) \in Nat /\ DOMAIN q = 1..Len(q) /\ (q = <<>> <=> Len(q) = 0)
BY DEF IsSeq

LEMMA FollowsIs ==
  ASSUME NEW q, NEW r, NEW steps, IsSeq(q), IsSeq(steps), Follows(r, q, steps)
  PROVE  LET rest == IF q = <<>> THEN 0 ELSE Len(q) - 1
             n == Len(steps)
         IN  /\ IsSeq(r) /\ n \in Nat /\ rest \in Nat /\ Len(q) \in Nat /\ Len(r) = n + rest
             /\ \A i \in 1..n : r[i] = steps[i]
             /\ \A i \in 1..rest : r[n + i] = q[i + 1]
             /\ q # <<>> => Len(q) = rest + 1 /\ Head(q) = q[1]
             /\ q = <<>> => Len(q) = 0
<1>1. PICK S1 : q \in Seq(S1)
  BY DEF IsSeq
<1>2. PICK S2 : steps \in Seq(S2)
  BY DEF IsSeq
<1> DEFINE S == S1 \cup S2
<1>3. q \in Seq(S) /\ steps \in Seq(S)
  <2>1. S1 \subseteq S /\ S2 \subseteq S
    OBVIOUS
  <2>2. QED
    BY <1>1, <1>2, <2>1, SeqLarger
<1> HIDE DEF S
<1>4. CASE q = <<>>
  BY <1>3, <1>4 DEF Follows, IsSeq
<1>5. CASE q # <<>>
  <2>1. /\ Tail(q) \in Seq(S) /\ Len(q) \in Nat /\ Len(q) > 0 /\ Len(Tail(q)) = Len(q) - 1
        /\ \A i \in 1..(Len(q) - 1) : Tail(q)[i] = q[i + 1]
        /\ Head(q) = q[1]
    BY <1>3, <1>5
  <2>2. r = steps \o Tail(q)
    BY <1>5 DEF Follows
  <2>3. /\ r \in Seq(S) /\ Len(steps) \in Nat /\ Len(r) = Len(steps) + Len(Tail(q))
        /\ \A i \in 1..Len(steps) : r[i] = steps[i]
        /\ \A i \in 1..Len(Tail(q)) : r[Len(steps) + i] = Tail(q)[i]
    BY <1>3, <2>1, <2>2
  <2>4. QED
    BY <1>5, <2>1, <2>3 DEF IsSeq
<1>6. QED
  BY <1>4, <1>5

LEMMA FollowsLen ==
  ASSUME NEW q, NEW r, NEW steps, IsSeq(q), IsSeq(steps), Follows(r, q, steps)
  PROVE  /\ Len(steps) \in Nat /\ Len(q) \in Nat
         /\ \A j \in 1..Len(steps) : r[j] = steps[j]
         /\ \/ Len(r) = Len(steps)
            \/ /\ Len(r) = Len(steps) + (Len(q) - 1)
               /\ \A j \in 1..(Len(q) - 1) : r[Len(steps) + j] = q[j + 1]
<1>1. CASE q = <<>>
  BY <1>1, FollowsIs
<1>2. CASE q # <<>>
  <2>1. (IF q = <<>> THEN 0 ELSE Len(q) - 1) = Len(q) - 1
    BY <1>2
  <2>2. QED
    BY <2>1, FollowsIs
<1>3. QED
  BY <1>1, <1>2

\* Steps that hold nothing take the place of one that holds nothing.
LEMMA NothingMoves ==
  ASSUME NEW q, NEW r, NEW steps, IsSeq(q), IsSeq(steps), Follows(r, q, steps), NEW s,
         q # <<>> => ~Holds(Head(q), s), Never(steps, s)
  PROVE  (Once(r, s) <=> Once(q, s)) /\ (Never(r, s) <=> Never(q, s))
<1> DEFINE rest == IF q = <<>> THEN 0 ELSE Len(q) - 1
           n == Len(steps)
<1>1. /\ n \in Nat /\ rest \in Nat /\ Len(q) \in Nat /\ Len(r) = n + rest
      /\ \A i \in 1..n : r[i] = steps[i]
      /\ \A i \in 1..rest : r[n + i] = q[i + 1]
      /\ q # <<>> => Len(q) = rest + 1 /\ Head(q) = q[1]
      /\ q = <<>> => Len(q) = 0 /\ rest = 0
  BY FollowsIs
<1> HIDE DEF rest
<1>2. \A i \in 1..n : ~Holds(r[i], s)
  BY <1>1 DEF Never
<1>3. \A i \in 1..Len(q) : Holds(q[i], s) => i - 1 \in 1..rest /\ Holds(r[n + (i - 1)], s)
  <2>1. SUFFICES ASSUME NEW i \in 1..Len(q), Holds(q[i], s)
                 PROVE  i - 1 \in 1..rest /\ Holds(r[n + (i - 1)], s)
    OBVIOUS
  <2>2. q # <<>> /\ i # 1
    BY <1>1, <2>1
  <2>3. i - 1 \in 1..rest /\ (i - 1) + 1 = i
    BY <1>1, <2>2
  <2>4. r[n + (i - 1)] = q[(i - 1) + 1]
    BY <1>1, <2>3
  <2>5. QED
    BY <2>1, <2>3, <2>4
<1>4. \A i \in 1..Len(r) : Holds(r[i], s) => i - n \in 1..rest /\ (i - n) + 1 \in 1..Len(q) /\ Holds(q[(i - n) + 1], s)
  <2>1. SUFFICES ASSUME NEW i \in 1..Len(r), Holds(r[i], s)
                 PROVE  i - n \in 1..rest /\ (i - n) + 1 \in 1..Len(q) /\ Holds(q[(i - n) + 1], s)
    OBVIOUS
  <2>2. i \notin 1..n
    BY <1>2, <2>1
  <2>3. i - n \in 1..rest /\ n + (i - n) = i
    BY <1>1, <2>2
  <2>4. (i - n) + 1 \in 1..Len(q)
    BY <1>1, <2>3
  <2>5. r[n + (i - n)] = q[(i - n) + 1]
    BY <1>1, <2>3
  <2>6. QED
    BY <2>1, <2>3, <2>4, <2>5
<1>5. \A i \in 1..rest : n + i \in 1..Len(r) /\ i + 1 \in 1..Len(q) /\ (Holds(r[n + i], s) <=> Holds(q[i + 1], s))
  BY <1>1
<1>6. ASSUME Once(q, s) PROVE Once(r, s)
  <2>1. PICK i \in 1..Len(q) : \A j \in 1..Len(q) : Holds(q[j], s) <=> j = i
    BY <1>6 DEF Once
  <2>2. i - 1 \in 1..rest /\ n + (i - 1) \in 1..Len(r) /\ Holds(r[n + (i - 1)], s)
    BY <1>3, <1>5, <2>1
  <2>3. ASSUME NEW j \in 1..Len(r), Holds(r[j], s) PROVE j = n + (i - 1)
    <3>1. (j - n) + 1 \in 1..Len(q) /\ Holds(q[(j - n) + 1], s)
      BY <1>4, <2>3
    <3>2. (j - n) + 1 = i
      BY <2>1, <3>1
    <3>3. QED
      BY <1>1, <3>2
  <2>4. QED
    BY <2>2, <2>3 DEF Once
<1>7. ASSUME Once(r, s) PROVE Once(q, s)
  <2>1. PICK i \in 1..Len(r) : \A j \in 1..Len(r) : Holds(r[j], s) <=> j = i
    BY <1>7 DEF Once
  <2>2. (i - n) + 1 \in 1..Len(q) /\ Holds(q[(i - n) + 1], s)
    BY <1>4, <2>1
  <2>3. ASSUME NEW j \in 1..Len(q), Holds(q[j], s) PROVE j = (i - n) + 1
    <3>1. j - 1 \in 1..rest /\ n + (j - 1) \in 1..Len(r) /\ Holds(r[n + (j - 1)], s)
      BY <1>3, <1>5, <2>3
    <3>2. n + (j - 1) = i
      BY <2>1, <3>1
    <3>3. QED
      BY <1>1, <3>2
  <2>4. QED
    BY <2>2, <2>3 DEF Once
<1>8. Never(r, s) <=> Never(q, s)
  <2>1. ASSUME Never(q, s) PROVE Never(r, s)
    BY <1>4, <2>1 DEF Never
  <2>2. ASSUME Never(r, s) PROVE Never(q, s)
    BY <1>3, <1>5, <2>2 DEF Never
  <2>3. QED
    BY <2>1, <2>2
<1>9. QED
  BY <1>6, <1>7, <1>8

\* One of the new steps holds s, and none did.
LEMMA StepsGain ==
  ASSUME NEW q, NEW r, NEW steps, IsSeq(q), IsSeq(steps), Follows(r, q, steps), NEW s,
         Never(q, s), Once(steps, s)
  PROVE  Once(r, s)
<1> DEFINE rest == IF q = <<>> THEN 0 ELSE Len(q) - 1
           n == Len(steps)
<1>1. /\ n \in Nat /\ rest \in Nat /\ Len(q) \in Nat /\ Len(r) = n + rest
      /\ \A i \in 1..n : r[i] = steps[i]
      /\ \A i \in 1..rest : r[n + i] = q[i + 1]
      /\ q # <<>> => Len(q) = rest + 1
      /\ q = <<>> => rest = 0
  BY FollowsIs
<1> HIDE DEF rest
<1>2. PICK i \in 1..n : \A j \in 1..n : Holds(steps[j], s) <=> j = i
  BY DEF Once
<1>3. ASSUME NEW j \in 1..Len(r), j \notin 1..n PROVE ~Holds(r[j], s)
  <2>1. j - n \in 1..rest /\ n + (j - n) = j /\ (j - n) + 1 \in 1..Len(q)
    BY <1>1, <1>3
  <2>2. r[j] = q[(j - n) + 1]
    BY <1>1, <2>1
  <2>3. QED
    BY <2>1, <2>2 DEF Never
<1>4. i \in 1..Len(r) /\ \A j \in 1..Len(r) : Holds(r[j], s) <=> j = i
  BY <1>1, <1>2, <1>3
<1>5. QED
  BY <1>4 DEF Once

\* The first step was the one that held s.
LEMMA StepsLose ==
  ASSUME NEW q, NEW r, NEW steps, IsSeq(q), IsSeq(steps), Follows(r, q, steps), NEW s,
         q # <<>>, Holds(Head(q), s), Once(q, s), Never(steps, s)
  PROVE  Never(r, s)
<1> DEFINE rest == Len(q) - 1
           n == Len(steps)
<1>1. /\ n \in Nat /\ rest \in Nat /\ Len(q) \in Nat /\ Len(r) = n + rest
      /\ \A i \in 1..n : r[i] = steps[i]
      /\ \A i \in 1..rest : r[n + i] = q[i + 1]
      /\ Len(q) = rest + 1 /\ Head(q) = q[1]
  BY FollowsIs
<1> HIDE DEF rest
<1>2. 1 \in 1..Len(q) /\ \A j \in 1..Len(q) : Holds(q[j], s) => j = 1
  BY <1>1 DEF Once
<1>3. SUFFICES ASSUME NEW j \in 1..Len(r), j \notin 1..n PROVE ~Holds(r[j], s)
  BY <1>1 DEF Never
<1>4. j - n \in 1..rest /\ n + (j - n) = j /\ (j - n) + 1 \in 1..Len(q) /\ (j - n) + 1 # 1
  BY <1>1, <1>3
<1>5. r[j] = q[(j - n) + 1]
  BY <1>1, <1>4
<1>6. QED
  BY <1>2, <1>4, <1>5

-----------------------------------------------------------------------------
(* What a step does to a thread's remaining steps.                         *)

TodoChanges(t, steps) ==
  todo' = [todo EXCEPT ![t] = IF todo[t] = <<>> THEN steps ELSE steps \o Tail(todo[t])]

LEMMA TodoChange ==
  ASSUME TodoType, NEW t \in Threads, NEW steps, IsSeq(steps), TodoChanges(t, steps)
  PROVE  /\ TodoType'
         /\ Follows(todo'[t], todo[t], steps) /\ IsSeq(todo[t]) /\ IsSeq(todo'[t])
         /\ \A u \in Threads \ {t} : todo'[u] = todo[u]
<1>1. /\ Follows(todo'[t], todo[t], steps) /\ todo' = [u \in Threads |-> todo'[u]]
      /\ \A u \in Threads \ {t} : todo'[u] = todo[u]
  BY DEF TodoType, TodoChanges, Follows
<1>2. IsSeq(todo[t])
  BY DEF TodoType
<1>3. IsSeq(todo'[t])
  BY <1>1, <1>2, FollowsIs
<1>4. \A u \in Threads : IsSeq(todo'[u])
  BY <1>1, <1>3 DEF TodoType
<1>5. QED
  BY <1>1, <1>2, <1>3, <1>4 DEF TodoType

LEMMA StepsKeep ==
  ASSUME TodoType, StepsInv, NEW t \in Threads, NEW steps, IsSeq(steps), TodoChanges(t, steps),
         \A s \in Sessions : sid[s] # None => sid'[s] # None,
         \A i \in 1..Len(steps) : StepOK(sid', i, steps[i])
  PROVE  StepsInv'
<1>1. /\ Follows(todo'[t], todo[t], steps) /\ IsSeq(todo[t])
      /\ \A u \in Threads \ {t} : todo'[u] = todo[u]
  BY TodoChange
<1>2. \A i, step : StepOK(sid, i, step) => StepOK(sid', i, step)
  BY DEF StepOK
<1>3. ASSUME NEW u \in Threads \ {t}, NEW i \in 1..Len(todo'[u]) PROVE StepOK(sid', i, todo'[u][i])
  <2>1. todo'[u] = todo[u]
    BY <1>1
  <2>2. StepOK(sid, i, todo[u][i])
    BY <1>3, <2>1 DEF StepsInv
  <2>3. QED
    BY <1>2, <2>1, <2>2
<1>4. ASSUME NEW i \in 1..Len(todo'[t]) PROVE StepOK(sid', i, todo'[t][i])
  <2> DEFINE n == Len(steps)
             k == (i - n) + 1
  <2>1. /\ Len(steps) \in Nat /\ Len(todo[t]) \in Nat
        /\ \A j \in 1..Len(steps) : todo'[t][j] = steps[j]
        /\ \/ Len(todo'[t]) = Len(steps)
           \/ /\ Len(todo'[t]) = Len(steps) + (Len(todo[t]) - 1)
              /\ \A j \in 1..(Len(todo[t]) - 1) : todo'[t][Len(steps) + j] = todo[t][j + 1]
    <3>1. Follows(todo'[t], todo[t], steps) /\ IsSeq(todo[t]) /\ IsSeq(steps)
      BY <1>1
    <3>2. QED
      BY <3>1, FollowsLen
  <2>2. CASE i \in 1..n
    BY <2>1, <2>2
  <2>3. CASE i \notin 1..n
    <3>1. i - n \in 1..(Len(todo[t]) - 1) /\ n + (i - n) = i /\ k \in 1..Len(todo[t]) /\ k # 1
          /\ \A j \in 1..(Len(todo[t]) - 1) : todo'[t][n + j] = todo[t][j + 1]
      BY <1>4, <2>1, <2>3
    <3>2. todo'[t][i] = todo[t][k]
      BY <3>1
    <3>3. StepOK(sid, k, todo[t][k])
      BY <3>1 DEF StepsInv
    <3>4. StepOK(sid, i, todo[t][k])
      BY <3>1, <3>3 DEF StepOK
    <3>5. QED
      BY <1>2, <3>2, <3>4
  <2>4. QED
    BY <2>2, <2>3
<1>5. QED
  BY <1>3, <1>4 DEF StepsInv

LEMMA CreatingIs ==
  ASSUME TodoType, StepsInv, NEW t \in Threads, NEW steps, IsSeq(steps), TodoChanges(t, steps),
         \A i \in 1..Len(steps) : steps[i][1] # "create"
  PROVE  Creating' = Creating \ {t}
<1>1. /\ Follows(todo'[t], todo[t], steps) /\ IsSeq(todo[t]) /\ IsSeq(todo'[t])
      /\ \A u \in Threads \ {t} : todo'[u] = todo[u]
  BY TodoChange
<1>2. \A u \in Threads \ {t} : At(u, "create")' <=> At(u, "create")
  BY <1>1 DEF At
<1>3. ~At(t, "create")'
  <2>1. SUFFICES ASSUME todo'[t] # <<>> PROVE Head(todo'[t])[1] # "create"
    BY DEF At
  <2> DEFINE n == Len(steps)
  <2>2. /\ Len(steps) \in Nat /\ Len(todo[t]) \in Nat
        /\ \A j \in 1..Len(steps) : todo'[t][j] = steps[j]
        /\ \/ Len(todo'[t]) = Len(steps)
           \/ /\ Len(todo'[t]) = Len(steps) + (Len(todo[t]) - 1)
              /\ \A j \in 1..(Len(todo[t]) - 1) : todo'[t][Len(steps) + j] = todo[t][j + 1]
    <3>1. Follows(todo'[t], todo[t], steps) /\ IsSeq(todo[t]) /\ IsSeq(steps)
      BY <1>1
    <3>2. QED
      BY <3>1, FollowsLen
  <2>3. Len(todo'[t]) \in Nat /\ Len(todo'[t]) > 0 /\ Head(todo'[t]) = todo'[t][1]
    BY <1>1, <2>1, SeqLen DEF IsSeq
  <2>4. CASE n > 0
    BY <2>2, <2>3, <2>4
  <2>5. CASE n = 0
    <3>1. 1 \in 1..(Len(todo[t]) - 1) /\ todo'[t][0 + 1] = todo[t][1 + 1]
      BY <2>2, <2>3, <2>5
    <3>2. StepOK(sid, 2, todo[t][2])
      BY <2>2, <3>1 DEF StepsInv
    <3>3. todo'[t][1] = todo[t][2]
      BY <3>1
    <3>4. QED
      BY <2>3, <3>2, <3>3 DEF StepOK
  <2>6. QED
    BY <2>2, <2>4, <2>5
<1>4. QED
  BY <1>2, <1>3 DEF Creating

\* Whether and where s is held does not change.
LEMMA HeldSame ==
  ASSUME TodoType, NEW t \in Threads, NEW steps, IsSeq(steps), TodoChanges(t, steps), NEW s,
         todo[t] # <<>> => ~Holds(Head(todo[t]), s), Never(steps, s)
  PROVE  (Held(s)' <=> Held(s)) /\ (Unheld(s)' <=> Unheld(s))
<1>1. /\ Follows(todo'[t], todo[t], steps) /\ IsSeq(todo[t])
      /\ \A u \in Threads \ {t} : todo'[u] = todo[u]
  BY TodoChange
<1>2. (Once(todo'[t], s) <=> Once(todo[t], s)) /\ (Never(todo'[t], s) <=> Never(todo[t], s))
  BY <1>1, NothingMoves
<1>3. \A u \in Threads : (Once(todo'[u], s) <=> Once(todo[u], s)) /\ (Never(todo'[u], s) <=> Never(todo[u], s))
  BY <1>1, <1>2
<1>4. QED
  BY <1>3 DEF Held, Unheld

\* s comes into the hands of t.
LEMMA HeldGains ==
  ASSUME TodoType, NEW t \in Threads, NEW steps, IsSeq(steps), TodoChanges(t, steps), NEW s,
         Unheld(s), Once(steps, s)
  PROVE  Held(s)'
<1>1. /\ Follows(todo'[t], todo[t], steps) /\ IsSeq(todo[t])
      /\ \A u \in Threads \ {t} : todo'[u] = todo[u]
  BY TodoChange
<1>2. Once(todo'[t], s)
  BY <1>1, StepsGain DEF Unheld
<1>3. \A u \in Threads \ {t} : Never(todo'[u], s)
  BY <1>1 DEF Unheld
<1>4. QED
  BY <1>2, <1>3 DEF Held

\* The step that held s is done.
LEMMA HeldLoses ==
  ASSUME TodoType, NEW t \in Threads, NEW steps, IsSeq(steps), TodoChanges(t, steps), NEW s,
         Held(s), todo[t] # <<>>, Holds(Head(todo[t]), s), Never(steps, s)
  PROVE  Unheld(s)'
<1>1. /\ Follows(todo'[t], todo[t], steps) /\ IsSeq(todo[t])
      /\ \A u \in Threads \ {t} : todo'[u] = todo[u]
  BY TodoChange
<1>2. PICK v \in Threads : Once(todo[v], s) /\ \A u \in Threads \ {v} : Never(todo[u], s)
  BY DEF Held
<1>3. v = t
  <2>1. Len(todo[t]) \in Nat /\ Len(todo[t]) > 0 /\ Head(todo[t]) = todo[t][1]
    BY <1>1, SeqLen DEF IsSeq
  <2>2. ~Never(todo[t], s)
    BY <2>1 DEF Never
  <2>3. QED
    BY <1>2, <2>2
<1>4. Never(todo'[t], s)
  BY <1>1, <1>2, <1>3, StepsLose
<1>5. QED
  BY <1>1, <1>2, <1>3, <1>4 DEF Unheld

-----------------------------------------------------------------------------
(* Steps that move no session.                                             *)

LEMMA CreatingFewer ==
  ASSUME EnoughIds, NEW t, Creating' = Creating \ {t}
  PROVE  /\ IsFiniteSet(Creating') /\ Cardinality(Creating') \in Nat /\ Cardinality(Creating) \in Nat
         /\ t \in Creating => Cardinality(Creating') = Cardinality(Creating) - 1
         /\ t \notin Creating => Cardinality(Creating') = Cardinality(Creating)
<1>1. IsFiniteSet(Creating)
  BY DEF EnoughIds
<1>2. /\ IsFiniteSet(Creating \ {t})
      /\ Cardinality(Creating \ {t}) = IF t \in Creating THEN Cardinality(Creating) - 1 ELSE Cardinality(Creating)
  BY <1>1, FS_RemoveElement
<1>3. Cardinality(Creating) \in Nat /\ Cardinality(Creating \ {t}) \in Nat
  BY <1>1, <1>2, FS_CardinalityType
<1>4. QED
  BY <1>2, <1>3

Holding == {"register", "release"}

LEMMA QuietStep ==
  ASSUME ManagerInv, NEW t \in Threads, NEW steps, IsSeq(steps), TodoChanges(t, steps),
         UNCHANGED managerVars, conns' = conns,
         todo[t] # <<>> => Head(todo[t])[1] \notin Holding,
         \A i \in 1..Len(steps) : /\ steps[i][1] \notin Holding \cup {"create"}
                                  /\ StepOK(sid, i, steps[i])
  PROVE  ManagerInv'
<1>1. UNCHANGED <<sid, idGen, freeList, freeSet, sessions, bySock, created, destroyed>>
  BY DEF managerVars
<1>2. /\ Types /\ TodoType /\ StepsInv /\ IdsInv /\ EnoughIds /\ PlacesInv /\ Balance
  BY DEF ManagerInv
<1>3. \A s \in Sessions : (Held(s)' <=> Held(s)) /\ (Unheld(s)' <=> Unheld(s))
  <2>1. \A s : (todo[t] # <<>> => ~Holds(Head(todo[t]), s)) /\ Never(steps, s)
    BY DEF Holds, Never, Holding
  <2>2. QED
    BY <1>2, <2>1, HeldSame
<1>4. PlacesInv'
  <2>1. \A s \in Sessions : /\ Listed(s)' <=> Listed(s)
                            /\ Unlisted(s)' <=> Unlisted(s)
                            /\ Mapped(s)' <=> Mapped(s)
                            /\ Unmapped(s)' <=> Unmapped(s)
    BY <1>1 DEF Listed, Unlisted, Mapped, Unmapped
  <2>2. QED
    BY <1>2, <1>3, <2>1 DEF PlacesInv, Free, InUse, InHands
<1>5. TodoType' /\ StepsInv'
  BY <1>1, <1>2, TodoChange, StepsKeep
<1>6. EnoughIds'
  <2>1. Creating' = Creating \ {t}
    BY <1>2, CreatingIs
  <2>2. /\ IsFiniteSet(Creating')
        /\ Cardinality(Creating') \in Nat /\ Cardinality(Creating) \in Nat
        /\ Cardinality(Creating') \in {Cardinality(Creating), Cardinality(Creating) - 1}
    BY <1>2, <2>1, CreatingFewer, Zenon
  <2>3. QED
    BY <1>1, <1>2, <2>2 DEF EnoughIds, Types
<1>7. Types'
  BY <1>1, <1>2 DEF Types, Unlisted
<1>8. IdsInv'
  BY <1>1, <1>2 DEF IdsInv
<1>9. Balance'
  <2>1. Active' = Active
    BY <1>1 DEF Active
  <2>2. QED
    BY <1>1, <1>2, <2>1 DEF Balance
<1>10. QED
  BY <1>4, <1>5, <1>6, <1>7, <1>8, <1>9 DEF ManagerInv

\* Names of steps that StepOK asks nothing of.
Plain == {"closeSocket", "closeHandle", "clearSock", "close", "postRecv", "recv", "resetRx",
          "fillRx", "moveRx", "clearRx", "releaseRx", "crashed", "sendDone", "dropSocket", "sends"}

AllPlain(steps) == IsSeq(steps) /\ \A i \in 1..Len(steps) : steps[i][1] \in Plain

LEMMA NoStep == AllPlain(<<>>)
BY DEF AllPlain, IsSeq

LEMMA OneStep == ASSUME NEW step, step[1] \in Plain PROVE AllPlain(<<step>>)
<1>1. <<step>> \in Seq({step}) /\ Len(<<step>>) = 1 /\ <<step>>[1] = step
  OBVIOUS
<1>2. IsSeq(<<step>>)
  BY <1>1 DEF IsSeq
<1>3. \A i \in 1..1 : i = 1
  OBVIOUS
<1>4. QED
  BY <1>1, <1>2, <1>3 DEF AllPlain

LEMMA TwoSteps ==
  ASSUME NEW step, NEW next, step[1] \in Plain, next[1] \in Plain PROVE AllPlain(<<step, next>>)
<1>1. <<step, next>> \in Seq({step, next}) /\ Len(<<step, next>>) = 2
      /\ <<step, next>>[1] = step /\ <<step, next>>[2] = next
  OBVIOUS
<1>2. IsSeq(<<step, next>>)
  BY <1>1 DEF IsSeq
<1>3. \A i \in 1..2 : i = 1 \/ i = 2
  OBVIOUS
<1>4. QED
  BY <1>1, <1>2, <1>3 DEF AllPlain

LEMMA ThreeSteps ==
  ASSUME NEW step, NEW next, NEW last, step[1] \in Plain, next[1] \in Plain, last[1] \in Plain
  PROVE  AllPlain(<<step, next, last>>)
<1>1. <<step, next, last>> \in Seq({step, next, last}) /\ Len(<<step, next, last>>) = 3
      /\ <<step, next, last>>[1] = step /\ <<step, next, last>>[2] = next /\ <<step, next, last>>[3] = last
  OBVIOUS
<1>2. IsSeq(<<step, next, last>>)
  BY <1>1 DEF IsSeq
<1>3. \A i \in 1..3 : i = 1 \/ i = 2 \/ i = 3
  OBVIOUS
<1>4. QED
  BY <1>1, <1>2, <1>3 DEF AllPlain

LEMMA PlainStep ==
  ASSUME ManagerInv, NEW t \in Threads, NEW steps, AllPlain(steps), TodoChanges(t, steps),
         UNCHANGED managerVars, conns' = conns,
         todo[t] # <<>> => Head(todo[t])[1] \notin Holding
  PROVE  ManagerInv'
<1>1. IsSeq(steps)
  BY DEF AllPlain
<1>2. \A i \in 1..Len(steps) : steps[i][1] \notin Holding \cup {"create"} /\ StepOK(sid, i, steps[i])
  BY DEF AllPlain, Plain, Holding, StepOK
<1>3. QED
  BY <1>1, <1>2, QuietStep

LEMMA ThenChanges ==
  ASSUME NEW t, NEW name, NEW steps, At(t, name), Then(t, steps)
  PROVE  TodoChanges(t, steps) /\ todo[t] # <<>> /\ Head(todo[t])[1] = name
BY DEF At, Then, TodoChanges

LEMMA PlainThen ==
  ASSUME ManagerInv, NEW t \in Threads, NEW name, NEW steps, At(t, name), Then(t, steps),
         AllPlain(steps), name \notin Holding, UNCHANGED managerVars, conns' = conns
  PROVE  ManagerInv'
BY ThenChanges, PlainStep

\* The steps of Session, of whatever thread.
LEMMA SessionStepKeeps ==
  ASSUME ManagerInv, NEW t \in Threads, SessionStep(t), UNCHANGED managerVars
  PROVE  ManagerInv'
<1>1. CASE CloseSocket(t)
  <2>1. At(t, "closeSocket") /\ conns' = conns
    BY <1>1 DEF CloseSocket, kernelVars
  <2>2. \/ Then(t, <<>>)
        \/ Then(t, << <<"closeHandle", sock[Arg(t)]>>, <<"clearSock", Arg(t)>> >>)
    BY <1>1 DEF CloseSocket
  <2>3. AllPlain(<< <<"closeHandle", sock[Arg(t)]>>, <<"clearSock", Arg(t)>> >>)
    BY TwoSteps DEF Plain
  <2>4. QED
    BY <2>1, <2>2, <2>3, NoStep, PlainThen DEF Holding
<1>2. CASE CloseSocketHandle(t)
  <2>1. At(t, "closeHandle") /\ conns' = conns /\ Then(t, <<>>)
    BY <1>2 DEF CloseSocketHandle
  <2>2. QED
    BY <2>1, NoStep, PlainThen DEF Holding
<1>3. CASE ClearSock(t)
  <2>1. At(t, "clearSock") /\ conns' = conns /\ Then(t, <<>>)
    BY <1>3 DEF ClearSock, kernelVars
  <2>2. QED
    BY <2>1, NoStep, PlainThen DEF Holding
<1>4. CASE Close(t)
  <2>1. At(t, "close") /\ conns' = conns
        /\ (Then(t, <<>>) \/ Then(t, << <<"closeSocket", Arg(t)>> >>))
    BY <1>4 DEF Close, CloseSteps, kernelVars
  <2>2. AllPlain(<< <<"closeSocket", Arg(t)>> >>)
    BY OneStep DEF Plain
  <2>3. QED
    BY <2>1, <2>2, NoStep, PlainThen DEF Holding
<1>5. CASE PostRecvAcquire(t)
  <2>1. At(t, "postRecv") /\ conns' = conns
    BY <1>5 DEF PostRecvAcquire, kernelVars
  <2>2. PICK b : \/ Then(t, << <<"recv", Arg(t)>> >>)
                 \/ Then(t, << <<"fillRx", Arg(t), b>>, <<"recv", Arg(t)>> >>)
    BY <1>5 DEF PostRecvAcquire
  <2>3. /\ AllPlain(<< <<"recv", Arg(t)>> >>)
        /\ AllPlain(<< <<"fillRx", Arg(t), b>>, <<"recv", Arg(t)>> >>)
    BY OneStep, TwoSteps DEF Plain
  <2>4. QED
    BY <2>1, <2>2, <2>3, PlainThen DEF Holding
<1>6. CASE PostRecvCall(t)
  <2>1. At(t, "recv") /\ conns' = conns /\ Then(t, <<>>)
    BY <1>6 DEF PostRecvCall
  <2>2. QED
    BY <2>1, NoStep, PlainThen DEF Holding
<1>7. CASE ResetRx(t)
  <2>1. At(t, "resetRx") /\ conns' = conns
    BY <1>7 DEF ResetRx, kernelVars
  <2>2. \/ Then(t, << <<"crashed">> >>)
        \/ Then(t, << <<"clearRx", Arg(t)>>, <<"releaseRx", rx[Arg(t)]>> >>)
    BY <1>7 DEF ResetRx
  <2>3. /\ AllPlain(<< <<"clearRx", Arg(t)>>, <<"releaseRx", rx[Arg(t)]>> >>)
        /\ AllPlain(<< <<"crashed">> >>)
    BY OneStep, TwoSteps DEF Plain
  <2>4. QED
    BY <2>1, <2>2, <2>3, PlainThen DEF Holding
<1>8. CASE ClearRx(t)
  <2>1. At(t, "clearRx") /\ conns' = conns /\ Then(t, <<>>)
    BY <1>8 DEF ClearRx, kernelVars
  <2>2. QED
    BY <2>1, NoStep, PlainThen DEF Holding
<1>9. CASE ReleaseRx(t)
  <2>1. At(t, "releaseRx") /\ conns' = conns /\ Then(t, <<>>)
    BY <1>9 DEF ReleaseRx, kernelVars
  <2>2. QED
    BY <2>1, NoStep, PlainThen DEF Holding
<1>10. CASE SendDone(t)
  <2>1. At(t, "sendDone") /\ conns' = conns /\ Then(t, <<>>)
    BY <1>10 DEF SendDone
  <2>2. QED
    BY <2>1, NoStep, PlainThen DEF Holding
<1>11. CASE FillRx(t)
  <2> DEFINE move == <<"moveRx", Arg(t), Arg2(t)>>
  <2>1. At(t, "fillRx") /\ conns' = conns
    BY <1>11 DEF FillRx, kernelVars
  <2>2. \/ Then(t, <<move>>)
        \/ Then(t, << <<"clearRx", Arg(t)>>, <<"releaseRx", rx[Arg(t)]>>, move >>)
    BY <1>11 DEF FillRx
  <2>3. /\ AllPlain(<<move>>)
        /\ AllPlain(<< <<"clearRx", Arg(t)>>, <<"releaseRx", rx[Arg(t)]>>, move >>)
    BY OneStep, ThreeSteps DEF Plain
  <2>4. QED
    BY <2>1, <2>2, <2>3, PlainThen DEF Holding
<1>12. CASE MoveRx(t)
  <2>1. At(t, "moveRx") /\ conns' = conns /\ Then(t, <<>>)
    BY <1>12 DEF MoveRx, kernelVars
  <2>2. QED
    BY <2>1, NoStep, PlainThen DEF Holding
<1>13. QED
  BY <1>1, <1>2, <1>3, <1>4, <1>5, <1>6, <1>7, <1>8, <1>9, <1>10, <1>11, <1>12 DEF SessionStep

\* A thread that is idle begins.
LEMMA PlainCall ==
  ASSUME ManagerInv, NEW t \in Threads, NEW steps, AllPlain(steps), Idle(t),
         todo' = [todo EXCEPT ![t] = steps], UNCHANGED managerVars, conns' = conns
  PROVE  ManagerInv'
<1>1. TodoChanges(t, steps) /\ ~(todo[t] # <<>>)
  BY DEF Idle, TodoChanges
<1>2. QED
  BY <1>1, PlainStep

LEMMA WorkerStepKeeps ==
  ASSUME ManagerInv, NEW w \in Workers, WorkerStep(w)
  PROVE  ManagerInv'
<1>1. w \in Threads
  BY DEF Threads
<1>2. CASE SessionStep(w)
  BY <1>1, <1>2, SessionStepKeeps DEF WorkerStep
<1>3. CASE TakePacket(w)
  <2> DEFINE io == ios[Head(port)]
  <2>1. Idle(w) /\ conns' = conns /\ UNCHANGED managerVars
        /\ todo' = [todo EXCEPT ![w] = StepsFor(io)]
    BY <1>3 DEF TakePacket, WorkerStep
  <2>2. AllPlain(StepsFor(io))
    <3>1. /\ AllPlain(<< <<"closeSocket", io.owner>>, <<"close", io.owner>> >>)
          /\ AllPlain(<< <<"resetRx", io.owner>>, <<"postRecv", io.owner>> >>)
          /\ AllPlain(<< <<"sendDone", io.owner>> >>)
      BY OneStep, TwoSteps DEF Plain
    <3>2. QED
      BY <3>1 DEF StepsFor
  <2> HIDE DEF io
  <2>3. QED
    BY <1>1, <2>1, <2>2, PlainCall
<1>4. QED
  BY <1>2, <1>3 DEF WorkerStep

-----------------------------------------------------------------------------
(* The callers' steps that move no session.                                *)

LEMMA SendToNextKeeps ==
  ASSUME ManagerInv, NEW t \in Threads, SendToNext(t)
  PROVE  ManagerInv'
<1>1. PICK s \in Arg(t) : SendOn(s) /\ Then(t, IF Arg(t) = {s} THEN <<>> ELSE << <<"sends", Arg(t) \ {s}>> >>)
  BY DEF SendToNext
<1>2. At(t, "sends") /\ UNCHANGED managerVars /\ conns' = conns
  BY <1>1 DEF SendToNext, SendOn
<1>3. AllPlain(IF Arg(t) = {s} THEN <<>> ELSE << <<"sends", Arg(t) \ {s}>> >>)
  <2>1. AllPlain(<< <<"sends", Arg(t) \ {s}>> >>)
    BY OneStep DEF Plain
  <2>2. QED
    BY <2>1, NoStep
<1>4. QED
  BY <1>1, <1>2, <1>3, PlainThen DEF Holding

LEMMA DropSocketKeeps ==
  ASSUME ManagerInv, NEW t \in Threads, DropSocket(t)
  PROVE  ManagerInv'
<1>1. At(t, "dropSocket") /\ conns' = conns /\ Then(t, <<>>) /\ UNCHANGED managerVars
  BY DEF DropSocket
<1>2. QED
  BY <1>1, NoStep, PlainThen DEF Holding

\* The step about to be taken is one of those StepsInv speaks of.
LEMMA NextStepOK ==
  ASSUME TodoType, StepsInv, NEW t \in Threads, todo[t] # <<>>
  PROVE  StepOK(sid, 1, Head(todo[t]))
<1>1. IsSeq(todo[t])
  BY DEF TodoType
<1>2. Len(todo[t]) \in Nat /\ Len(todo[t]) > 0 /\ Head(todo[t]) = todo[t][1]
  BY <1>1, SeqLen DEF IsSeq
<1>3. 1 \in 1..Len(todo[t])
  BY <1>2
<1>4. QED
  BY <1>2, <1>3 DEF StepsInv

LEMMA AssociateKeeps ==
  ASSUME ManagerInv, NEW t \in Threads, Associate(t)
  PROVE  ManagerInv'
<1> DEFINE s == Arg(t)
           k == Arg2(t)
           ending == << <<"destroy", sid[s]>>, <<"dropSocket", k>> >>
<1>1. At(t, "associate") /\ UNCHANGED managerVars /\ conns' = conns
  BY DEF Associate
<1>2. CASE Then(t, << <<"postRecv", s>> >>)
  <2>1. AllPlain(<< <<"postRecv", s>> >>)
    BY OneStep DEF Plain
  <2>2. QED
    BY <1>1, <1>2, <2>1, PlainThen DEF Holding
<1>3. CASE Then(t, ending)
  <2>1. s \in Sessions /\ sid[s] \in Ids
    <3>1. StepOK(sid, 1, Head(todo[t])) /\ Head(todo[t])[1] = "associate"
      BY <1>1, NextStepOK DEF At, ManagerInv
    <3>2. QED
      BY <3>1 DEF StepOK, Arg, ManagerInv, Types
  <2>2. ending \in Seq({<<"destroy", sid[s]>>, <<"dropSocket", k>>}) /\ Len(ending) = 2
        /\ ending[1] = <<"destroy", sid[s]>> /\ ending[2] = <<"dropSocket", k>>
    OBVIOUS
  <2> HIDE DEF ending
  <2>3. IsSeq(ending)
    BY <2>2 DEF IsSeq
  <2>4. ASSUME NEW i \in 1..Len(ending)
        PROVE  ending[i][1] \notin Holding \cup {"create"} /\ StepOK(sid, i, ending[i])
    <3>1. i = 1 \/ i = 2
      BY <2>2
    <3>2. QED
      BY <2>1, <2>2, <3>1 DEF Holding, StepOK
  <2>5. TodoChanges(t, ending) /\ Head(todo[t])[1] = "associate"
    BY <1>1, <1>3, ThenChanges
  <2>6. QED
    BY <1>1, <2>3, <2>4, <2>5, QuietStep DEF Holding
<1>4. QED
  BY <1>2, <1>3 DEF Associate

\* FindAndSend, Broadcast, FindAndClose and CallDestroy begin.
LEMMA CallsKeep ==
  ASSUME ManagerInv, NEW t \in Threads,
         FindAndSend(t) \/ Broadcast(t) \/ FindAndClose(t) \/ CallDestroy(t)
  PROVE  ManagerInv'
<1>1. ASSUME NEW step, Calls(t, step), step[1] \in Plain PROVE ManagerInv'
  <2>1. AllPlain(<<step>>)
    BY <1>1, OneStep
  <2>2. QED
    BY <1>1, <2>1, PlainCall DEF Calls, kernelVars
<1>2. CASE FindAndSend(t)
  <2>1. PICK s \in Active : Calls(t, <<"sends", {s}>>)
    BY <1>2 DEF FindAndSend
  <2>2. QED
    BY <1>1, <2>1 DEF Plain
<1>3. CASE Broadcast(t)
  BY <1>1, <1>3 DEF Broadcast, Plain
<1>4. CASE FindAndClose(t)
  <2>1. PICK s \in Active : Calls(t, <<"close", s>>)
    BY <1>4 DEF FindAndClose
  <2>2. QED
    BY <1>1, <2>1 DEF Plain
<1>5. CASE CallDestroy(t)
  <2>1. PICK i \in 1..(idGen - 1) : Calls(t, <<"destroy", i>>)
    BY <1>5 DEF CallDestroy
  <2>2. i \in Ids
    <3>1. IsFiniteSet(Creating) /\ Cardinality(Creating) \in Nat
      BY FS_CardinalityType DEF ManagerInv, EnoughIds
    <3>2. idGen - 1 <= MaxConns
      BY <3>1, NetSessionAssumption DEF ManagerInv, EnoughIds, Types
    <3>3. QED
      BY <3>2, NetSessionAssumption DEF ManagerInv, Types, Ids
  <2> DEFINE steps == << <<"destroy", i>> >>
  <2>3. steps \in Seq({<<"destroy", i>>}) /\ Len(steps) = 1 /\ steps[1] = <<"destroy", i>>
    OBVIOUS
  <2>4. TodoChanges(t, steps) /\ ~(todo[t] # <<>>) /\ UNCHANGED managerVars /\ conns' = conns
    BY <2>1 DEF Calls, Idle, TodoChanges, kernelVars
  <2> HIDE DEF steps
  <2>5. IsSeq(steps)
    BY <2>3 DEF IsSeq
  <2>6. ASSUME NEW j \in 1..Len(steps)
        PROVE  steps[j][1] \notin Holding \cup {"create"} /\ StepOK(sid, j, steps[j])
    <3>1. j = 1
      BY <2>3
    <3>2. QED
      BY <2>2, <2>3, <3>1 DEF Holding, StepOK
  <2>7. QED
    BY <2>4, <2>5, <2>6, QuietStep
<1>6. QED
  BY <1>2, <1>3, <1>4, <1>5

\* A new connection: one more create, one more connection.
LEMMA AcceptedKeeps ==
  ASSUME ManagerInv, NEW t \in Threads, Accepted(t)
  PROVE  ManagerInv'
<1>1. PICK k \in Sockets : todo' = [todo EXCEPT ![t] = << <<"create", k, conns + 1>> >>]
  BY DEF Accepted
<1> DEFINE steps == << <<"create", k, conns + 1>> >>
<1>2. /\ todo[t] = <<>> /\ conns < MaxConns /\ conns' = conns + 1 /\ TodoChanges(t, steps)
      /\ UNCHANGED <<sid, idGen, freeList, freeSet, sessions, bySock, created, destroyed>>
  BY <1>1 DEF Accepted, Idle, managerVars, TodoChanges
<1>3. /\ Types /\ TodoType /\ StepsInv /\ IdsInv /\ EnoughIds /\ PlacesInv /\ Balance
  BY DEF ManagerInv
<1>4. steps \in Seq({<<"create", k, conns + 1>>}) /\ Len(steps) = 1 /\ steps[1] = <<"create", k, conns + 1>>
  OBVIOUS
<1>5. todo'[t] = steps /\ Head(steps) = <<"create", k, conns + 1>> /\ steps # <<>>
      /\ \A u \in Threads \ {t} : todo'[u] = todo[u]
  BY <1>1, <1>3 DEF TodoType
<1> HIDE DEF steps
<1>6. IsSeq(steps) /\ \A i \in 1..Len(steps) : i = 1
  BY <1>4 DEF IsSeq
<1>7. TodoType' /\ StepsInv'
  <2>1. \A i \in 1..Len(steps) : StepOK(sid', i, steps[i])
    BY <1>4, <1>6 DEF StepOK
  <2>2. QED
    BY <1>2, <1>3, <1>6, <2>1, TodoChange, StepsKeep
<1>8. \A s \in Sessions : (Held(s)' <=> Held(s)) /\ (Unheld(s)' <=> Unheld(s))
  <2>1. \A s : Never(steps, s)
    BY <1>4, <1>6 DEF Never, Holds
  <2>2. QED
    BY <1>2, <1>3, <1>6, <2>1, HeldSame
<1>9. PlacesInv'
  <2>1. \A s \in Sessions : /\ Listed(s)' <=> Listed(s)
                            /\ Unlisted(s)' <=> Unlisted(s)
                            /\ Mapped(s)' <=> Mapped(s)
                            /\ Unmapped(s)' <=> Unmapped(s)
    BY <1>2 DEF Listed, Unlisted, Mapped, Unmapped
  <2>2. QED
    BY <1>3, <1>8, <2>1 DEF PlacesInv, Free, InUse, InHands
<1>10. EnoughIds'
  <2>1. Creating' = Creating \cup {t} /\ t \notin Creating
    BY <1>2, <1>5 DEF Creating, At
  <2>2. IsFiniteSet(Creating)
    BY <1>3 DEF EnoughIds
  <2>3. IsFiniteSet(Creating') /\ Cardinality(Creating') = Cardinality(Creating) + 1
    BY <2>1, <2>2, FS_AddElement
  <2>4. Cardinality(Creating) \in Nat
    BY <2>2, FS_CardinalityType
  <2>5. QED
    BY <1>2, <1>3, <2>3, <2>4 DEF EnoughIds, Types
<1>11. Types'
  BY <1>2, <1>3, NetSessionAssumption DEF Types, Unlisted
<1>12. IdsInv'
  BY <1>2, <1>3 DEF IdsInv
<1>13. Balance'
  <2>1. Active' = Active
    BY <1>2 DEF Active
  <2>2. QED
    BY <1>2, <1>3, <2>1 DEF Balance
<1>14. QED
  BY <1>7, <1>9, <1>10, <1>11, <1>12, <1>13 DEF ManagerInv

-----------------------------------------------------------------------------
(* Steps that move a session.                                              *)

\* Taking the oldest session from the free list.
LEMMA FreeListHead ==
  ASSUME Types, HasFree, freeList' = Tail(freeList), NEW s, s = Head(freeList), Listed(s)
  PROVE  /\ s \in Sessions /\ freeList' \in Seq(Sessions) /\ Unlisted(s)'
         /\ \A c : c # s => (Listed(c)' <=> Listed(c)) /\ (Unlisted(c)' <=> Unlisted(c))
<1> DEFINE n == Len(freeList)
<1>1. /\ n \in Nat /\ n > 0 /\ Len(freeList) = n /\ freeList[1] = s /\ s \in Sessions
      /\ freeList' \in Seq(Sessions) /\ Len(freeList') = n - 1
      /\ \A i \in 1..(n - 1) : freeList'[i] = freeList[i + 1]
  BY DEF Types, HasFree
<1> HIDE DEF n
<1>2. \A i \in 1..n : i = 1 \/ (i - 1 \in 1..(n - 1) /\ freeList'[i - 1] = freeList[i])
  BY <1>1
<1>3. \A i \in 1..(n - 1) : i + 1 \in 1..n /\ i + 1 # 1 /\ (i + 1) - 1 = i
  BY <1>1
<1>4. Unlisted(s)'
  <2>1. 1 \in 1..n
    BY <1>1
  <2>2. \A i \in 1..n : freeList[i] = s => i = 1
    BY <1>1, <2>1 DEF Listed, OnceAt
  <2>3. \A i \in 1..(n - 1) : freeList'[i] # s
    BY <1>1, <1>3, <2>2
  <2>4. QED
    BY <1>1, <2>3 DEF Unlisted
<1>5. ASSUME NEW c, c # s PROVE (Listed(c)' <=> Listed(c)) /\ (Unlisted(c)' <=> Unlisted(c))
  <2>1. \A i \in 1..n : freeList[i] = c => i - 1 \in 1..(n - 1) /\ freeList'[i - 1] = c
    BY <1>1, <1>2, <1>5
  <2>2. \A i \in 1..(n - 1) : freeList'[i] = c <=> freeList[i + 1] = c
    BY <1>1
  <2>3. Len(freeList') = n - 1 /\ Len(freeList) = n
    BY <1>1
  <2>4. ASSUME Listed(c) PROVE Listed(c)'
    <3>0. OnceAt(freeList, n, c)
      BY <2>3, <2>4 DEF Listed
    <3>1. PICK i \in 1..n : \A j \in 1..n : freeList[j] = c <=> j = i
      BY <3>0 DEF OnceAt
    <3>2. i - 1 \in 1..(n - 1)
      BY <2>1, <3>1
    <3>3. \A j \in 1..(n - 1) : freeList'[j] = c <=> j + 1 = i
      BY <1>3, <2>2, <3>1
    <3>4. \A j \in 1..(n - 1) : freeList'[j] = c <=> j = i - 1
      BY <1>1, <3>3
    <3>5. PICK k \in 1..(n - 1) : k = i - 1
      BY <3>2
    <3>6. \A j \in 1..(n - 1) : freeList'[j] = c <=> j = k
      BY <3>4, <3>5
    <3>7. OnceAt(freeList', n - 1, c)
      BY <3>5, <3>6 DEF OnceAt
    <3>8. QED
      BY <2>3, <3>7 DEF Listed
  <2>5. ASSUME Listed(c)' PROVE Listed(c)
    <3>0. OnceAt(freeList', n - 1, c)
      BY <2>3, <2>5 DEF Listed
    <3>1. PICK i \in 1..(n - 1) : \A j \in 1..(n - 1) : freeList'[j] = c <=> j = i
      BY <3>0 DEF OnceAt
    <3>2. i + 1 \in 1..n /\ freeList[i + 1] = c
      BY <1>3, <2>2, <3>1
    <3>3. ASSUME NEW j \in 1..n, freeList[j] = c PROVE j = i + 1
      <4>1. j - 1 = i
        BY <2>1, <3>1, <3>3
      <4>2. QED
        BY <1>1, <4>1
    <3>4. OnceAt(freeList, n, c)
      BY <3>2, <3>3 DEF OnceAt
    <3>5. QED
      BY <2>3, <3>4 DEF Listed
  <2>6. Unlisted(c)' <=> Unlisted(c)
    <3>1. ASSUME Unlisted(c) PROVE Unlisted(c)'
      BY <1>3, <2>2, <2>3, <3>1 DEF Unlisted
    <3>2. ASSUME Unlisted(c)' PROVE Unlisted(c)
      BY <2>1, <2>3, <3>2 DEF Unlisted
    <3>3. QED
      BY <3>1, <3>2
  <2>7. QED
    BY <2>4, <2>5, <2>6
<1>6. QED
  BY <1>1, <1>4, <1>5

\* Giving one back.
LEMMA FreeListAppend ==
  ASSUME Types, NEW s \in Sessions, freeList' = Append(freeList, s), Unlisted(s)
  PROVE  /\ freeList' \in Seq(Sessions) /\ Listed(s)'
         /\ \A c : c # s => (Listed(c)' <=> Listed(c)) /\ (Unlisted(c)' <=> Unlisted(c))
<1> DEFINE n == Len(freeList)
<1>1. /\ n \in Nat /\ Len(freeList) = n /\ freeList' \in Seq(Sessions) /\ Len(freeList') = n + 1
      /\ freeList'[n + 1] = s /\ \A i \in 1..n : freeList'[i] = freeList[i]
  BY DEF Types
<1> HIDE DEF n
<1>2. \A i \in 1..(n + 1) : i \in 1..n \/ i = n + 1
  BY <1>1
<1>3. n + 1 \in 1..(n + 1) /\ 1..n \subseteq 1..(n + 1) /\ n + 1 \notin 1..n
  BY <1>1
<1>4. Len(freeList') = n + 1 /\ Len(freeList) = n
  BY <1>1
<1>5. Listed(s)'
  <2>1. \A i \in 1..n : freeList[i] # s
    BY <1>4 DEF Unlisted
  <2>2. \A i \in 1..(n + 1) : freeList'[i] = s <=> i = n + 1
    BY <1>1, <1>2, <2>1
  <2>3. OnceAt(freeList', n + 1, s)
    BY <1>3, <2>2 DEF OnceAt
  <2>4. QED
    BY <1>4, <2>3 DEF Listed
<1>6. ASSUME NEW c, c # s PROVE (Listed(c)' <=> Listed(c)) /\ (Unlisted(c)' <=> Unlisted(c))
  <2>1. \A i \in 1..(n + 1) : freeList'[i] = c <=> i \in 1..n /\ freeList[i] = c
    BY <1>1, <1>2, <1>3, <1>6
  <2>2. ASSUME Listed(c) PROVE Listed(c)'
    <3>0. OnceAt(freeList, n, c)
      BY <1>4, <2>2 DEF Listed
    <3>1. PICK i \in 1..n : \A j \in 1..n : freeList[j] = c <=> j = i
      BY <3>0 DEF OnceAt
    <3>2. i \in 1..(n + 1) /\ \A j \in 1..(n + 1) : freeList'[j] = c <=> j = i
      BY <1>2, <1>3, <2>1, <3>1
    <3>3. OnceAt(freeList', n + 1, c)
      BY <3>2 DEF OnceAt
    <3>4. QED
      BY <1>4, <3>3 DEF Listed
  <2>3. ASSUME Listed(c)' PROVE Listed(c)
    <3>0. OnceAt(freeList', n + 1, c)
      BY <1>4, <2>3 DEF Listed
    <3>1. PICK i \in 1..(n + 1) : \A j \in 1..(n + 1) : freeList'[j] = c <=> j = i
      BY <3>0 DEF OnceAt
    <3>2. i \in 1..n /\ \A j \in 1..n : freeList[j] = c <=> j = i
      BY <1>2, <1>3, <2>1, <3>1
    <3>3. OnceAt(freeList, n, c)
      BY <3>2 DEF OnceAt
    <3>4. QED
      BY <1>4, <3>3 DEF Listed
  <2>4. Unlisted(c)' <=> Unlisted(c)
    <3>1. ASSUME Unlisted(c) PROVE Unlisted(c)'
      BY <1>4, <2>1, <3>1 DEF Unlisted
    <3>2. ASSUME Unlisted(c)' PROVE Unlisted(c)
      BY <1>3, <1>4, <2>1, <3>2 DEF Unlisted
    <3>3. QED
      BY <3>1, <3>2
  <2>5. QED
    BY <2>2, <2>3, <2>4
<1>7. QED
  BY <1>1, <1>5, <1>6

\* What a session is not, where it is in another place.
LEMMA OnePlaceOnly ==
  ASSUME TodoType, NEW s
  PROVE  /\ Listed(s) => ~Unlisted(s)
         /\ Mapped(s) => ~Unmapped(s)
         /\ Held(s) => ~Unheld(s)
BY DEF Listed, OnceAt, Unlisted, Mapped, Unmapped, Held, Unheld, Once, Never

\* A thread about to take a step that holds s is the one that has s.
LEMMA TheHolder ==
  ASSUME ManagerInv, NEW t \in Threads, NEW name \in Holding, At(t, name)
  PROVE  /\ Arg(t) \in Sessions /\ Holds(Head(todo[t]), Arg(t)) /\ InHands(Arg(t))
         /\ name = "register" => sid[Arg(t)] \in Ids
<1>1. /\ Types /\ TodoType /\ StepsInv /\ PlacesInv
  BY DEF ManagerInv
<1>2. todo[t] # <<>> /\ Head(todo[t])[1] = name /\ StepOK(sid, 1, Head(todo[t]))
  BY <1>1, NextStepOK DEF At
<1>3. Arg(t) = Head(todo[t])[2]
  BY DEF Arg
<1>4. Arg(t) \in Sessions /\ (name = "register" => sid[Arg(t)] \in Ids)
  BY <1>1, <1>2, <1>3 DEF StepOK, Holding, Types
<1>5. Holds(Head(todo[t]), Arg(t))
  BY <1>2, <1>3 DEF Holds, Holding
<1>6. ~Unheld(Arg(t))
  <2>1. IsSeq(todo[t])
    BY <1>1 DEF TodoType
  <2>2. Len(todo[t]) \in Nat /\ Len(todo[t]) > 0 /\ Head(todo[t]) = todo[t][1]
    BY <1>2, <2>1, SeqLen DEF IsSeq
  <2>3. ~Never(todo[t], Arg(t))
    BY <1>5, <2>2 DEF Never
  <2>4. QED
    BY <2>3 DEF Unheld
<1>7. QED
  BY <1>1, <1>4, <1>5, <1>6 DEF PlacesInv, Free, InUse, InHands

LEMMA ActiveIs == Types => Active = {s \in Sessions : ~Unmapped(s)}
BY DEF Types, Active, Unmapped, Sessions, None

LEMMA ActiveIsNext == Types' => Active' = {s \in Sessions : ~Unmapped(s)'}
BY DEF Types, Active, Unmapped, Sessions, None

LEMMA ActiveFinite == Types => IsFiniteSet(Active) /\ Cardinality(Active) \in Nat
<1>1. MaxSessions \in Int /\ 1 \in Int
  BY NetSessionAssumption
<1>2. IsFiniteSet(Sessions)
  BY <1>1, FS_Interval DEF Sessions
<1>3. Types => Active \subseteq Sessions
  BY ActiveIs
<1>4. QED
  BY <1>2, <1>3, FS_Subset, FS_CardinalityType

\* CreateAllocate: from the free list into the hands of the caller.
LEMMA CreateAllocateKeeps ==
  ASSUME ManagerInv, NEW t \in Threads, CreateAllocate(t)
  PROVE  ManagerInv'
<1>0. PICK k : k = Arg(t)
  OBVIOUS
<1>1. /\ At(t, "create") /\ conns' = conns
      /\ UNCHANGED <<sessions, bySock, created, destroyed>>
  BY DEF CreateAllocate, kernelVars
<1>2. CASE ~HasFree
  <2>1. Then(t, << <<"dropSocket", k>> >>) /\ UNCHANGED managerVars
    BY <1>0, <1>1, <1>2 DEF CreateAllocate, managerVars
  <2>2. AllPlain(<< <<"dropSocket", k>> >>)
    BY OneStep DEF Plain
  <2>3. QED
    BY <1>1, <2>1, <2>2, PlainThen DEF Holding
<1>3. CASE HasFree
  <2>8. PICK s : s = Head(freeList)
    OBVIOUS
  <2> DEFINE steps == << <<"register", s>>, <<"postRecv", s>>, <<"associate", s, k>> >>
  <2>1. Then(t, steps) /\ PoolAllocate(s)
    BY <1>0, <1>3, <2>8 DEF CreateAllocate
  <2>2. TodoChanges(t, steps) /\ todo[t] # <<>> /\ Head(todo[t])[1] = "create"
    BY <1>1, <2>1, ThenChanges
  <2>3. /\ freeList' = Tail(freeList) /\ freeSet' = freeSet \ {s}
        /\ sid' = [sid EXCEPT ![s] = idGen] /\ idGen' = idGen + 1
    BY <2>1 DEF PoolAllocate
  <2>4. /\ steps \in Seq({<<"register", s>>, <<"postRecv", s>>, <<"associate", s, k>>}) /\ Len(steps) = 3
        /\ steps[1] = <<"register", s>> /\ steps[2] = <<"postRecv", s>>
        /\ steps[3] = <<"associate", s, k>>
    OBVIOUS
  <2>5. /\ Types /\ TodoType /\ StepsInv /\ IdsInv /\ EnoughIds /\ PlacesInv /\ Balance
    BY DEF ManagerInv
  <2>6. s \in Sessions /\ ~Unlisted(s)
    <3>1. Len(freeList) \in Nat /\ Len(freeList) > 0 /\ freeList[1] = s /\ s \in Sessions
      BY <1>3, <2>5, <2>8 DEF Types, HasFree
    <3>2. QED
      BY <3>1 DEF Unlisted
  <2>7. Free(s)
    BY <2>5, <2>6 DEF PlacesInv, InUse, InHands
  <2> HIDE DEF steps
  <2>9. /\ freeList' \in Seq(Sessions) /\ Unlisted(s)'
        /\ \A c : c # s => (Listed(c)' <=> Listed(c)) /\ (Unlisted(c)' <=> Unlisted(c))
    BY <1>3, <2>3, <2>5, <2>7, <2>8, FreeListHead DEF Free
  <2>10. IsSeq(steps) /\ \A i \in 1..Len(steps) : i = 1 \/ i = 2 \/ i = 3
    BY <2>4 DEF IsSeq
  <2>11. idGen \in Ids /\ EnoughIds'
    <3>1. t \in Creating
      BY <1>1 DEF Creating
    <3>2. Creating' = Creating \ {t}
      <4>1. \A i \in 1..Len(steps) : steps[i][1] # "create"
        BY <2>4, <2>10
      <4>2. QED
        BY <2>2, <2>5, <2>10, <4>1, CreatingIs
    <3>3. /\ IsFiniteSet(Creating') /\ Cardinality(Creating') = Cardinality(Creating) - 1
          /\ Cardinality(Creating') \in Nat
      BY <2>5, <3>1, <3>2, CreatingFewer
    <3>4. Cardinality(Creating) \in Nat
      BY <2>5, FS_CardinalityType DEF EnoughIds
    <3>5. idGen <= conns
      BY <2>5, <3>3, <3>4 DEF EnoughIds, Types
    <3>6. idGen \in Ids
      BY <2>5, <3>5, NetSessionAssumption DEF Types, Ids
    <3>7. EnoughIds'
      BY <1>1, <2>3, <2>5, <3>3, <3>4 DEF EnoughIds, Types
    <3>8. QED
      BY <3>6, <3>7
  <2>12. sid'[s] = idGen /\ \A c \in Sessions \ {s} : sid'[c] = sid[c]
    BY <2>3, <2>5, <2>6 DEF Types
  <2>13. TodoType' /\ StepsInv'
    <3>1. idGen # None
      BY <2>5 DEF Types, None
    <3>2. \A c \in Sessions : sid[c] # None => sid'[c] # None
      BY <2>12, <3>1
    <3>3. \A i \in 1..Len(steps) : StepOK(sid', i, steps[i])
      BY <2>4, <2>6, <2>10, <2>12, <3>1 DEF StepOK
    <3>4. QED
      BY <2>2, <2>5, <2>10, <3>2, <3>3, TodoChange, StepsKeep
  <2>14. InHands(s)'
    <3>1. Once(steps, s)
      BY <2>4, <2>10 DEF Once, Holds
    <3>2. Held(s)'
      BY <2>2, <2>5, <2>7, <2>10, <3>1, HeldGains DEF Free
    <3>3. Unmapped(s)'
      BY <1>1, <2>7 DEF Free, Unmapped
    <3>4. QED
      BY <2>9, <3>2, <3>3 DEF InHands
  <2>15. PlacesInv'
    <3>1. ASSUME NEW c \in Sessions, c # s PROVE Free(c)' \/ InUse(c)' \/ InHands(c)'
      <4>1. Never(steps, c) /\ ~Holds(Head(todo[t]), c)
        BY <2>2, <2>4, <2>10, <3>1 DEF Never, Holds
      <4>2. (Held(c)' <=> Held(c)) /\ (Unheld(c)' <=> Unheld(c))
        BY <2>2, <2>5, <2>10, <4>1, HeldSame
      <4>3. (Mapped(c)' <=> Mapped(c)) /\ (Unmapped(c)' <=> Unmapped(c))
        BY <1>1 DEF Mapped, Unmapped
      <4>4. QED
        BY <2>5, <2>9, <3>1, <4>2, <4>3 DEF PlacesInv, Free, InUse, InHands
    <3>2. QED
      BY <2>14, <3>1 DEF PlacesInv
  <2>16. Types'
    <3>1. freeSet' = {c \in Sessions : ~Unlisted(c)'}
      BY <2>3, <2>5, <2>9 DEF Types
    <3>2. sid' \in [Sessions -> Ids \cup {None}]
      BY <2>3, <2>5, <2>11 DEF Types
    <3>2a. idGen' \in Nat \ {0}
      BY <2>3, <2>5 DEF Types
    <3>3. QED
      BY <1>1, <2>5, <2>9, <3>1, <3>2, <3>2a DEF Types
  <2>17. IdsInv'
    <3>1. \A c \in Sessions : sid[c] < idGen /\ sid[c] \in Nat
      BY <2>5, NetSessionAssumption DEF IdsInv, Types, Ids, None
    <3>2. \A c \in Sessions : sid'[c] < idGen'
      BY <2>3, <2>5, <2>12, <3>1 DEF Types
    <3>3. ASSUME NEW b \in Sessions, NEW c \in Sessions, sid'[b] = sid'[c], sid'[c] # None PROVE b = c
      <4>1. \A d \in Sessions \ {s} : sid'[d] # idGen
        BY <2>5, <2>12, <3>1 DEF Types
      <4>2. CASE b = s \/ c = s
        BY <2>12, <3>3, <4>1, <4>2
      <4>3. CASE b # s /\ c # s
        BY <2>5, <2>12, <3>3, <4>3 DEF IdsInv
      <4>4. QED
        BY <4>2, <4>3
    <3>4. ASSUME NEW i \in Ids, sessions'[i] # None PROVE sid'[sessions'[i]] = i
      <4>1. sessions[i] # s /\ sessions[i] \in Sessions
        BY <1>1, <2>5, <2>7, <3>4 DEF Free, Unmapped, Types
      <4>2. QED
        BY <1>1, <2>5, <2>12, <3>4, <4>1 DEF IdsInv
    <3>5. QED
      BY <3>2, <3>3, <3>4 DEF IdsInv
  <2>18. Balance'
    BY <1>1, <2>5 DEF Balance, Active
  <2>19. QED
    BY <2>11, <2>13, <2>15, <2>16, <2>17, <2>18 DEF ManagerInv
<1>4. QED
  BY <1>2, <1>3

\* CreateRegister: from the caller's hands into the map, where no session has
\* its id.
LEMMA CreateRegisterKeeps ==
  ASSUME ManagerInv, NEW t \in Threads, CreateRegister(t)
  PROVE  ManagerInv'
<1>0. PICK s, i : s = Arg(t) /\ i = sid[s]
  OBVIOUS
<1>1. /\ At(t, "register") /\ conns' = conns /\ Then(t, <<>>)
      /\ UNCHANGED <<freeList, freeSet, sid, idGen, destroyed>>
      /\ sessions' = [sessions EXCEPT ![i] = s] /\ created' = created + 1
  BY <1>0 DEF CreateRegister, kernelVars
<1>2. /\ Types /\ TodoType /\ StepsInv /\ IdsInv /\ EnoughIds /\ PlacesInv /\ Balance
  BY DEF ManagerInv
<1>3. TodoChanges(t, <<>>) /\ todo[t] # <<>> /\ Head(todo[t])[1] = "register"
  BY <1>1, ThenChanges
<1>4. s \in Sessions /\ Holds(Head(todo[t]), s) /\ InHands(s) /\ i \in Ids
  BY <1>0, <1>1, TheHolder DEF Holding
<1>4a. \A c : Holds(Head(todo[t]), c) => c = s
  BY <1>0 DEF Holds, Arg
<1>5. /\ IsSeq(<<>>) /\ (\A c : Never(<<>>, c)) /\ \A j \in 1..Len(<<>>) : FALSE
  BY DEF IsSeq, Never
<1>6. sessions[i] = None
  <2>1. SUFFICES ASSUME sessions[i] # None PROVE FALSE
    OBVIOUS
  <2>2. sessions[i] \in Sessions /\ sid[sessions[i]] = i /\ i # None
    BY <1>2, <1>4, <2>1 DEF Types, IdsInv, Ids, None
  <2>3. sessions[i] = s
    BY <1>0, <1>2, <1>4, <2>2 DEF IdsInv
  <2>4. QED
    BY <1>4, <2>3 DEF InHands, Unmapped
<1>7. s # None /\ sessions'[i] = s /\ \A j \in Ids \ {i} : sessions'[j] = sessions[j]
  BY <1>1, <1>2, <1>4 DEF Types, Sessions, None
<1>8. InUse(s)'
  <2>1. \A j \in Ids : sessions'[j] = s <=> j = i
    BY <1>4, <1>7 DEF InHands, Unmapped
  <2>2. Mapped(s)'
    BY <1>4, <2>1 DEF Mapped
  <2>3. Unheld(s)'
    BY <1>2, <1>3, <1>4, <1>5, HeldLoses DEF InHands
  <2>4. Unlisted(s)'
    BY <1>1, <1>4 DEF InHands, Unlisted
  <2>5. QED
    BY <2>2, <2>3, <2>4 DEF InUse
<1>9. ASSUME NEW c \in Sessions, c # s
      PROVE  (Mapped(c)' <=> Mapped(c)) /\ (Unmapped(c)' <=> Unmapped(c))
  <2>1. \A j \in Ids : sessions'[j] = c <=> sessions[j] = c
    BY <1>6, <1>7, <1>9 DEF Sessions, None
  <2>2. QED
    BY <2>1 DEF Mapped, Unmapped
<1>10. PlacesInv'
  <2>1. ASSUME NEW c \in Sessions, c # s PROVE Free(c)' \/ InUse(c)' \/ InHands(c)'
    <3>1. ~Holds(Head(todo[t]), c)
      BY <1>4a, <2>1
    <3>2. (Held(c)' <=> Held(c)) /\ (Unheld(c)' <=> Unheld(c))
      BY <1>2, <1>3, <1>5, <3>1, HeldSame
    <3>3. (Listed(c)' <=> Listed(c)) /\ (Unlisted(c)' <=> Unlisted(c))
      BY <1>1 DEF Listed, Unlisted
    <3>4. QED
      BY <1>2, <1>9, <2>1, <3>2, <3>3 DEF PlacesInv, Free, InUse, InHands
  <2>2. QED
    BY <1>8, <2>1 DEF PlacesInv
<1>11. Types'
  BY <1>1, <1>2, <1>4 DEF Types, Unlisted
<1>12. TodoType' /\ StepsInv'
  BY <1>1, <1>2, <1>3, <1>5, TodoChange, StepsKeep
<1>13. IdsInv'
  <2>1. \A j \in Ids : sessions'[j] # None => sid[sessions'[j]] = j
    BY <1>0, <1>2, <1>7 DEF IdsInv
  <2>2. QED
    BY <1>1, <1>2, <2>1 DEF IdsInv
<1>14. EnoughIds'
  <2>1. Creating' = Creating \ {t}
    BY <1>2, <1>3, <1>5, CreatingIs
  <2>2. t \notin Creating
    BY <1>3 DEF Creating, At
  <2>3. Creating' = Creating
    BY <2>1, <2>2
  <2>4. QED
    BY <1>1, <1>2, <2>3 DEF EnoughIds
<1>15. Balance'
  <2>1. Active' = Active \cup {s} /\ s \notin Active
    <3>1. Active = {c \in Sessions : ~Unmapped(c)} /\ Active' = {c \in Sessions : ~Unmapped(c)'}
      BY <1>2, <1>11, ActiveIs, ActiveIsNext
    <3>2. Unmapped(s) /\ ~Unmapped(s)'
      BY <1>4, <1>8 DEF InHands, InUse, Mapped, Unmapped
    <3>3. QED
      BY <1>4, <1>9, <3>1, <3>2
  <2>2. Cardinality(Active') = Cardinality(Active) + 1 /\ Cardinality(Active) \in Nat
    BY <1>2, <2>1, ActiveFinite, FS_AddElement
  <2>3. QED
    BY <1>1, <1>2, <2>2 DEF Balance, Types
<1>16. QED
  BY <1>10, <1>11, <1>12, <1>13, <1>14, <1>15 DEF ManagerInv

\* DestroyErase: from the map into the hands of the one that found it there.
LEMMA DestroyEraseKeeps ==
  ASSUME ManagerInv, NEW t \in Threads, DestroyErase(t)
  PROVE  ManagerInv'
<1>0. PICK i, s : i = Arg(t) /\ s = sessions[i]
  OBVIOUS
<1>1. /\ At(t, "destroy") /\ conns' = conns
      /\ UNCHANGED <<freeList, freeSet, sid, idGen, created>>
  BY DEF DestroyErase, kernelVars
<1>2. /\ Types /\ TodoType /\ StepsInv /\ IdsInv /\ EnoughIds /\ PlacesInv /\ Balance
  BY DEF ManagerInv
<1>3. i \in Ids
  BY <1>0, <1>1, <1>2, NextStepOK DEF At, Arg, StepOK
<1>4. CASE s = None
  <2>1. Then(t, <<>>) /\ UNCHANGED managerVars
    BY <1>0, <1>1, <1>4 DEF DestroyErase, managerVars
  <2>2. QED
    BY <1>1, <2>1, NoStep, PlainThen DEF Holding
<1>5. CASE s # None
  <2> DEFINE steps == << <<"close", s>>, <<"release", s>> >>
  <2>1. /\ Then(t, steps) /\ destroyed' = destroyed + 1
        /\ sessions' = [sessions EXCEPT ![i] = None]
    BY <1>0, <1>5 DEF DestroyErase, Erased
  <2>2. TodoChanges(t, steps) /\ todo[t] # <<>> /\ Head(todo[t])[1] = "destroy"
    BY <1>1, <2>1, ThenChanges
  <2>3. /\ steps \in Seq({<<"close", s>>, <<"release", s>>}) /\ Len(steps) = 2
        /\ steps[1] = <<"close", s>> /\ steps[2] = <<"release", s>>
    OBVIOUS
  <2> HIDE DEF steps
  <2>4. IsSeq(steps) /\ \A j \in 1..Len(steps) : j = 1 \/ j = 2
    BY <2>3 DEF IsSeq
  <2>5. s \in Sessions /\ sessions[i] = s
    BY <1>0, <1>2, <1>3, <1>5 DEF Types
  <2>6. InUse(s)
    BY <1>2, <1>3, <2>5 DEF PlacesInv, Free, InHands, Unmapped
  <2>7. \A j \in Ids : sessions[j] = s <=> j = i
    BY <1>3, <2>5, <2>6 DEF InUse, Mapped
  <2>8. sessions'[i] = None /\ \A j \in Ids \ {i} : sessions'[j] = sessions[j]
    BY <1>2, <1>3, <2>1 DEF Types
  <2>9. InHands(s)'
    <3>1. Once(steps, s)
      BY <2>3, <2>4 DEF Once, Holds
    <3>2. Held(s)'
      BY <1>2, <2>2, <2>4, <2>6, <3>1, HeldGains DEF InUse
    <3>3. Unmapped(s)'
      BY <1>5, <2>7, <2>8 DEF Unmapped
    <3>4. Unlisted(s)'
      BY <1>1, <2>6 DEF InUse, Unlisted
    <3>5. QED
      BY <3>2, <3>3, <3>4 DEF InHands
  <2>10. ASSUME NEW c \in Sessions, c # s
         PROVE  (Mapped(c)' <=> Mapped(c)) /\ (Unmapped(c)' <=> Unmapped(c))
    <3>1. \A j \in Ids : sessions'[j] = c <=> sessions[j] = c
      BY <2>5, <2>8, <2>10 DEF Sessions, None
    <3>2. QED
      BY <3>1 DEF Mapped, Unmapped
  <2>11. PlacesInv'
    <3>1. ASSUME NEW c \in Sessions, c # s PROVE Free(c)' \/ InUse(c)' \/ InHands(c)'
      <4>1. Never(steps, c) /\ ~Holds(Head(todo[t]), c)
        BY <2>2, <2>3, <2>4, <3>1 DEF Never, Holds
      <4>2. (Held(c)' <=> Held(c)) /\ (Unheld(c)' <=> Unheld(c))
        BY <1>2, <2>2, <2>4, <4>1, HeldSame
      <4>3. (Listed(c)' <=> Listed(c)) /\ (Unlisted(c)' <=> Unlisted(c))
        BY <1>1 DEF Listed, Unlisted
      <4>4. QED
        BY <1>2, <2>10, <3>1, <4>2, <4>3 DEF PlacesInv, Free, InUse, InHands
    <3>2. QED
      BY <2>9, <3>1 DEF PlacesInv
  <2>12. Types'
    <3>1. sessions' \in [Ids -> Sessions \cup {None}]
      BY <1>2, <2>1 DEF Types
    <3>2. destroyed' \in Nat
      BY <1>2, <2>1 DEF Types
    <3>3. QED
      BY <1>1, <1>2, <3>1, <3>2 DEF Types, Unlisted
  <2>13. TodoType' /\ StepsInv'
    <3>1. \A j \in 1..Len(steps) : StepOK(sid', j, steps[j])
      BY <2>3, <2>4, <2>5 DEF StepOK
    <3>2. QED
      BY <1>1, <1>2, <2>2, <2>4, <3>1, TodoChange, StepsKeep
  <2>14. IdsInv'
    <3>1. \A j \in Ids : sessions'[j] # None => sid[sessions'[j]] = j
      BY <1>2, <2>8 DEF IdsInv
    <3>2. QED
      BY <1>1, <1>2, <3>1 DEF IdsInv
  <2>15. EnoughIds'
    <3>1. Creating' = Creating \ {t}
      <4>1. \A j \in 1..Len(steps) : steps[j][1] # "create"
        BY <2>3, <2>4
      <4>2. QED
        BY <1>2, <2>2, <2>4, <4>1, CreatingIs
    <3>2. t \notin Creating
      BY <2>2 DEF Creating, At
    <3>3. Creating' = Creating
      BY <3>1, <3>2
    <3>4. QED
      BY <1>1, <1>2, <3>3 DEF EnoughIds
  <2>16. Balance'
    <3>1. Active' = Active \ {s} /\ s \in Active
      <4>1. Active = {c \in Sessions : ~Unmapped(c)} /\ Active' = {c \in Sessions : ~Unmapped(c)'}
        BY <1>2, <2>12, ActiveIs, ActiveIsNext
      <4>2. ~Unmapped(s) /\ Unmapped(s)'
        BY <1>3, <2>5, <2>9 DEF InHands, Unmapped
      <4>3. QED
        BY <2>5, <2>10, <4>1, <4>2
    <3>2. Cardinality(Active') = Cardinality(Active) - 1 /\ Cardinality(Active) \in Nat
      BY <1>2, <3>1, ActiveFinite, FS_RemoveElement
    <3>3. QED
      BY <1>1, <1>2, <2>1, <3>2 DEF Balance, Types
  <2>17. QED
    BY <2>11, <2>12, <2>13, <2>14, <2>15, <2>16 DEF ManagerInv
<1>6. QED
  BY <1>4, <1>5

\* DestroyRelease: from those hands back into the free list.
LEMMA DestroyReleaseKeeps ==
  ASSUME ManagerInv, NEW t \in Threads, DestroyRelease(t)
  PROVE  ManagerInv'
<1>0. PICK s : s = Arg(t)
  OBVIOUS
<1>1. /\ At(t, "release") /\ conns' = conns /\ Then(t, <<>>)
      /\ UNCHANGED <<sid, idGen, sessions, bySock, created, destroyed>>
      /\ freeList' = Append(freeList, s) /\ freeSet' = freeSet \cup {s}
  BY <1>0 DEF DestroyRelease, PoolRelease, kernelVars
<1>2. /\ Types /\ TodoType /\ StepsInv /\ IdsInv /\ EnoughIds /\ PlacesInv /\ Balance
  BY DEF ManagerInv
<1>3. TodoChanges(t, <<>>) /\ todo[t] # <<>> /\ Head(todo[t])[1] = "release"
  BY <1>1, ThenChanges
<1>4. s \in Sessions /\ Holds(Head(todo[t]), s) /\ InHands(s)
  BY <1>0, <1>1, TheHolder DEF Holding
<1>5. \A c : Holds(Head(todo[t]), c) => c = s
  BY <1>0 DEF Holds, Arg
<1>6. /\ IsSeq(<<>>) /\ (\A c : Never(<<>>, c)) /\ \A j \in 1..Len(<<>>) : FALSE
  BY DEF IsSeq, Never
<1>7. /\ freeList' \in Seq(Sessions) /\ Listed(s)'
      /\ \A c : c # s => (Listed(c)' <=> Listed(c)) /\ (Unlisted(c)' <=> Unlisted(c))
  BY <1>1, <1>2, <1>4, FreeListAppend DEF InHands
<1>8. \A c : (Mapped(c)' <=> Mapped(c)) /\ (Unmapped(c)' <=> Unmapped(c))
  BY <1>1 DEF Mapped, Unmapped
<1>9. Free(s)'
  <2>1. Unheld(s)'
    BY <1>2, <1>3, <1>4, <1>6, HeldLoses DEF InHands
  <2>2. QED
    BY <1>4, <1>7, <1>8, <2>1 DEF Free, InHands
<1>10. PlacesInv'
  <2>1. ASSUME NEW c \in Sessions, c # s PROVE Free(c)' \/ InUse(c)' \/ InHands(c)'
    <3>1. ~Holds(Head(todo[t]), c)
      BY <1>5, <2>1
    <3>2. (Held(c)' <=> Held(c)) /\ (Unheld(c)' <=> Unheld(c))
      BY <1>2, <1>3, <1>6, <3>1, HeldSame
    <3>3. QED
      BY <1>2, <1>7, <1>8, <2>1, <3>2 DEF PlacesInv, Free, InUse, InHands
  <2>2. QED
    BY <1>9, <2>1 DEF PlacesInv
<1>11. TodoType' /\ StepsInv'
  BY <1>1, <1>2, <1>3, <1>6, TodoChange, StepsKeep
<1>12. Types'
  <2>1. ~Unlisted(s)'
    BY <1>7 DEF Listed, OnceAt, Unlisted
  <2>2. freeSet' = {c \in Sessions : ~Unlisted(c)'}
    BY <1>1, <1>2, <1>4, <1>7, <2>1 DEF Types
  <2>3. QED
    BY <1>1, <1>2, <1>7, <2>2 DEF Types
<1>13. IdsInv'
  BY <1>1, <1>2 DEF IdsInv
<1>14. EnoughIds'
  <2>1. Creating' = Creating \ {t}
    BY <1>2, <1>3, <1>6, CreatingIs
  <2>2. t \notin Creating
    BY <1>3 DEF Creating, At
  <2>3. Creating' = Creating
    BY <2>1, <2>2
  <2>4. QED
    BY <1>1, <1>2, <2>3 DEF EnoughIds
<1>15. Balance'
  BY <1>1, <1>2 DEF Balance, Active
<1>16. QED
  BY <1>10, <1>11, <1>12, <1>13, <1>14, <1>15 DEF ManagerInv

-----------------------------------------------------------------------------
(* The invariant.                                                          *)

LEMMA ManagerStart == Init => ManagerInv
<1> SUFFICES ASSUME Init PROVE ManagerInv
  OBVIOUS
<1>1. /\ freeList = [i \in 1..MaxSessions |-> i] /\ freeSet = Sessions
      /\ sid = [s \in Sessions |-> None] /\ idGen = 1 /\ sessions = [i \in Ids |-> None]
      /\ created = 0 /\ destroyed = 0 /\ conns = 0 /\ todo = [t \in Threads |-> <<>>]
  BY DEF Init, NetSessionInit
<1>2. MaxSessions \in Nat /\ MaxConns \in Nat
  BY NetSessionAssumption
<1>3. freeList \in Seq(Sessions) /\ Len(freeList) = MaxSessions
  <2>1. freeList \in [1..MaxSessions -> Sessions]
    BY <1>1 DEF Sessions
  <2>2. QED
    BY <1>2, <2>1
<1>4. \A i \in 1..MaxSessions : freeList[i] = i
  BY <1>1
<1>5. ASSUME NEW s \in Sessions PROVE Free(s) /\ ~Unlisted(s)
  <2>1. s \in 1..MaxSessions /\ \A j \in 1..MaxSessions : freeList[j] = s <=> j = s
    BY <1>4 DEF Sessions
  <2>2. Listed(s) /\ ~Unlisted(s)
    BY <1>3, <2>1 DEF Listed, OnceAt, Unlisted
  <2>3. Unmapped(s)
    BY <1>1 DEF Unmapped, Sessions, None
  <2>4. \A t \in Threads : Len(todo[t]) = 0
    BY <1>1
  <2>5. Unheld(s)
    BY <2>4 DEF Unheld, Never
  <2>6. QED
    BY <2>2, <2>3, <2>5 DEF Free
<1>6. Types
  BY <1>1, <1>2, <1>3, <1>5 DEF Types
<1>7. TodoType
  BY <1>1 DEF TodoType, IsSeq
<1>8. StepsInv
  <2>1. \A t \in Threads : Len(todo[t]) = 0
    BY <1>1
  <2>2. QED
    BY <2>1 DEF StepsInv
<1>9. IdsInv
  BY <1>1 DEF IdsInv, None
<1>10. EnoughIds
  <2>1. Creating = {}
    BY <1>1 DEF Creating, At
  <2>2. QED
    BY <1>1, <2>1, FS_EmptySet DEF EnoughIds
<1>11. Balance
  <2>1. Active = {}
    BY <1>1 DEF Active
  <2>2. QED
    BY <1>1, <2>1, FS_EmptySet DEF Balance
<1>12. QED
  BY <1>5, <1>6, <1>7, <1>8, <1>9, <1>10, <1>11 DEF ManagerInv, PlacesInv

\* Steps of nobody, or the kernel's: neither the steps left nor the manager's
\* variables change.
LEMMA ManagerStill ==
  ASSUME ManagerInv, UNCHANGED <<managerVars, todo, conns>>
  PROVE  ManagerInv'
<1>1. UNCHANGED <<sid, idGen, freeList, freeSet, sessions, bySock, created, destroyed, todo, conns>>
  BY DEF managerVars
<1>2. Types' /\ TodoType' /\ StepsInv' /\ IdsInv'
  BY <1>1 DEF ManagerInv, Types, TodoType, StepsInv, IdsInv, Unlisted
<1>3. EnoughIds'
  <2>1. Creating' = Creating
    BY <1>1 DEF Creating, At
  <2>2. QED
    BY <1>1, <2>1 DEF ManagerInv, EnoughIds
<1>4. PlacesInv'
  BY <1>1 DEF ManagerInv, PlacesInv, Free, InUse, InHands, Listed, Unlisted, Mapped, Unmapped, Held, Unheld
<1>5. Balance'
  BY <1>1 DEF ManagerInv, Balance, Active
<1>6. QED
  BY <1>2, <1>3, <1>4, <1>5 DEF ManagerInv

LEMMA ManagerStep == ManagerInv /\ [Next]_vars => ManagerInv'
<1> SUFFICES ASSUME ManagerInv, [Next]_vars PROVE ManagerInv'
  OBVIOUS
<1>1. ASSUME NEW t \in Callers,
             \/ Accepted(t) \/ FindAndSend(t) \/ Broadcast(t) \/ FindAndClose(t) \/ CallDestroy(t)
      PROVE  ManagerInv'
  <2>1. t \in Threads
    BY DEF Threads
  <2>2. QED
    BY <1>1, <2>1, AcceptedKeeps, CallsKeep
<1>2. ASSUME NEW t \in Callers, CallerStep(t) PROVE ManagerInv'
  <2>1. t \in Threads
    BY DEF Threads
  <2>2. CASE CreateAllocate(t) \/ CreateRegister(t)
    BY <2>1, <2>2, CreateAllocateKeeps, CreateRegisterKeeps
  <2>3. CASE Associate(t) \/ DropSocket(t) \/ SendToNext(t)
    BY <2>1, <2>3, AssociateKeeps, DropSocketKeeps, SendToNextKeeps
  <2>4. CASE DestroyErase(t) \/ DestroyRelease(t)
    BY <2>1, <2>4, DestroyEraseKeeps, DestroyReleaseKeeps
  <2>5. CASE SessionStep(t) /\ UNCHANGED managerVars
    BY <2>1, <2>5, SessionStepKeeps
  <2>6. QED
    BY <1>2, <2>2, <2>3, <2>4, <2>5 DEF CallerStep
<1>3. ASSUME NEW w \in Workers, WorkerStep(w) PROVE ManagerInv'
  BY <1>3, WorkerStepKeeps
<1>4. ASSUME NEW o \in Ovs, Complete(o), UNCHANGED managerVars PROVE ManagerInv'
  <2>1. UNCHANGED <<managerVars, todo, conns>>
    BY <1>4 DEF Complete
  <2>2. QED
    BY <2>1, ManagerStill
<1>5. CASE UNCHANGED vars
  <2>1. UNCHANGED <<managerVars, todo, conns>>
    BY <1>5 DEF vars, kernelVars
  <2>2. QED
    BY <2>1, ManagerStill
<1>6. QED
  BY <1>1, <1>2, <1>3, <1>4, <1>5 DEF Next

LEMMA ManagerInvHolds == Spec => []ManagerInv
BY ManagerStart, ManagerStep, PTL DEF Spec

LEMMA PlacesAreOne == ManagerInv => OnePlace
<1> SUFFICES ASSUME ManagerInv PROVE OnePlace
  OBVIOUS
<1>1. /\ freeList \in Seq(Sessions) /\ DOMAIN freeList = 1..Len(freeList)
      /\ freeSet = {s \in Sessions : ~Unlisted(s)} /\ PlacesInv
      /\ \A t \in Threads : DOMAIN todo[t] = 1..Len(todo[t])
  BY SeqLen DEF ManagerInv, Types, TodoType
<1>2. freeSet = Range(freeList)
  BY <1>1 DEF Range, Unlisted
<1>3. ASSUME NEW s \in Sessions PROVE \E p \in Places(s) : Places(s) = {p}
  <2> DEFINE listed == {<<"free", i>> : i \in {j \in DOMAIN freeList : freeList[j] = s}}
             mapped == {<<"active", i>> : i \in {j \in Ids : sessions[j] = s}}
             of(t)  == {<<"thread", t, i>> : i \in {j \in DOMAIN todo[t] : Holds(todo[t][j], s)}}
             held   == UNION {of(t) : t \in Threads}
  <2>1. Places(s) = listed \cup mapped \cup held
    BY DEF Places
  <2>2. /\ Unlisted(s) => listed = {}
        /\ Unmapped(s) => mapped = {}
    BY <1>1 DEF Unlisted, Unmapped
  <2>3. \A t \in Threads : Never(todo[t], s) => of(t) = {}
    BY <1>1 DEF Never
  <2>4. Unheld(s) => held = {}
    BY <2>3 DEF Unheld
  <2>5. ASSUME Listed(s) PROVE \E p : listed = {p}
    <3>1. PICK i \in 1..Len(freeList) : \A j \in 1..Len(freeList) : freeList[j] = s <=> j = i
      BY <2>5 DEF Listed, OnceAt
    <3>2. {j \in 1..Len(freeList) : freeList[j] = s} = {i}
      BY <3>1
    <3>3. listed = {<<"free", i>>}
      BY <1>1, <3>2
    <3>4. QED
      BY <3>3
  <2>6. ASSUME Mapped(s) PROVE \E p : mapped = {p}
    <3>1. PICK i \in Ids : \A j \in Ids : sessions[j] = s <=> j = i
      BY <2>6 DEF Mapped
    <3>2. {j \in Ids : sessions[j] = s} = {i}
      BY <3>1
    <3>3. mapped = {<<"active", i>>}
      BY <3>2
    <3>4. QED
      BY <3>3
  <2>7. ASSUME Held(s) PROVE \E p : held = {p}
    <3>1. PICK t \in Threads : Once(todo[t], s) /\ \A u \in Threads \ {t} : Never(todo[u], s)
      BY <2>7 DEF Held
    <3>2. PICK i \in 1..Len(todo[t]) : \A j \in 1..Len(todo[t]) : Holds(todo[t][j], s) <=> j = i
      BY <3>1 DEF Once
    <3>3. {j \in 1..Len(todo[t]) : Holds(todo[t][j], s)} = {i}
      BY <3>2
    <3>4. of(t) = {<<"thread", t, i>>}
      BY <1>1, <3>3
    <3>5. \A u \in Threads \ {t} : of(u) = {}
      BY <2>3, <3>1
    <3> HIDE DEF of
    <3>6. held = {<<"thread", t, i>>}
      BY <3>4, <3>5
    <3>7. QED
      BY <3>6
  <2> HIDE DEF listed, mapped, held
  <2>8. \E p : Places(s) = {p}
    BY <1>1, <2>1, <2>2, <2>4, <2>5, <2>6, <2>7 DEF PlacesInv, Free, InUse, InHands
  <2>9. QED
    BY <2>8
<1>4. QED
  BY <1>2, <1>3 DEF OnePlace

\* A session is at any time in exactly one place, the free list, the map or the
\* hands of one thread, whoever creates and destroys at the same time
\* (SessionManager::CreateSession, DestroySession, SessionPool).
THEOREM SessionInOnePlace == Spec => []OnePlace
BY ManagerInvHolds, PlacesAreOne, PTL

\* What sessions_ has under an id is the session with that id, and the counters
\* agree with the map (SessionManager::Find, created_, destroyed_).
THEOREM FoundUnderItsId == Spec => []ManagerAgrees
<1>1. ManagerInv => ManagerAgrees
  BY DEF ManagerInv, IdsInv, Balance, ManagerAgrees
<1>2. QED
  BY <1>1, ManagerInvHolds, PTL

-----------------------------------------------------------------------------
(* Sending and closing.  A session is Linked while its socket is open and  *)
(* stands for the connection the session serves.  On a session's first use *)
(* this ends and does not begin again.                                     *)

Linked(s) == sock[s] # None /\ conn[sock[s]] = serves[s]

\* Step x is among those of q.
In(q, x) == \E i \in 1..Len(q) : q[i] = x

\* Sessions are given out in turn the first time.
FreshInv ==
  /\ \A s \in Sessions : sid[s] = None <=> idGen <= s
  /\ \A i \in 1..(MaxSessions + 1 - idGen) :
       i <= Len(freeList) /\ freeList[i] = idGen + i - 1

\* A session that was never given out is as it was made; one that was serves or
\* served a connection of its own.
UseInv ==
  /\ sock \in [Sessions -> Sockets \cup {None}] /\ conn \in [Sockets -> 0..conns]
  /\ serves \in [Sessions -> 0..conns]
  /\ closing \in [Sessions -> BOOLEAN] /\ sending \in [Sessions -> BOOLEAN]
  /\ \A s \in Sessions : sid[s] = None =>
       sock[s] = None /\ ~closing[s] /\ ~sending[s] /\ serves[s] = None
  /\ \A s \in Sessions : sid[s] # None => serves[s] # None
  /\ \A r, s \in Sessions : serves[r] = serves[s] /\ serves[r] # None => r = s

\* Each connection that is yet to be created for is a new one.
NewInv ==
  /\ \A t \in Creating : Arg2(t) \in 1..conns /\ \A s \in Sessions : serves[s] # Arg2(t)
  /\ \A t, u \in Creating : Arg2(t) = Arg2(u) => t = u

\* What the steps left are about is in use.
AboutSession == {"closeSocket", "clearSock", "close", "postRecv", "recv", "resetRx", "clearRx",
                 "fillRx", "moveRx", "sendDone", "register", "release", "associate"}
StepAbout(x) ==
  /\ x[1] \in AboutSession => x[2] \in Sessions /\ sid[x[2]] # None
  /\ x[1] \in {"sendDone", "release"} => x = <<x[1], x[2]>>
  /\ x[1] = "sends" => \A s \in x[2] : s \in Sessions /\ sid[s] # None
  /\ x[1] \in {"closeHandle", "create"} => x[2] \in Sockets

\* A worker's close comes after the socket is closed, a release after the close, and
\* sendDone is all its thread, a worker, has to do.
StepAfter(t, q, i) ==
  /\ q[i][1] = "sendDone" => Len(q) = 1 /\ t \in Workers
  /\ \A s \in Sessions :
       /\ t \in Workers /\ q[i] = <<"close", s>> /\ FirstUse(s) /\ Linked(s)
            => i > 1 /\ q[i - 1] \in {<<"closeSocket", s>>, <<"clearSock", s>>}
       /\ q[i] = <<"release", s>> => closing[s] \/ (i > 1 /\ q[i - 1] = <<"close", s>>)

FineInv ==
  \A t \in Threads : \A i \in 1..Len(todo[t]) : StepAbout(todo[t][i]) /\ StepAfter(t, todo[t], i)

\* The overlapped calls.  One that has ended has its packet in the port, once.
States == {"pending", "ok", "failed"}
RecvIos == [type : {"recv"}, owner : Sessions, conn : Conns, state : States]
SendIos == [type : {"send"}, owner : Sessions, conn : Conns, msg : Nat, state : States]
IosInv ==
  /\ ios \in [Ovs -> {NoIo} \cup RecvIos \cup SendIos]
  /\ \A o \in Ovs : ios[o] # NoIo => sid[ios[o].owner] # None
  /\ port \in Seq(Ovs)
  /\ \A o \in Ovs : In(port, o) <=> ios[o] # NoIo /\ ios[o].state # "pending"
  /\ \A i, j \in 1..Len(port) : port[i] = port[j] => i = j

\* A session that is sending has at most one call or completion to show for it.
IsSend(o, s) == ios[o].type = "send" /\ ios[o].owner = s
HasOp(s) == \E o \in Ovs : IsSend(o, s)
HasDone(s) == \E t \in Threads : In(todo[t], <<"sendDone", s>>)
TokenInv ==
  \A s \in Sessions :
    /\ HasOp(s) \/ HasDone(s) => sending[s]
    /\ ~(HasOp(s) /\ HasDone(s))
    /\ \A o, p \in Ovs : IsSend(o, s) /\ IsSend(p, s) => o = p
    /\ \A t, u \in Threads :
         In(todo[t], <<"sendDone", s>>) /\ In(todo[u], <<"sendDone", s>>) => t = u

\* As long as the session is linked its calls are on the connection it serves.
CallInv ==
  \A s \in Sessions : FirstUse(s) /\ Linked(s) =>
    \A o \in Ovs : IsSend(o, s) => ios[o].conn = serves[s]

WillClose(s) == \E w \in Workers : In(todo[w], <<"close", s>>)
AliveInv ==
  \A s \in Sessions : FirstUse(s) /\ Linked(s) /\ sending[s] =>
    HasOp(s) \/ HasDone(s) \/ WillClose(s) \/ serves[s] \in unheard

\* A session whose closing began is closed, or somebody is about to close it; one
\* that was used and is free again was closed.
Closes(s) == \E t \in Threads : In(todo[t], <<"closeSocket", s>>) \/ In(todo[t], <<"clearSock", s>>)
ClosedInv ==
  \A s \in Sessions :
    FirstUse(s) /\ closing[s] => sock[s] = None \/ Closes(s)
FreedInv == \A s \in freeSet : sid[s] # None => closing[s]

\* Messages.  The first message of a session that is sending is posted, the
\* others are not; what is not posted is newer than what is, and the messages of
\* one connection are in one queue.
Unposted(s, i, flags) == i > 1 \/ ~flags[s]
QueuesOK(of, posted, queues, flags) ==
  /\ of \in Seq(Conns) /\ \A i \in 1..Len(of) : of[i] <= conns
  /\ posted \in Seq(1..Len(of)) /\ queues \in [Sessions -> Seq(1..Len(of))]
  /\ flags \in [Sessions -> BOOLEAN]
  /\ \A i, j \in 1..Len(posted) : i < j /\ of[posted[i]] = of[posted[j]] => posted[i] < posted[j]
  /\ \A s \in Sessions : \A i, j \in 1..Len(queues[s]) : i < j => queues[s][i] < queues[s][j]
  /\ \A s \in Sessions : \A i \in 1..Len(queues[s]) : Unposted(s, i, flags) =>
       \A j \in 1..Len(posted) : of[posted[j]] = of[queues[s][i]] => posted[j] < queues[s][i]
  /\ \A r, s \in Sessions : \A i \in 1..Len(queues[r]) :
       /\ of[queues[r][i]] = serves[s] => r = s
       /\ \A j \in 1..Len(queues[s]) : of[queues[r][i]] = of[queues[s][j]] => r = s
  /\ \A i \in 1..Len(of) : \A t \in Creating : of[i] # Arg2(t)
QueueInv == QueuesOK(sendOf, sent, sendQ, sending)

SendInv ==
  /\ FreshInv /\ UseInv /\ NewInv /\ FineInv /\ IosInv /\ TokenInv /\ CallInv /\ AliveInv
  /\ ClosedInv /\ FreedInv /\ QueueInv

-----------------------------------------------------------------------------
(* Where a step that is left comes from.                                   *)

\* Steps of other threads stay; those of t are the new ones and, behind them, the old
\* ones but the first.
LEMMA WhereFrom ==
  ASSUME TodoType, NEW t \in Threads, NEW steps, IsSeq(steps), TodoChanges(t, steps),
         NEW i \in 1..Len(todo'[t])
  PROVE  \/ i \in 1..Len(steps) /\ todo'[t][i] = steps[i] /\ (i > 1 => todo'[t][i - 1] = steps[i - 1])
         \/ /\ i \notin 1..Len(steps) /\ todo[t] # <<>> /\ Head(todo[t]) = todo[t][1]
            /\ 1 \in 1..Len(todo[t])
            /\ \E j \in 2..Len(todo[t]) :
                 /\ i = Len(steps) + j - 1 /\ todo'[t][i] = todo[t][j]
                 /\ j > 2 => i > 1 /\ todo'[t][i - 1] = todo[t][j - 1]
                 /\ j = 2 /\ Len(steps) > 0 => i > 1 /\ todo'[t][i - 1] = steps[Len(steps)]
<1> DEFINE q == todo[t]
           r == todo'[t]
           n == Len(steps)
           rest == IF q = <<>> THEN 0 ELSE Len(q) - 1
<1>1. Follows(r, q, steps) /\ IsSeq(q) /\ IsSeq(r)
  BY TodoChange
<1>2. /\ n \in Nat /\ rest \in Nat /\ Len(q) \in Nat /\ Len(r) = n + rest
      /\ \A k \in 1..n : r[k] = steps[k]
      /\ \A k \in 1..rest : r[n + k] = q[k + 1]
      /\ q # <<>> => Len(q) = rest + 1 /\ Head(q) = q[1]
      /\ q = <<>> => rest = 0
  <2>1. q = <<>> => rest = 0
    OBVIOUS
  <2> HIDE DEF q, r, n
  <2>2. QED
    BY <1>1, <2>1, FollowsIs DEF n
<1> HIDE DEF rest, q, r, n
<1>3. i \in 1..(n + rest)
  BY <1>2 DEF r
<1>4. CASE i \in 1..n
  <2>1. r[i] = steps[i] /\ (i > 1 => r[i - 1] = steps[i - 1])
    BY <1>2, <1>4
  <2>2. QED
    BY <1>4, <2>1 DEF r, n
<1>5. CASE i \notin 1..n
  <2>1. q # <<>> /\ Len(q) = rest + 1 /\ Head(q) = q[1] /\ 1 \in 1..Len(q)
    BY <1>2, <1>3, <1>5
  <2> DEFINE j == i - n + 1
  <2>2. j \in 2..Len(q) /\ i = n + j - 1 /\ i = n + (j - 1) /\ (j - 1) + 1 = j /\ j - 1 \in 1..rest
    BY <1>2, <1>3, <1>5, <2>1
  <2>3. r[i] = q[j]
    BY <1>2, <2>2
  <2>4. ASSUME j > 2 PROVE i > 1 /\ r[i - 1] = q[j - 1]
    <3>1. j - 2 \in 1..rest /\ i - 1 = n + (j - 2) /\ (j - 2) + 1 = j - 1 /\ i > 1
      BY <1>2, <2>2, <2>4
    <3>2. QED
      BY <1>2, <3>1
  <2>5. ASSUME j = 2, n > 0 PROVE i > 1 /\ r[i - 1] = steps[n]
    <3>1. i - 1 = n /\ n \in 1..n /\ i > 1
      BY <1>2, <2>2, <2>5
    <3>2. QED
      BY <1>2, <3>1
  <2>6. \E k \in 2..Len(q) :
          /\ i = n + k - 1 /\ r[i] = q[k]
          /\ k > 2 => i > 1 /\ r[i - 1] = q[k - 1]
          /\ k = 2 /\ n > 0 => i > 1 /\ r[i - 1] = steps[n]
    <3> HIDE DEF j
    <3>1. QED
      BY <2>2, <2>3, <2>4, <2>5
  <2>7. QED
    BY <1>5, <2>1, <2>6 DEF q, r, n
<1>6. QED
  BY <1>4, <1>5

\* A step is new or was there; a step that was there is still, or was the first.
LEMMA InTodo ==
  ASSUME TodoType, NEW t \in Threads, NEW steps, IsSeq(steps), TodoChanges(t, steps)
  PROVE  /\ \A u \in Threads \ {t} : todo'[u] = todo[u]
         /\ \A x : In(todo'[t], x) => In(steps, x) \/ In(todo[t], x)
         /\ \A x : In(steps, x) => In(todo'[t], x)
         /\ \A x : In(todo[t], x) => In(todo'[t], x) \/ (todo[t] # <<>> /\ x = Head(todo[t]))
<1> DEFINE q == todo[t]
           r == todo'[t]
           n == Len(steps)
           rest == IF q = <<>> THEN 0 ELSE Len(q) - 1
<1>1. Follows(r, q, steps) /\ IsSeq(q) /\ \A u \in Threads \ {t} : todo'[u] = todo[u]
  BY TodoChange
<1>2. /\ n \in Nat /\ rest \in Nat /\ Len(q) \in Nat /\ Len(r) = n + rest
      /\ \A k \in 1..n : r[k] = steps[k]
      /\ \A k \in 1..rest : r[n + k] = q[k + 1]
      /\ q # <<>> => Len(q) = rest + 1 /\ Head(q) = q[1]
      /\ q = <<>> => rest = 0 /\ Len(q) = 0
  <2>1. q = <<>> => rest = 0
    OBVIOUS
  <2> HIDE DEF q, r, n
  <2>2. QED
    BY <1>1, <2>1, FollowsIs DEF n
<1>3. ASSUME NEW x, In(r, x) PROVE In(steps, x) \/ In(q, x)
  <2>1. PICK i \in 1..Len(r) : r[i] = x
    BY <1>3 DEF In
  <2>2. \/ i \in 1..Len(steps) /\ r[i] = steps[i]
        \/ \E j \in 2..Len(q) : r[i] = q[j]
    BY WhereFrom
  <2>3. 2..Len(q) \subseteq 1..Len(q)
    BY <1>2
  <2>4. QED
    BY <2>1, <2>2, <2>3 DEF In
<1> HIDE DEF rest, q, r, n
<1>4. ASSUME NEW x, In(steps, x) PROVE In(r, x)
  <2>1. PICK i \in 1..n : steps[i] = x
    BY <1>4 DEF In, n
  <2>2. i \in 1..Len(r) /\ r[i] = x
    BY <1>2, <2>1
  <2>3. QED
    BY <2>2 DEF In
<1>5. ASSUME NEW x, In(q, x) PROVE In(r, x) \/ (q # <<>> /\ x = Head(q))
  <2>1. PICK i \in 1..Len(q) : q[i] = x
    BY <1>5 DEF In
  <2>2. q # <<>> /\ Head(q) = q[1] /\ Len(q) = rest + 1
    BY <1>2, <2>1
  <2>3. CASE i = 1
    BY <2>1, <2>2, <2>3
  <2>4. CASE i # 1
    <3>1. i - 1 \in 1..rest /\ (i - 1) + 1 = i /\ n + (i - 1) \in 1..Len(r)
      BY <1>2, <2>1, <2>2, <2>4
    <3>2. r[n + (i - 1)] = x
      BY <1>2, <2>1, <3>1
    <3>3. QED
      BY <3>1, <3>2 DEF In
  <2>5. QED
    BY <2>3, <2>4
<1>6. QED
  BY <1>1, <1>3, <1>4, <1>5 DEF q, r

\* Which steps a sequence of none, one, two or three has.
LEMMA InNone == \A x : ~In(<<>>, x)
BY DEF In
LEMMA InOne == \A a, x : In(<<a>>, x) <=> x = a
BY DEF In
LEMMA InTwo == \A a, b, x : In(<<a, b>>, x) <=> x = a \/ x = b
<1> SUFFICES ASSUME NEW a, NEW b, NEW x PROVE In(<<a, b>>, x) <=> x = a \/ x = b
  OBVIOUS
<1>1. Len(<<a, b>>) = 2 /\ <<a, b>>[1] = a /\ <<a, b>>[2] = b /\ 1 \in 1..2 /\ 2 \in 1..2
  OBVIOUS
<1>2. \A i \in 1..2 : i = 1 \/ i = 2
  OBVIOUS
<1>3. QED
  BY <1>1, <1>2 DEF In

-----------------------------------------------------------------------------
(* What no step undoes.                                                    *)

Onward ==
  \A s \in Sessions : sid[s] # None =>
    /\ sid'[s] # None
    /\ closing[s] => closing'[s]
    /\ FirstUse(s)' => FirstUse(s) /\ serves'[s] = serves[s] /\ sock'[s] \in {sock[s], None}
                       /\ (Linked(s)' => Linked(s))

\* Steps that give no session out: handles are closed, or opened for a new
\* connection, and sockets forgotten.
LEMMA OnwardIf ==
  ASSUME UseInv, UNCHANGED <<sid, serves>>, conns \in Nat,
         \A s \in Sessions : closing[s] => closing'[s],
         \A s \in Sessions : sock'[s] \in {sock[s], None},
         \A k \in Sockets : conn'[k] \in {conn[k], None, conns + 1}
  PROVE  Onward
<1> SUFFICES ASSUME NEW s \in Sessions, sid[s] # None, Linked(s)' PROVE Linked(s)
  BY DEF Onward, FirstUse
<1>1. sock'[s] = sock[s] /\ sock[s] # None /\ sock[s] \in Sockets
  BY DEF Linked, UseInv
<1>2. serves[s] \in 0..conns /\ serves[s] # None
  BY DEF UseInv
<1>3. conn'[sock[s]] = serves[s]
  BY <1>1 DEF Linked
<1>4. conn'[sock[s]] \in {conn[sock[s]], None, conns + 1}
  BY <1>1
<1>5. conn[sock[s]] = serves[s]
  BY <1>2, <1>3, <1>4
<1>6. QED
  BY <1>1, <1>5 DEF Linked

LEMMA AboutOnward ==
  ASSUME Onward, NEW x, StepAbout(x)
  PROVE  StepAbout(x)'
BY DEF Onward, StepAbout

LEMMA AfterOnward ==
  ASSUME Onward, NEW t, NEW q, NEW i, StepAbout(q[i]), StepAfter(t, q, i)
  PROVE  StepAfter(t, q, i)'
<1>1. \A x : \A s \in Sessions : x = <<"close", s>> \/ x = <<"release", s>> =>
        x[1] \in {"close", "release"} /\ x[2] = s
  OBVIOUS
<1>2. ASSUME NEW s \in Sessions, t \in Workers, q[i] = <<"close", s>>, FirstUse(s)', Linked(s)'
      PROVE  i > 1 /\ q[i - 1] \in {<<"closeSocket", s>>, <<"clearSock", s>>}
  <2>1. sid[s] # None
    BY <1>1, <1>2 DEF StepAbout, AboutSession
  <2>2. FirstUse(s) /\ Linked(s)
    BY <1>2, <2>1 DEF Onward
  <2>3. QED
    BY <1>2, <2>2 DEF StepAfter
<1>3. ASSUME NEW s \in Sessions, q[i] = <<"release", s>>
      PROVE  closing'[s] \/ (i > 1 /\ q[i - 1] = <<"close", s>>)
  <2>1. sid[s] # None
    BY <1>1, <1>3 DEF StepAbout, AboutSession
  <2>2. QED
    BY <1>3, <2>1 DEF StepAfter, Onward
<1>4. QED
  BY <1>2, <1>3 DEF StepAfter

LEMMA FineStep ==
  ASSUME TodoType, FineInv, Onward,
         NEW t \in Threads, NEW steps, IsSeq(steps), TodoChanges(t, steps),
         \A i \in 1..Len(steps) : StepAbout(steps[i])' /\ StepAfter(t, steps, i)',
         \A i \in 1..Len(steps) : steps[i][1] = "sendDone" => todo[t] = <<>>,
         todo[t] # <<>> => \A s \in Sessions :
           /\ Head(todo[t]) \in {<<"closeSocket", s>>, <<"clearSock", s>>} /\ FirstUse(s)' /\ Linked(s)'
                => Len(steps) > 0 /\ steps[Len(steps)] = <<"clearSock", s>>
           /\ Head(todo[t]) = <<"close", s>> => closing'[s]
  PROVE  FineInv'
<1>1. \A u \in Threads \ {t} : todo'[u] = todo[u]
  BY TodoChange
<1>2. todo[t] = <<>> => todo'[t] = steps
  BY DEF TodoChanges, TodoType
<1>3. SUFFICES ASSUME NEW u \in Threads, NEW i \in 1..Len(todo'[u]), NEW r, r = todo'[u]
               PROVE  StepAbout(r[i])' /\ StepAfter(u, r, i)'
  <2>1. SUFFICES ASSUME NEW u \in Threads, NEW i \in 1..Len(todo'[u])
                 PROVE  StepAbout(todo[u][i])' /\ StepAfter(u, todo[u], i)'
    BY DEF FineInv
  <2>2. PICK r : r = todo'[u]
    OBVIOUS
  <2>3. StepAbout(r[i])' /\ StepAfter(u, r, i)'
    BY <1>3, <2>2
  <2>4. QED
    BY <2>2, <2>3 DEF StepAbout, StepAfter
<1>4. CASE u # t
  <2>1. i \in 1..Len(todo[u]) /\ r = todo[u]
    BY <1>1, <1>3, <1>4
  <2>2. StepAbout(r[i]) /\ StepAfter(u, r, i)
    BY <2>1 DEF FineInv
  <2>3. QED
    BY <2>2, AboutOnward, AfterOnward
<1>5. CASE u = t /\ i \in 1..Len(steps)
  <2>1. r[i] = steps[i] /\ (i > 1 => r[i - 1] = steps[i - 1])
    BY <1>3, <1>5, WhereFrom
  <2>2. StepAbout(steps[i])' /\ StepAfter(t, steps, i)'
    BY <1>5
  <2>3. steps[i][1] = "sendDone" => r = steps
    BY <1>2, <1>3, <1>5
  <2>4. QED
    BY <1>5, <2>1, <2>2, <2>3 DEF StepAfter
<1>6. CASE u = t /\ i \notin 1..Len(steps)
  <2>1. todo[t] # <<>> /\ Head(todo[t]) = todo[t][1]
    BY <1>6, WhereFrom
  <2>2. PICK j \in 2..Len(todo[t]) :
          /\ r[i] = todo[t][j]
          /\ j > 2 => i > 1 /\ r[i - 1] = todo[t][j - 1]
          /\ j = 2 /\ Len(steps) > 0 => i > 1 /\ r[i - 1] = steps[Len(steps)]
    <3>1. i \in 1..Len(todo'[t]) /\ i \notin 1..Len(steps)
      BY <1>6
    <3>2. \E j \in 2..Len(todo[t]) :
            /\ i = Len(steps) + j - 1 /\ todo'[t][i] = todo[t][j]
            /\ j > 2 => i > 1 /\ todo'[t][i - 1] = todo[t][j - 1]
            /\ j = 2 /\ Len(steps) > 0 => i > 1 /\ todo'[t][i - 1] = steps[Len(steps)]
      BY <3>1, WhereFrom
    <3>3. QED
      BY <1>3, <1>6, <3>2
  <2>3. PICK q : q = todo[t]
    OBVIOUS
  <2>4. Len(todo[t]) \in Nat /\ j \in 1..Len(todo[t]) /\ j \in Nat /\ j > 1
    BY SeqLen DEF TodoType
  <2>5. StepAbout(q[j]) /\ StepAfter(t, q, j)
    BY <2>3, <2>4 DEF FineInv
  <2>6. q[j][1] # "sendDone" /\ r[i] = q[j]
    BY <2>2, <2>3, <2>4, <2>5 DEF StepAfter
  <2>7. StepAbout(q[j])' /\ StepAfter(t, q, j)'
    BY <2>5, AboutOnward, AfterOnward
  <2>8. ASSUME NEW s \in Sessions, t \in Workers, q[j] = <<"close", s>>, FirstUse(s)', Linked(s)'
        PROVE  i > 1 /\ r[i - 1] \in {<<"closeSocket", s>>, <<"clearSock", s>>}
    <3>1. q[j - 1] \in {<<"closeSocket", s>>, <<"clearSock", s>>}
      BY <2>7, <2>8 DEF StepAfter
    <3>2. CASE j > 2
      BY <2>2, <2>3, <3>1, <3>2
    <3>3. CASE j = 2
      <4>1. Head(todo[t]) \in {<<"closeSocket", s>>, <<"clearSock", s>>}
        BY <2>1, <2>3, <3>1, <3>3
      <4>2. Len(steps) > 0 /\ steps[Len(steps)] = <<"clearSock", s>>
        BY <2>1, <2>8, <4>1
      <4>3. QED
        BY <2>2, <3>3, <4>2
    <3>4. QED
      BY <2>4, <3>2, <3>3
  <2>9. ASSUME NEW s \in Sessions, q[j] = <<"release", s>>
        PROVE  closing'[s] \/ (i > 1 /\ r[i - 1] = <<"close", s>>)
    <3>1. closing'[s] \/ q[j - 1] = <<"close", s>>
      BY <2>7, <2>9 DEF StepAfter
    <3>2. CASE j > 2
      BY <2>2, <2>3, <3>1, <3>2
    <3>3. CASE j = 2
      BY <2>1, <2>3, <3>1, <3>3
    <3>4. QED
      BY <2>4, <3>2, <3>3
  <2>10. QED
    BY <1>6, <2>6, <2>7, <2>8, <2>9 DEF StepAfter
<1>7. QED
  BY <1>4, <1>5, <1>6

-----------------------------------------------------------------------------
(* Steps called for.                                                       *)

\* Names of steps that need not come after another.
Unordered(t) == {"closeSocket", "closeHandle", "clearSock", "postRecv", "recv", "resetRx", "clearRx",
                 "fillRx", "moveRx", "releaseRx", "crashed", "register", "associate", "dropSocket", "destroy",
                 "sends"} \cup (IF t \in Workers THEN {} ELSE {"close"})

AllFine(t, steps) == IsSeq(steps) /\ \A i \in 1..Len(steps) : StepAbout(steps[i])' /\ StepAfter(t, steps, i)'

LEMMA UnorderedFine ==
  ASSUME NEW t, NEW q, NEW i, q[i][1] \in Unordered(t) \cup {"create"}
  PROVE  StepAfter(t, q, i)' /\ q[i][1] # "sendDone"
<1>1. \A x : \A s \in Sessions : /\ x = <<"close", s>> => x[1] = "close"
                                 /\ x = <<"release", s>> => x[1] = "release"
  OBVIOUS
<1>2. q[i][1] \notin {"sendDone", "release"} /\ (t \in Workers => q[i][1] # "close")
  BY DEF Unordered
<1>3. QED
  BY <1>1, <1>2 DEF StepAfter

LEMMA NoneFine == ASSUME NEW t PROVE IsSeq(<<>>) /\ \A i \in 1..Len(<<>>) : FALSE
BY DEF IsSeq

LEMMA OneFine ==
  ASSUME NEW t, NEW x, x[1] \in Unordered(t), StepAbout(x)'
  PROVE  IsSeq(<<x>>)
         /\ \A i \in 1..Len(<<x>>) : /\ StepAbout(<<x>>[i])' /\ StepAfter(t, <<x>>, i)'
                                     /\ <<x>>[i] = x /\ x[1] # "sendDone"
<1>1. <<x>> \in Seq({x}) /\ Len(<<x>>) = 1 /\ <<x>>[1] = x
  OBVIOUS
<1>2. PICK q : q = <<x>>
  OBVIOUS
<1>3. \A i \in 1..Len(q) : i = 1
  BY <1>1, <1>2
<1>4. StepAbout(q[1])' /\ StepAfter(t, q, 1)' /\ q[1] = x /\ x[1] # "sendDone"
  BY <1>1, <1>2, UnorderedFine
<1>5. QED
  BY <1>1, <1>2, <1>3, <1>4 DEF IsSeq

LEMMA TwoFine ==
  ASSUME NEW t, NEW x, NEW y, x[1] \in Unordered(t), y[1] \in Unordered(t), StepAbout(x)', StepAbout(y)'
  PROVE  IsSeq(<<x, y>>) /\ Len(<<x, y>>) = 2 /\ <<x, y>>[2] = y
         /\ \A i \in 1..Len(<<x, y>>) : /\ StepAbout(<<x, y>>[i])' /\ StepAfter(t, <<x, y>>, i)'
                                        /\ <<x, y>>[i] \in {x, y} /\ x[1] # "sendDone" /\ y[1] # "sendDone"
<1>1. <<x, y>> \in Seq({x, y}) /\ Len(<<x, y>>) = 2 /\ <<x, y>>[1] = x /\ <<x, y>>[2] = y
  OBVIOUS
<1>2. PICK q : q = <<x, y>>
  OBVIOUS
<1>3. \A i \in 1..Len(q) : i = 1 \/ i = 2
  BY <1>1, <1>2
<1>4. /\ StepAbout(q[1])' /\ StepAfter(t, q, 1)' /\ q[1] = x /\ x[1] # "sendDone"
      /\ StepAbout(q[2])' /\ StepAfter(t, q, 2)' /\ q[2] = y /\ y[1] # "sendDone"
  BY <1>1, <1>2, UnorderedFine
<1>5. QED
  BY <1>1, <1>2, <1>3, <1>4 DEF IsSeq

LEMMA ThreeFine ==
  ASSUME NEW t, NEW x, NEW y, NEW z, x[1] \in Unordered(t), y[1] \in Unordered(t), z[1] \in Unordered(t),
         StepAbout(x)', StepAbout(y)', StepAbout(z)'
  PROVE  IsSeq(<<x, y, z>>) /\ Len(<<x, y, z>>) = 3 /\ <<x, y, z>>[3] = z
         /\ \A i \in 1..Len(<<x, y, z>>) : /\ StepAbout(<<x, y, z>>[i])' /\ StepAfter(t, <<x, y, z>>, i)'
                                           /\ <<x, y, z>>[i] \in {x, y, z}
<1>1. <<x, y, z>> \in Seq({x, y, z}) /\ Len(<<x, y, z>>) = 3
      /\ <<x, y, z>>[1] = x /\ <<x, y, z>>[2] = y /\ <<x, y, z>>[3] = z
  OBVIOUS
<1>2. PICK q : q = <<x, y, z>>
  OBVIOUS
<1>3. \A i \in 1..Len(q) : i = 1 \/ i = 2 \/ i = 3
  BY <1>1, <1>2
<1>4. /\ StepAbout(q[1])' /\ StepAfter(t, q, 1)' /\ q[1] = x
      /\ StepAbout(q[2])' /\ StepAfter(t, q, 2)' /\ q[2] = y
      /\ StepAbout(q[3])' /\ StepAfter(t, q, 3)' /\ q[3] = z
  BY <1>1, <1>2, UnorderedFine
<1>5. QED
  BY <1>1, <1>2, <1>3, <1>4 DEF IsSeq

\* The step that t is about to take.
LEMMA HeadFine ==
  ASSUME TodoType, FineInv, NEW t \in Threads, todo[t] # <<>>
  PROVE  /\ StepAbout(Head(todo[t])) /\ StepAfter(t, todo[t], 1)
         /\ Head(todo[t]) = todo[t][1] /\ In(todo[t], Head(todo[t]))
<1>1. 1 \in 1..Len(todo[t]) /\ Head(todo[t]) = todo[t][1]
  BY SeqLen DEF TodoType, IsSeq
<1>2. QED
  BY <1>1 DEF FineInv, In

-----------------------------------------------------------------------------
(* Control: what the steps of a thread leave of the others' plans.         *)

DonesSame ==
  \A u \in Threads : \A s \in Sessions :
    In(todo'[u], <<"sendDone", s>>) <=> In(todo[u], <<"sendDone", s>>)
ClosesStay ==
  /\ \A s \in Sessions : WillClose(s) /\ FirstUse(s)' /\ Linked(s)' => WillClose(s)'
  /\ \A s \in Sessions : Closes(s) => Closes(s)' \/ sock'[s] = None
NoCreate == \A u \in Threads : At(u, "create")' => At(u, "create") /\ todo'[u] = todo[u]
Control == DonesSame /\ ClosesStay /\ NoCreate

LEMMA ClosesStayStep ==
  ASSUME TodoType, FineInv, Onward,
         NEW t \in Threads, NEW steps, IsSeq(steps), TodoChanges(t, steps),
         todo[t] # <<>> => \A s \in Sessions :
           Head(todo[t]) \in {<<"closeSocket", s>>, <<"clearSock", s>>}
             => sock'[s] = None \/ (Len(steps) > 0 /\ steps[Len(steps)] = <<"clearSock", s>>)
  PROVE  ClosesStay
<1>1. /\ \A u \in Threads \ {t} : todo'[u] = todo[u]
      /\ \A x : In(todo'[t], x) => In(steps, x) \/ In(todo[t], x)
      /\ \A x : In(steps, x) => In(todo'[t], x)
      /\ \A x : In(todo[t], x) => In(todo'[t], x) \/ (todo[t] # <<>> /\ x = Head(todo[t]))
  BY InTodo, Zenon
<1>2. ASSUME NEW s \in Sessions, WillClose(s), FirstUse(s)', Linked(s)' PROVE WillClose(s)'
  <2>1. PICK w \in Workers : In(todo[w], <<"close", s>>)
    BY <1>2 DEF WillClose
  <2>2. w \in Threads
    BY DEF Threads
  <2>3. In(todo'[w], <<"close", s>>)
    <3>1. CASE w # t
      BY <1>1, <2>1, <2>2, <3>1
    <3>2. CASE w = t /\ todo[t] # <<>> /\ <<"close", s>> = Head(todo[t])
      <4>1. StepAbout(<<"close", s>>) /\ StepAfter(t, todo[t], 1) /\ todo[t][1] = <<"close", s>>
        BY <3>2, HeadFine
      <4>2. sid[s] # None
        BY <4>1 DEF StepAbout, AboutSession
      <4>3. FirstUse(s) /\ Linked(s)
        BY <1>2, <4>2 DEF Onward
      <4>4. FALSE
        BY <2>1, <3>2, <4>1, <4>3 DEF StepAfter
      <4>5. QED
        BY <4>4
    <3>3. QED
      BY <1>1, <2>1, <3>1, <3>2
  <2>4. QED
    BY <2>3 DEF WillClose
<1>3. ASSUME NEW s \in Sessions, Closes(s), sock'[s] # None PROVE Closes(s)'
  <2>1. PICK u \in Threads : In(todo[u], <<"closeSocket", s>>) \/ In(todo[u], <<"clearSock", s>>)
    BY <1>3 DEF Closes
  <2>2. PICK x \in {<<"closeSocket", s>>, <<"clearSock", s>>} : In(todo[u], x)
    BY <2>1
  <2>3. In(todo'[u], x) \/ In(todo'[t], <<"clearSock", s>>)
    <3>1. CASE u # t
      BY <1>1, <2>2, <3>1
    <3>2. CASE u = t /\ todo[t] # <<>> /\ x = Head(todo[t])
      <4>1. Len(steps) > 0 /\ steps[Len(steps)] = <<"clearSock", s>>
        BY <1>3, <3>2
      <4>2. In(steps, <<"clearSock", s>>)
        BY <4>1, SeqLen DEF In
      <4>3. QED
        BY <1>1, <4>2
    <3>3. QED
      BY <1>1, <2>2, <3>1, <3>2
  <2>4. QED
    BY <2>3 DEF Closes
<1>4. QED
  BY <1>2, <1>3 DEF ClosesStay

LEMMA DonesStep ==
  ASSUME TodoType, FineInv, Onward,
         NEW t \in Threads, NEW steps, IsSeq(steps), TodoChanges(t, steps),
         \A i \in 1..Len(steps) : steps[i][1] # "sendDone",
         todo[t] # <<>> =>
           /\ Head(todo[t])[1] # "sendDone"
           /\ \A s \in Sessions :
                Head(todo[t]) \in {<<"closeSocket", s>>, <<"clearSock", s>>}
                  => sock'[s] = None \/ (Len(steps) > 0 /\ steps[Len(steps)] = <<"clearSock", s>>)
  PROVE  DonesSame /\ ClosesStay
<1>1. /\ \A u \in Threads \ {t} : todo'[u] = todo[u]
      /\ \A x : In(todo'[t], x) => In(steps, x) \/ In(todo[t], x)
      /\ \A x : In(steps, x) => In(todo'[t], x)
      /\ \A x : In(todo[t], x) => In(todo'[t], x) \/ (todo[t] # <<>> /\ x = Head(todo[t]))
  BY InTodo, Zenon
<1>2. \A s : <<"sendDone", s>>[1] = "sendDone"
  OBVIOUS
<1>3. \A s : ~In(steps, <<"sendDone", s>>)
  BY <1>2 DEF In
<1>4. ASSUME NEW u \in Threads, NEW s \in Sessions
      PROVE  In(todo'[u], <<"sendDone", s>>) <=> In(todo[u], <<"sendDone", s>>)
  <2>1. CASE u # t
    BY <1>1, <2>1
  <2>2. CASE u = t
    <3>1. todo[t] # <<>> => <<"sendDone", s>> # Head(todo[t])
      BY <1>2
    <3>2. QED
      BY <1>1, <1>3, <2>2, <3>1
  <2>3. QED
    BY <2>1, <2>2
<1>5. DonesSame
  BY <1>4 DEF DonesSame
<1>6. ClosesStay
  BY ClosesStayStep
<1>7. QED
  BY <1>5, <1>6

LEMMA NoCreateStep ==
  ASSUME TodoType, StepsInv, NEW t \in Threads, NEW steps, IsSeq(steps), TodoChanges(t, steps),
         \A i \in 1..Len(steps) : steps[i][1] # "create"
  PROVE  NoCreate
<1>1. Creating' = Creating \ {t}
  BY CreatingIs
<1>2. \A u \in Threads : At(u, "create")' => u # t
  BY <1>1 DEF Creating
<1>3. QED
  BY <1>2, TodoChange DEF NoCreate, At

LEMMA Ordinary ==
  ASSUME TodoType, StepsInv, FineInv, Onward,
         NEW t \in Threads, NEW steps, IsSeq(steps), TodoChanges(t, steps),
         \A i \in 1..Len(steps) : /\ StepAbout(steps[i])' /\ StepAfter(t, steps, i)'
                                  /\ steps[i][1] \notin {"sendDone", "create"},
         todo[t] # <<>> =>
           /\ Head(todo[t])[1] # "sendDone"
           /\ \A s \in Sessions :
                /\ Head(todo[t]) \in {<<"closeSocket", s>>, <<"clearSock", s>>}
                     => sock'[s] = None \/ (Len(steps) > 0 /\ steps[Len(steps)] = <<"clearSock", s>>)
                /\ Head(todo[t]) = <<"close", s>> => closing'[s]
  PROVE  FineInv' /\ Control
<1>1. Control
  BY DonesStep, NoCreateStep DEF Control
<1>2. \A s \in Sessions : Linked(s)' => sock'[s] # None
  BY DEF Linked
<1>3. FineInv'
  BY <1>2, FineStep
<1>4. QED
  BY <1>1, <1>3

\* The usual case: the step closes nothing.
LEMMA OrdinaryThen ==
  ASSUME TodoType, StepsInv, FineInv, Onward,
         NEW t \in Threads, NEW name, NEW steps, At(t, name), Then(t, steps), IsSeq(steps),
         name \notin {"sendDone", "closeSocket", "clearSock", "close"},
         \A i \in 1..Len(steps) : StepAbout(steps[i])' /\ StepAfter(t, steps, i)' /\ steps[i][1] \notin {"sendDone", "create"}
  PROVE  FineInv' /\ Control
<1>1. TodoChanges(t, steps) /\ todo[t] # <<>> /\ Head(todo[t])[1] = name
  BY ThenChanges
<1>2. \A s : /\ <<"closeSocket", s>>[1] = "closeSocket" /\ <<"clearSock", s>>[1] = "clearSock"
             /\ <<"close", s>>[1] = "close"
  OBVIOUS
<1>3. \A s : Head(todo[t]) \notin {<<"closeSocket", s>>, <<"clearSock", s>>, <<"close", s>>}
  BY <1>1, <1>2
<1>4. QED
  BY <1>1, <1>3, Ordinary

LEMMA NoStepThen ==
  ASSUME TodoType, StepsInv, FineInv, Onward,
         NEW t \in Threads, NEW name, At(t, name), Then(t, <<>>),
         name \notin {"sendDone", "closeSocket", "clearSock", "close"}
  PROVE  FineInv' /\ Control
BY NoneFine, OrdinaryThen

LEMMA OneStepThen ==
  ASSUME TodoType, StepsInv, FineInv, Onward,
         NEW t \in Threads, NEW name, NEW x, At(t, name), Then(t, <<x>>),
         name \notin {"sendDone", "closeSocket", "clearSock", "close"},
         x[1] \in Unordered(t), StepAbout(x)'
  PROVE  FineInv' /\ Control
<1>1. PICK q : q = <<x>>
  OBVIOUS
<1>2. IsSeq(q) /\ \A i \in 1..Len(q) : StepAbout(q[i])' /\ StepAfter(t, q, i)' /\ q[i][1] \notin {"sendDone", "create"}
  <2>1. \A i \in 1..Len(q) : i = 1
    BY <1>1
  <2>2. IsSeq(q) /\ q[1] = x
    BY <1>1, OneFine
  <2>3. StepAbout(q[1])' /\ StepAfter(t, q, 1)' /\ q[1][1] \notin {"sendDone", "create"}
    BY <2>2, UnorderedFine DEF Unordered
  <2>4. QED
    BY <2>1, <2>2, <2>3
<1>3. Then(t, q)
  BY <1>1
<1>4. QED
  BY <1>2, <1>3, OrdinaryThen

LEMMA TwoStepsThen ==
  ASSUME TodoType, StepsInv, FineInv, Onward,
         NEW t \in Threads, NEW name, NEW x, NEW y, At(t, name), Then(t, <<x, y>>),
         name \notin {"sendDone", "closeSocket", "clearSock", "close"},
         x[1] \in Unordered(t), StepAbout(x)', y[1] \in Unordered(t), StepAbout(y)'
  PROVE  FineInv' /\ Control
<1>1. PICK q : q = <<x, y>>
  OBVIOUS
<1>2. IsSeq(q) /\ \A i \in 1..Len(q) : StepAbout(q[i])' /\ StepAfter(t, q, i)' /\ q[i][1] \notin {"sendDone", "create"}
  <2>1. \A i \in 1..Len(q) : i = 1 \/ i = 2
    BY <1>1
  <2>2. IsSeq(q) /\ q[1] = x /\ q[2] = y
    BY <1>1, TwoFine
  <2>3. /\ StepAbout(q[1])' /\ StepAfter(t, q, 1)' /\ q[1][1] \notin {"sendDone", "create"}
        /\ StepAbout(q[2])' /\ StepAfter(t, q, 2)' /\ q[2][1] \notin {"sendDone", "create"}
    BY <2>2, UnorderedFine DEF Unordered
  <2>4. QED
    BY <2>1, <2>2, <2>3
<1>3. Then(t, q)
  BY <1>1
<1>4. QED
  BY <1>2, <1>3, OrdinaryThen

LEMMA ThreeStepsThen ==
  ASSUME TodoType, StepsInv, FineInv, Onward,
         NEW t \in Threads, NEW name, NEW x, NEW y, NEW z, At(t, name), Then(t, <<x, y, z>>),
         name \notin {"sendDone", "closeSocket", "clearSock", "close"},
         x[1] \in Unordered(t), StepAbout(x)', y[1] \in Unordered(t), StepAbout(y)',
         z[1] \in Unordered(t), StepAbout(z)'
  PROVE  FineInv' /\ Control
<1>1. PICK q : q = <<x, y, z>>
  OBVIOUS
<1>2. IsSeq(q) /\ \A i \in 1..Len(q) : StepAbout(q[i])' /\ StepAfter(t, q, i)' /\ q[i][1] \notin {"sendDone", "create"}
  <2>1. \A i \in 1..Len(q) : i = 1 \/ i = 2 \/ i = 3
    BY <1>1
  <2>2. IsSeq(q) /\ q[1] = x /\ q[2] = y /\ q[3] = z
    BY <1>1, ThreeFine
  <2>3. /\ StepAbout(q[1])' /\ StepAfter(t, q, 1)' /\ q[1][1] \notin {"sendDone", "create"}
        /\ StepAbout(q[2])' /\ StepAfter(t, q, 2)' /\ q[2][1] \notin {"sendDone", "create"}
        /\ StepAbout(q[3])' /\ StepAfter(t, q, 3)' /\ q[3][1] \notin {"sendDone", "create"}
    BY <2>2, UnorderedFine DEF Unordered
  <2>4. QED
    BY <2>1, <2>2, <2>3
<1>3. Then(t, q)
  BY <1>1
<1>4. QED
  BY <1>2, <1>3, OrdinaryThen

-----------------------------------------------------------------------------
(* The same for each operation: session steps first.                       *)

LEMMA OnwardSame ==
  ASSUME UseInv, conns \in Nat, UNCHANGED <<sid, serves, closing, sock, conn>>
  PROVE  Onward
BY OnwardIf

\* The session a step is about.
LEMMA ArgInUse ==
  ASSUME TodoType, FineInv, NEW t \in Threads, NEW name \in AboutSession, At(t, name)
  PROVE  Arg(t) \in Sessions /\ sid[Arg(t)] # None
<1>1. StepAbout(Head(todo[t]))
  BY HeadFine DEF At
<1>2. QED
  BY <1>1 DEF StepAbout, At, Arg

LEMMA HeadIsAbout ==
  ASSUME NEW t, NEW name, At(t, name)
  PROVE  \A s : /\ Head(todo[t]) = <<"closeSocket", s>> => name = "closeSocket" /\ s = Arg(t)
                /\ Head(todo[t]) = <<"clearSock", s>> => name = "clearSock" /\ s = Arg(t)
                /\ Head(todo[t]) = <<"close", s>> => name = "close" /\ s = Arg(t)
<1>1. \A a, b : <<a, b>>[1] = a /\ <<a, b>>[2] = b
  OBVIOUS
<1>2. QED
  BY <1>1 DEF At, Arg

LEMMA CloseSocketFine ==
  ASSUME TodoType, StepsInv, FineInv, UseInv, conns \in Nat, NEW t \in Threads, CloseSocket(t), UNCHANGED managerVars
  PROVE  FineInv' /\ Onward /\ Control
<1>1. PICK s : s = Arg(t)
  OBVIOUS
<1>2. At(t, "closeSocket") /\ s \in Sessions /\ sid[s] # None
  BY <1>1, ArgInUse DEF CloseSocket, AboutSession
<1>3. UNCHANGED <<sid, serves, closing, sock, conn>>
  BY DEF CloseSocket, sessionVars, kernelVars, managerVars
<1>4. Onward
  BY <1>3, OnwardSame
<1>5. \A x \in Sessions : /\ Head(todo[t]) \notin {<<"clearSock", x>>, <<"close", x>>}
                          /\ Head(todo[t]) = <<"closeSocket", x>> => x = s
  BY <1>1, <1>2, HeadIsAbout
<1>6. CASE sock[s] = None
  <2>1. Then(t, <<>>)
    BY <1>1, <1>6 DEF CloseSocket
  <2>2. TodoChanges(t, <<>>) /\ Head(todo[t])[1] = "closeSocket"
    BY <1>2, <2>1, ThenChanges
  <2>3. QED
    BY <1>3, <1>4, <1>5, <1>6, <2>2, NoneFine, Ordinary
<1>7. CASE sock[s] # None
  <2>1. PICK k : k = sock[s]
    OBVIOUS
  <2>2. PICK q : q = << <<"closeHandle", k>>, <<"clearSock", s>> >>
    OBVIOUS
  <2>3. Then(t, q) /\ k \in Sockets
    BY <1>1, <1>2, <1>7, <2>1, <2>2 DEF CloseSocket, UseInv
  <2>4. TodoChanges(t, q) /\ Head(todo[t])[1] = "closeSocket"
    BY <1>2, <2>3, ThenChanges
  <2>5. IsSeq(q) /\ Len(q) = 2 /\ q[1] = <<"closeHandle", k>> /\ q[2] = <<"clearSock", s>>
    <3>1. q \in Seq({<<"closeHandle", k>>, <<"clearSock", s>>})
      BY <2>2
    <3>2. QED
      BY <2>2, <3>1 DEF IsSeq
  <2>6. StepAbout(q[1])' /\ StepAbout(q[2])'
    BY <1>2, <1>3, <2>3, <2>5 DEF StepAbout, AboutSession
  <2>7. \A i \in 1..Len(q) : StepAbout(q[i])' /\ StepAfter(t, q, i)' /\ q[i][1] \notin {"sendDone", "create"}
    <3>1. \A i \in 1..Len(q) : i = 1 \/ i = 2
      BY <2>5
    <3>2. /\ StepAfter(t, q, 1)' /\ q[1][1] \notin {"sendDone", "create"}
          /\ StepAfter(t, q, 2)' /\ q[2][1] \notin {"sendDone", "create"}
      BY <2>5, UnorderedFine DEF Unordered
    <3>3. QED
      BY <2>6, <3>1, <3>2
  <2>8. \A x \in Sessions : Head(todo[t]) = <<"closeSocket", x>> => q[Len(q)] = <<"clearSock", x>>
    BY <1>5, <2>5
  <2>9. QED
    BY <1>4, <1>5, <2>4, <2>5, <2>7, <2>8, Ordinary
<1>8. QED
  BY <1>6, <1>7

LEMMA ClearSockFine ==
  ASSUME TodoType, StepsInv, FineInv, UseInv, conns \in Nat, NEW t \in Threads, ClearSock(t), UNCHANGED managerVars
  PROVE  FineInv' /\ Onward /\ Control
<1>1. PICK s : s = Arg(t)
  OBVIOUS
<1>2. At(t, "clearSock") /\ s \in Sessions /\ Then(t, <<>>)
  BY <1>1, ArgInUse DEF ClearSock, AboutSession
<1>3. UNCHANGED <<sid, serves, closing, conn>> /\ sock' = [sock EXCEPT ![s] = None]
  BY <1>1 DEF ClearSock, kernelVars, managerVars
<1>4. Onward
  <2>1. \A x \in Sessions : sock'[x] \in {sock[x], None}
    BY <1>3 DEF UseInv
  <2>2. QED
    BY <1>3, <2>1, OnwardIf
<1>5. \A x \in Sessions : /\ Head(todo[t]) \notin {<<"closeSocket", x>>, <<"close", x>>}
                          /\ Head(todo[t]) = <<"clearSock", x>> => sock'[x] = None
  <2>1. sock'[s] = None
    BY <1>2, <1>3 DEF UseInv
  <2>2. QED
    BY <1>1, <1>2, <2>1, HeadIsAbout
<1>6. TodoChanges(t, <<>>) /\ Head(todo[t])[1] = "clearSock"
  BY <1>2, ThenChanges
<1>7. QED
  BY <1>4, <1>5, <1>6, NoneFine, Ordinary

LEMMA CloseFine ==
  ASSUME TodoType, StepsInv, FineInv, UseInv, conns \in Nat, NEW t \in Threads, Close(t), UNCHANGED managerVars
  PROVE  FineInv' /\ Onward /\ Control
<1>1. PICK s : s = Arg(t)
  OBVIOUS
<1>2. At(t, "close") /\ s \in Sessions /\ sid[s] # None
  BY <1>1, ArgInUse DEF Close, AboutSession
<1>3. UNCHANGED <<sid, serves, sock, conn>> /\ closing' = [closing EXCEPT ![s] = TRUE]
  BY <1>1 DEF Close, kernelVars, managerVars
<1>4. Onward
  <2>1. \A x \in Sessions : closing[x] => closing'[x]
    BY <1>3 DEF UseInv
  <2>2. QED
    BY <1>3, <2>1, OnwardIf
<1>5. \A x \in Sessions : /\ Head(todo[t]) \notin {<<"closeSocket", x>>, <<"clearSock", x>>}
                          /\ Head(todo[t]) = <<"close", x>> => closing'[x]
  <2>1. closing'[s]
    BY <1>2, <1>3 DEF UseInv
  <2>2. QED
    BY <1>1, <1>2, <2>1, HeadIsAbout
<1>6. CASE Then(t, <<>>)
  <2>1. TodoChanges(t, <<>>) /\ Head(todo[t])[1] = "close"
    BY <1>2, <1>6, ThenChanges
  <2>2. QED
    BY <1>4, <1>5, <2>1, NoneFine, Ordinary
<1>7. CASE Then(t, << <<"closeSocket", s>> >>)
  <2>1. PICK q : q = << <<"closeSocket", s>> >>
    OBVIOUS
  <2>2. TodoChanges(t, q) /\ Head(todo[t])[1] = "close"
    BY <1>2, <1>7, <2>1, ThenChanges
  <2>3. StepAbout(<<"closeSocket", s>>)'
    BY <1>2, <1>3 DEF StepAbout, AboutSession
  <2>4. IsSeq(q) /\ \A i \in 1..Len(q) : i = 1 /\ q[1] = <<"closeSocket", s>>
    BY <2>1, OneFine, <2>3 DEF Unordered
  <2>5. StepAfter(t, q, 1)' /\ q[1][1] \notin {"sendDone", "create"}
    <3>1. <<"closeSocket", s>>[1] \in Unordered(t)
      BY DEF Unordered
    <3>2. q[1] = <<"closeSocket", s>>
      BY <2>1
    <3>3. QED
      BY <3>1, <3>2, UnorderedFine DEF Unordered
  <2>6. \A i \in 1..Len(q) : StepAbout(q[i])' /\ StepAfter(t, q, i)' /\ q[i][1] \notin {"sendDone", "create"}
    BY <2>3, <2>4, <2>5
  <2>7. QED
    BY <1>4, <1>5, <2>2, <2>4, <2>6, Ordinary
<1>8. QED
  BY <1>1, <1>6, <1>7 DEF Close, CloseSteps

LEMMA OtherSessionFine ==
  ASSUME TodoType, StepsInv, FineInv, UseInv, conns \in Nat, NEW t \in Threads, UNCHANGED managerVars,
         \/ PostRecvAcquire(t) \/ FillRx(t) \/ MoveRx(t) \/ PostRecvCall(t)
         \/ ResetRx(t) \/ ClearRx(t) \/ ReleaseRx(t)
  PROVE  FineInv' /\ Onward /\ Control
<1>1. Onward
  <2>1. UNCHANGED <<sid, serves, closing, sock, conn>>
    BY DEF PostRecvAcquire, FillRx, MoveRx, PostRecvCall, ResetRx, ClearRx, ReleaseRx, sessionVars, kernelVars, managerVars
  <2>2. QED
    BY <2>1, OnwardSame
<1>2. PICK s : s = Arg(t)
  OBVIOUS
<1>3. sid' = sid
  BY DEF managerVars
<1>4. CASE PostRecvAcquire(t)
  <2>1. At(t, "postRecv") /\ s \in Sessions /\ sid[s] # None
    BY <1>2, <1>4, ArgInUse DEF PostRecvAcquire, AboutSession
  <2>2. PICK b : Then(t, << <<"recv", s>> >>) \/ Then(t, << <<"fillRx", s, b>>, <<"recv", s>> >>)
    BY <1>2, <1>4 DEF PostRecvAcquire
  <2>3. StepAbout(<<"recv", s>>)' /\ StepAbout(<<"fillRx", s, b>>)'
    BY <1>3, <2>1 DEF StepAbout, AboutSession
  <2>4. CASE Then(t, << <<"recv", s>> >>)
    BY <1>1, <2>1, <2>3, <2>4, OneStepThen DEF Unordered
  <2>5. CASE Then(t, << <<"fillRx", s, b>>, <<"recv", s>> >>)
    BY <1>1, <2>1, <2>3, <2>5, TwoStepsThen DEF Unordered
  <2>6. QED
    BY <2>2, <2>4, <2>5
<1>5. CASE PostRecvCall(t)
  <2>1. At(t, "recv") /\ Then(t, <<>>)
    BY <1>5 DEF PostRecvCall
  <2>2. QED
    BY <1>1, <2>1, NoStepThen
<1>6. CASE ResetRx(t)
  <2>1. At(t, "resetRx") /\ s \in Sessions /\ sid[s] # None
    BY <1>2, <1>6, ArgInUse DEF ResetRx, AboutSession
  <2>2. PICK b : b = rx[s]
    OBVIOUS
  <2>3. \/ Then(t, << <<"crashed">> >>)
        \/ Then(t, << <<"clearRx", s>>, <<"releaseRx", b>> >>)
    BY <1>2, <1>6, <2>2 DEF ResetRx
  <2>4. CASE Then(t, << <<"crashed">> >>)
    <3>1. StepAbout(<<"crashed">>)' /\ <<"crashed">>[1] \in Unordered(t)
      BY DEF StepAbout, AboutSession, Unordered
    <3>2. QED
      BY <1>1, <2>1, <2>4, <3>1, OneStepThen
  <2>5. CASE Then(t, << <<"clearRx", s>>, <<"releaseRx", b>> >>)
    <3>1. StepAbout(<<"clearRx", s>>)' /\ StepAbout(<<"releaseRx", b>>)'
      BY <1>3, <2>1 DEF StepAbout, AboutSession
    <3>2. QED
      BY <1>1, <2>1, <2>5, <3>1, TwoStepsThen DEF Unordered
  <2>6. QED
    BY <2>3, <2>4, <2>5
<1>7. CASE ClearRx(t)
  <2>1. At(t, "clearRx") /\ Then(t, <<>>)
    BY <1>7 DEF ClearRx
  <2>2. QED
    BY <1>1, <2>1, NoStepThen
<1>8. CASE ReleaseRx(t)
  <2>1. At(t, "releaseRx") /\ Then(t, <<>>)
    BY <1>8 DEF ReleaseRx
  <2>2. QED
    BY <1>1, <2>1, NoStepThen
<1>9. CASE FillRx(t)
  <2>1. At(t, "fillRx") /\ s \in Sessions /\ sid[s] # None
    BY <1>2, <1>9, ArgInUse DEF FillRx, AboutSession
  <2>2. PICK b, move : b = rx[s] /\ move = <<"moveRx", s, Arg2(t)>>
    OBVIOUS
  <2>3. \/ Then(t, <<move>>)
        \/ Then(t, << <<"clearRx", s>>, <<"releaseRx", b>>, move >>)
    BY <1>2, <1>9, <2>2 DEF FillRx
  <2>4. StepAbout(<<"clearRx", s>>)' /\ StepAbout(<<"releaseRx", b>>)' /\ StepAbout(move)'
    BY <1>3, <2>1, <2>2 DEF StepAbout, AboutSession
  <2>5. move[1] = "moveRx"
    BY <2>2
  <2>6. CASE Then(t, <<move>>)
    BY <1>1, <2>1, <2>4, <2>5, <2>6, OneStepThen DEF Unordered
  <2>7. CASE Then(t, << <<"clearRx", s>>, <<"releaseRx", b>>, move >>)
    BY <1>1, <2>1, <2>4, <2>5, <2>7, ThreeStepsThen DEF Unordered
  <2>8. QED
    BY <2>3, <2>6, <2>7
<1>10. CASE MoveRx(t)
  <2>1. At(t, "moveRx") /\ Then(t, <<>>)
    BY <1>10 DEF MoveRx
  <2>2. QED
    BY <1>1, <2>1, NoStepThen
<1>11. QED
  BY <1>4, <1>5, <1>6, <1>7, <1>8, <1>9, <1>10

\* A handle is closed, by a session or by the acceptor.
LEMMA CloseHandleFine ==
  ASSUME TodoType, StepsInv, FineInv, UseInv, conns \in Nat, NEW t \in Threads, UNCHANGED managerVars,
         CloseSocketHandle(t) \/ DropSocket(t)
  PROVE  FineInv' /\ Onward /\ Control
<1>1. UNCHANGED <<sid, serves, closing, sock>> /\ conn' = [conn EXCEPT ![Arg(t)] = None]
  BY DEF CloseSocketHandle, DropSocket, CloseHandle, sessionVars, managerVars
<1>2. Onward
  <2>1. \A k \in Sockets : conn'[k] \in {conn[k], None}
    BY <1>1 DEF UseInv
  <2>2. QED
    BY <1>1, <2>1, OnwardIf DEF UseInv
<1>3. Then(t, <<>>) /\ (At(t, "closeHandle") \/ At(t, "dropSocket"))
  BY DEF CloseSocketHandle, DropSocket
<1>4. QED
  BY <1>2, <1>3, NoStepThen

-----------------------------------------------------------------------------
(* The manager's steps.                                                    *)

\* A thread that is idle begins.
LEMMA BeginFine ==
  ASSUME TodoType, StepsInv, FineInv, Onward, NEW t \in Threads, NEW x, Idle(t),
         todo' = [todo EXCEPT ![t] = <<x>>], x[1] \in Unordered(t), StepAbout(x)'
  PROVE  FineInv' /\ Control
<1>1. PICK q : q = <<x>>
  OBVIOUS
<1>2. IsSeq(q) /\ \A i \in 1..Len(q) : StepAbout(q[i])' /\ StepAfter(t, q, i)' /\ q[i][1] \notin {"sendDone", "create"}
  <2>1. \A i \in 1..Len(q) : i = 1
    BY <1>1
  <2>2. IsSeq(q) /\ q[1] = x
    BY <1>1, OneFine
  <2>3. StepAbout(q[1])' /\ StepAfter(t, q, 1)' /\ q[1][1] \notin {"sendDone", "create"}
    BY <2>2, UnorderedFine DEF Unordered
  <2>4. QED
    BY <2>1, <2>2, <2>3
<1>3. TodoChanges(t, q) /\ todo[t] = <<>>
  BY <1>1 DEF Idle, TodoChanges
<1>4. QED
  BY <1>2, <1>3, Ordinary

LEMMA CallerOf == \A t \in Callers : t \in Threads /\ t \notin Workers
BY NetSessionAssumption DEF Threads

LEMMA ActiveInUse ==
  ASSUME Types, IdsInv, NEW s \in Active
  PROVE  s \in Sessions /\ sid[s] # None
<1>1. PICK i \in Ids : sessions[i] # None /\ s = sessions[i]
  BY DEF Active
<1>2. s \in Sessions /\ sid[s] = i
  BY <1>1 DEF Types, IdsInv
<1>3. QED
  BY <1>2, NetSessionAssumption DEF Ids, None

LEMMA CallsFine ==
  ASSUME ManagerInv, FineInv, UseInv, NEW t \in Callers,
         FindAndSend(t) \/ Broadcast(t) \/ FindAndClose(t) \/ CallDestroy(t)
  PROVE  FineInv' /\ Onward /\ Control
<1>1. Types /\ IdsInv /\ TodoType /\ StepsInv /\ conns \in Nat
  BY DEF ManagerInv, Types
<1>2. ASSUME NEW x, Calls(t, x), x[1] \in Unordered(t), StepAbout(x) PROVE FineInv' /\ Onward /\ Control
  <2>1. /\ UNCHANGED <<sid, serves, closing, sock, conn>> /\ Idle(t)
        /\ todo' = [todo EXCEPT ![t] = <<x>>]
    BY <1>2 DEF Calls, sessionVars, kernelVars, managerVars
  <2>2. Onward
    BY <1>1, <2>1, OnwardSame
  <2>3. StepAbout(x)'
    BY <1>2, <2>2, AboutOnward
  <2>4. QED
    BY <1>1, <1>2, <2>1, <2>2, <2>3, CallerOf, BeginFine
<1>3. \A s \in Active : s \in Sessions /\ sid[s] # None
  BY <1>1, ActiveInUse
<1>4. CASE FindAndSend(t)
  <2>1. PICK s \in Active : Calls(t, <<"sends", {s}>>)
    BY <1>4 DEF FindAndSend
  <2>2. StepAbout(<<"sends", {s}>>) /\ <<"sends", {s}>>[1] \in Unordered(t)
    BY <1>3 DEF StepAbout, AboutSession, Unordered
  <2>3. QED
    BY <1>2, <2>1, <2>2
<1>5. CASE Broadcast(t)
  <2>1. PICK a : a = Active
    OBVIOUS
  <2>2. Calls(t, <<"sends", a>>)
    BY <1>5, <2>1 DEF Broadcast
  <2>3. StepAbout(<<"sends", a>>) /\ <<"sends", a>>[1] \in Unordered(t)
    BY <1>3, <2>1 DEF StepAbout, AboutSession, Unordered
  <2>4. QED
    BY <1>2, <2>2, <2>3
<1>6. CASE FindAndClose(t)
  <2>1. PICK s \in Active : Calls(t, <<"close", s>>)
    BY <1>6 DEF FindAndClose
  <2>2. StepAbout(<<"close", s>>) /\ <<"close", s>>[1] \in Unordered(t)
    BY <1>3, CallerOf DEF StepAbout, AboutSession, Unordered
  <2>3. QED
    BY <1>2, <2>1, <2>2
<1>7. CASE CallDestroy(t)
  <2>1. PICK i \in 1..(idGen - 1) : Calls(t, <<"destroy", i>>)
    BY <1>7 DEF CallDestroy
  <2>2. StepAbout(<<"destroy", i>>) /\ <<"destroy", i>>[1] \in Unordered(t)
    BY DEF StepAbout, AboutSession, Unordered
  <2>3. QED
    BY <1>2, <2>1, <2>2
<1>8. QED
  BY <1>4, <1>5, <1>6, <1>7

LEMMA AcceptedFine ==
  ASSUME ManagerInv, FineInv, UseInv, NEW t \in Callers, Accepted(t)
  PROVE  FineInv' /\ Onward /\ DonesSame /\ ClosesStay
<1>1. TodoType /\ conns \in Nat /\ t \in Threads
  BY CallerOf DEF ManagerInv, Types
<1>2. PICK k \in Sockets : /\ conn' = [conn EXCEPT ![k] = conns + 1]
                           /\ todo' = [todo EXCEPT ![t] = << <<"create", k, conns + 1>> >>]
  BY DEF Accepted
<1>3. UNCHANGED <<sid, serves, closing, sock>> /\ todo[t] = <<>>
  BY DEF Accepted, Idle, sessionVars, managerVars
<1>4. Onward
  <2>1. \A j \in Sockets : conn'[j] \in {conn[j], conns + 1}
    BY <1>2 DEF UseInv
  <2>2. QED
    BY <1>1, <1>3, <2>1, OnwardIf DEF UseInv
<1>5. PICK x, q : x = <<"create", k, conns + 1>> /\ q = <<x>>
  OBVIOUS
<1>6. TodoChanges(t, q)
  BY <1>2, <1>3, <1>5 DEF TodoChanges
<1>7. IsSeq(q) /\ Len(q) = 1 /\ q[1] = x /\ \A i \in 1..Len(q) : i = 1
  <2>1. <<x>> \in Seq({x}) /\ Len(<<x>>) = 1 /\ <<x>>[1] = x
    OBVIOUS
  <2>2. q = <<x>>
    BY <1>5
  <2>3. IsSeq(q)
    BY <2>1, <2>2 DEF IsSeq
  <2>4. Len(q) = 1 /\ q[1] = x
    BY <2>1, <2>2
  <2>5. QED
    BY <2>3, <2>4
<1>8. StepAbout(q[1])' /\ StepAfter(t, q, 1)' /\ q[1][1] # "sendDone"
  <2>1. StepAbout(x)' /\ x[1] = "create"
    BY <1>5 DEF StepAbout, AboutSession
  <2>2. QED
    BY <1>7, <2>1, UnorderedFine
<1>9. QED
  BY <1>1, <1>3, <1>4, <1>6, <1>7, <1>8, FineStep, DonesStep

LEMMA FirstOfFree ==
  ASSUME Types, FreshInv, HasFree
  PROVE  /\ Head(freeList) \in Sessions /\ Head(freeList) = freeList[1] /\ Len(freeList) >= 1
         /\ idGen <= MaxSessions => Head(freeList) = idGen
         /\ sid[Head(freeList)] # None => idGen > MaxSessions
<1>1. /\ Head(freeList) \in Sessions /\ Head(freeList) = freeList[1] /\ Len(freeList) >= 1
      /\ idGen \in Nat /\ idGen >= 1 /\ MaxSessions \in Nat
  BY NetSessionAssumption DEF Types, HasFree
<1>2. ASSUME idGen <= MaxSessions PROVE Head(freeList) = idGen /\ sid[idGen] = None
  <2>1. 1 \in 1..(MaxSessions + 1 - idGen) /\ idGen \in Sessions
    BY <1>1, <1>2 DEF Sessions
  <2>2. freeList[1] = idGen + 1 - 1 /\ sid[idGen] = None
    BY <1>1, <2>1 DEF FreshInv
  <2>3. QED
    BY <1>1, <2>2
<1>3. QED
  BY <1>1, <1>2

LEMMA CreateAllocateFine ==
  ASSUME ManagerInv, FreshInv, FineInv, UseInv, NEW t \in Callers, CreateAllocate(t)
  PROVE  FineInv' /\ Onward /\ Control
<1>1. TodoType /\ StepsInv /\ conns \in Nat /\ Types /\ t \in Threads
  BY CallerOf DEF ManagerInv, Types
<1>2. PICK k : k = Arg(t)
  OBVIOUS
<1>3. At(t, "create") /\ UNCHANGED <<closing, conn>>
  BY DEF CreateAllocate, kernelVars
<1>4. CASE ~HasFree
  <2>1. UNCHANGED <<sid, serves, closing, sock, conn>> /\ Then(t, << <<"dropSocket", k>> >>)
    BY <1>2, <1>3, <1>4 DEF CreateAllocate
  <2>2. Onward
    BY <1>1, <2>1, OnwardSame
  <2>3. StepAbout(<<"dropSocket", k>>)'
    BY DEF StepAbout, AboutSession
  <2>4. QED
    BY <1>1, <1>3, <2>1, <2>2, <2>3, OneStepThen DEF Unordered
<1>5. CASE HasFree
  <2>1. PICK s : s = Head(freeList)
    OBVIOUS
  <2>2. /\ sid' = [sid EXCEPT ![s] = idGen] /\ sock' = [sock EXCEPT ![s] = k]
        /\ serves' = [serves EXCEPT ![s] = Arg2(t)]
        /\ Then(t, << <<"register", s>>, <<"postRecv", s>>, <<"associate", s, k>> >>)
    BY <1>2, <1>5, <2>1 DEF CreateAllocate, PoolAllocate
  <2>3. s \in Sessions /\ idGen \in Nat /\ idGen # 0 /\ MaxSessions \in Nat
        /\ (sid[s] # None => idGen > MaxSessions)
    BY <1>1, <1>5, <2>1, FirstOfFree, NetSessionAssumption DEF Types
  <2>4. sid'[s] = idGen /\ \A x \in Sessions \ {s} : sid'[x] = sid[x] /\ sock'[x] = sock[x] /\ serves'[x] = serves[x]
    BY <1>1, <2>2, <2>3 DEF Types, UseInv
  <2>5. Onward
    <3>1. SUFFICES ASSUME NEW x \in Sessions, sid[x] # None
                   PROVE  /\ sid'[x] # None
                          /\ closing[x] => closing'[x]
                          /\ FirstUse(x)' => FirstUse(x) /\ serves'[x] = serves[x] /\ sock'[x] \in {sock[x], None}
                                             /\ (Linked(x)' => Linked(x))
      BY DEF Onward
    <3>2. CASE x = s
      BY <1>3, <2>3, <2>4, <3>1, <3>2 DEF FirstUse, None
    <3>3. CASE x # s
      BY <1>3, <2>4, <3>1, <3>3 DEF FirstUse, Linked
    <3>4. QED
      BY <3>2, <3>3
  <2>6. PICK q : q = << <<"register", s>>, <<"postRecv", s>>, <<"associate", s, k>> >>
    OBVIOUS
  <2>7. Len(q) = 3 /\ IsSeq(q) /\ q[1] = <<"register", s>> /\ q[2] = <<"postRecv", s>> /\ q[3] = <<"associate", s, k>>
    <3>1. q \in Seq({<<"register", s>>, <<"postRecv", s>>, <<"associate", s, k>>})
      BY <2>6
    <3>2. QED
      BY <2>6, <3>1 DEF IsSeq
  <2>8. StepAbout(q[1])' /\ StepAbout(q[2])' /\ StepAbout(q[3])'
    <3>1. sid'[s] # None
      BY <2>3, <2>4 DEF None
    <3>2. QED
      BY <2>3, <2>7, <3>1 DEF StepAbout, AboutSession
  <2>9. \A i \in 1..Len(q) : StepAbout(q[i])' /\ StepAfter(t, q, i)' /\ q[i][1] \notin {"sendDone", "create"}
    <3>1. \A i \in 1..Len(q) : i = 1 \/ i = 2 \/ i = 3
      BY <2>7
    <3>2. /\ StepAfter(t, q, 1)' /\ q[1][1] \notin {"sendDone", "create"}
          /\ StepAfter(t, q, 2)' /\ q[2][1] \notin {"sendDone", "create"}
          /\ StepAfter(t, q, 3)' /\ q[3][1] \notin {"sendDone", "create"}
      BY <2>7, UnorderedFine DEF Unordered
    <3>3. QED
      BY <2>8, <3>1, <3>2
  <2>10. QED
    BY <1>1, <1>3, <2>2, <2>5, <2>6, <2>7, <2>9, OrdinaryThen
<1>6. QED
  BY <1>4, <1>5

LEMMA RegisterFine ==
  ASSUME ManagerInv, FineInv, UseInv, NEW t \in Callers, CreateRegister(t)
  PROVE  FineInv' /\ Onward /\ Control
<1>1. TodoType /\ StepsInv /\ conns \in Nat /\ t \in Threads
  BY CallerOf DEF ManagerInv, Types
<1>2. UNCHANGED <<sid, serves, closing, sock, conn>> /\ At(t, "register") /\ Then(t, <<>>)
  BY DEF CreateRegister, sessionVars, kernelVars
<1>3. Onward
  BY <1>1, <1>2, OnwardSame
<1>4. QED
  BY <1>1, <1>2, <1>3, NoStepThen

LEMMA AssociateFine ==
  ASSUME ManagerInv, FineInv, UseInv, NEW t \in Callers, Associate(t)
  PROVE  FineInv' /\ Onward /\ Control
<1>1. TodoType /\ StepsInv /\ conns \in Nat /\ t \in Threads
  BY CallerOf DEF ManagerInv, Types
<1>2. UNCHANGED <<sid, serves, closing, sock, conn>> /\ At(t, "associate")
  BY DEF Associate, sessionVars, managerVars
<1>3. Onward
  BY <1>1, <1>2, OnwardSame
<1>4. PICK s, k, i : s = Arg(t) /\ k = Arg2(t) /\ i = sid[s]
  OBVIOUS
<1>5. s \in Sessions /\ sid[s] # None
  BY <1>1, <1>2, <1>4, ArgInUse DEF AboutSession
<1>6. \/ Then(t, << <<"postRecv", s>> >>)
      \/ Then(t, << <<"destroy", i>>, <<"dropSocket", k>> >>)
  BY <1>4 DEF Associate
<1>7. /\ StepAbout(<<"postRecv", s>>)' /\ StepAbout(<<"destroy", i>>)' /\ StepAbout(<<"dropSocket", k>>)'
  BY <1>2, <1>5 DEF StepAbout, AboutSession
<1>8. QED
  BY <1>1, <1>2, <1>3, <1>6, <1>7, OneStepThen, TwoStepsThen DEF Unordered

LEMMA DestroyEraseFine ==
  ASSUME ManagerInv, FineInv, UseInv, NEW t \in Callers, DestroyErase(t)
  PROVE  FineInv' /\ Onward /\ Control
<1>1. TodoType /\ StepsInv /\ conns \in Nat /\ t \in Threads /\ Types /\ IdsInv /\ StepsInv
  BY CallerOf DEF ManagerInv, Types
<1>2. UNCHANGED <<sid, serves, closing, sock, conn>> /\ At(t, "destroy")
  BY DEF DestroyErase, sessionVars, kernelVars
<1>3. Onward
  BY <1>1, <1>2, OnwardSame
<1>4. CASE Then(t, <<>>)
  BY <1>1, <1>2, <1>3, <1>4, NoStepThen
<1>5. CASE ~Then(t, <<>>)
  <2>1. PICK s : s = sessions[Arg(t)]
    OBVIOUS
  <2>2. s # None /\ Then(t, << <<"close", s>>, <<"release", s>> >>)
    BY <1>5, <2>1 DEF DestroyErase
  <2>3. s \in Sessions /\ sid[s] # None
    <3>1. Arg(t) \in Ids
      BY <1>1, <1>2, NextStepOK DEF StepOK, At, Arg
    <3>2. s \in Active
      BY <2>1, <2>2, <3>1 DEF Active
    <3>3. QED
      BY <1>1, <3>2, ActiveInUse
  <2>4. PICK q : q = << <<"close", s>>, <<"release", s>> >>
    OBVIOUS
  <2>5. Len(q) = 2 /\ IsSeq(q) /\ q[1] = <<"close", s>> /\ q[2] = <<"release", s>>
    <3>1. q \in Seq({<<"close", s>>, <<"release", s>>})
      BY <2>4
    <3>2. QED
      BY <2>4, <3>1 DEF IsSeq
  <2>6. StepAbout(q[1])' /\ StepAbout(q[2])'
    BY <1>2, <2>3, <2>5 DEF StepAbout, AboutSession
  <2>7. StepAfter(t, q, 1)' /\ q[1][1] \notin {"sendDone", "create"}
    BY <2>5, CallerOf, UnorderedFine DEF Unordered
  <2>8. StepAfter(t, q, 2)' /\ q[2][1] \notin {"sendDone", "create"}
    <3>1. \A x : <<"release", s>> # <<"close", x>> /\ (<<"release", s>> = <<"release", x>> => x = s)
      OBVIOUS
    <3>2. q[2][1] # "sendDone" /\ 2 > 1 /\ q[2 - 1] = <<"close", s>>
      BY <2>5
    <3>3. QED
      BY <2>5, <3>1, <3>2 DEF StepAfter
  <2>9. \A i \in 1..Len(q) : StepAbout(q[i])' /\ StepAfter(t, q, i)' /\ q[i][1] \notin {"sendDone", "create"}
    <3>1. \A i \in 1..Len(q) : i = 1 \/ i = 2
      BY <2>5
    <3>2. QED
      BY <2>6, <2>7, <2>8, <3>1
  <2>10. QED
    BY <1>1, <1>2, <1>3, <2>2, <2>4, <2>5, <2>9, OrdinaryThen
<1>6. QED
  BY <1>4, <1>5

LEMMA ReleaseFine ==
  ASSUME ManagerInv, FineInv, UseInv, NEW t \in Callers, DestroyRelease(t)
  PROVE  FineInv' /\ Onward /\ Control
<1>1. TodoType /\ StepsInv /\ conns \in Nat /\ t \in Threads
  BY CallerOf DEF ManagerInv, Types
<1>2. UNCHANGED <<sid, serves, closing, sock, conn>> /\ At(t, "release") /\ Then(t, <<>>)
  BY DEF DestroyRelease, PoolRelease, sessionVars, kernelVars
<1>3. Onward
  BY <1>1, <1>2, OnwardSame
<1>4. QED
  BY <1>1, <1>2, <1>3, NoStepThen

LEMMA SendToNextFine ==
  ASSUME ManagerInv, FineInv, UseInv, NEW t \in Callers, SendToNext(t)
  PROVE  FineInv' /\ Onward /\ Control
<1>1. TodoType /\ StepsInv /\ conns \in Nat /\ t \in Threads
  BY CallerOf DEF ManagerInv, Types
<1>2. PICK a, s : a = Arg(t) /\ s \in a /\ SendOn(s)
                  /\ Then(t, IF a = {s} THEN <<>> ELSE << <<"sends", a \ {s}>> >>)
  BY DEF SendToNext
<1>3. At(t, "sends") /\ UNCHANGED <<sid, serves, closing, sock, conn>>
  BY <1>2 DEF SendToNext, SendOn, managerVars
<1>4. Onward
  BY <1>1, <1>3, OnwardSame
<1>5. StepAbout(<<"sends", a \ {s}>>)'
  <2>1. StepAbout(Head(todo[t])) /\ Head(todo[t])[1] = "sends" /\ Head(todo[t])[2] = a
    BY <1>1, <1>2, <1>3, HeadFine DEF At, Arg
  <2>2. QED
    BY <1>3, <2>1 DEF StepAbout, AboutSession
<1>6. CASE Then(t, <<>>)
  BY <1>1, <1>3, <1>4, <1>6, NoStepThen
<1>7. CASE Then(t, << <<"sends", a \ {s}>> >>)
  BY <1>1, <1>3, <1>4, <1>5, <1>7, OneStepThen DEF Unordered
<1>8. QED
  BY <1>2, <1>6, <1>7

\* The completion is handled: its step goes, nothing comes.
LEMMA SendDoneFine ==
  ASSUME TodoType, StepsInv, FineInv, UseInv, conns \in Nat, NEW t \in Threads, SendDone(t), UNCHANGED managerVars
  PROVE  /\ FineInv' /\ Onward /\ ClosesStay /\ NoCreate
         /\ Arg(t) \in Sessions /\ In(todo[t], <<"sendDone", Arg(t)>>)
         /\ \A u \in Threads : \A x \in Sessions :
              In(todo'[u], <<"sendDone", x>>) <=> In(todo[u], <<"sendDone", x>>) /\ u # t
<1>1. /\ UNCHANGED <<sid, serves, closing, sock, conn>> /\ At(t, "sendDone") /\ Then(t, <<>>)
  BY DEF SendDone, managerVars
<1>2. Onward
  BY <1>1, OnwardSame
<1>3. TodoChanges(t, <<>>) /\ todo[t] # <<>> /\ Head(todo[t])[1] = "sendDone"
  BY <1>1, ThenChanges
<1>4. \A x : Head(todo[t]) \notin {<<"closeSocket", x>>, <<"clearSock", x>>, <<"close", x>>}
  <2>1. \A a, b : <<a, b>>[1] = a
    OBVIOUS
  <2>2. QED
    BY <1>3, <2>1
<1>5. FineInv'
  BY <1>2, <1>3, <1>4, NoneFine, FineStep
<1>6. ClosesStay
  BY <1>2, <1>3, <1>4, NoneFine, ClosesStayStep
<1>7. StepAfter(t, todo[t], 1) /\ Head(todo[t]) = todo[t][1] /\ In(todo[t], Head(todo[t]))
  BY <1>3, HeadFine
<1>8. Len(todo[t]) = 1
  BY <1>3, <1>7 DEF StepAfter
<1>9. todo'[t] = <<>> /\ \A u \in Threads \ {t} : todo'[u] = todo[u]
  <2>1. PICK S : todo[t] \in Seq(S)
    BY DEF TodoType, IsSeq
  <2>2. Tail(todo[t]) = <<>>
    <3>1. Tail(todo[t]) \in Seq(S) /\ Len(Tail(todo[t])) = 0
      BY <1>3, <1>8, <2>1
    <3>2. QED
      BY <3>1, SeqLen DEF IsSeq
  <2>3. todo'[t] = <<>> \o Tail(todo[t])
    BY <1>3 DEF TodoChanges, TodoType
  <2>4. todo'[t] = <<>>
    BY <2>2, <2>3
  <2>5. QED
    BY <1>3, <2>4, NoneFine, TodoChange
<1>10. \A u \in Threads : \A x \in Sessions :
         In(todo'[u], <<"sendDone", x>>) <=> In(todo[u], <<"sendDone", x>>) /\ u # t
  BY <1>9, InNone
<1>11. In(todo[t], <<"sendDone", Arg(t)>>) /\ Arg(t) \in Sessions
  <2>1. StepAbout(Head(todo[t])) /\ Head(todo[t])[2] = Arg(t)
    BY <1>3, HeadFine DEF Arg
  <2>2. Head(todo[t]) = <<"sendDone", Arg(t)>>
    BY <1>3, <2>1 DEF StepAbout
  <2>3. QED
    BY <1>1, <1>7, <2>2, ArgInUse DEF AboutSession
<1>12. NoCreate
  BY <1>3, NoneFine, NoCreateStep
<1>13. QED
  BY <1>2, <1>5, <1>6, <1>10, <1>11, <1>12

\* A worker takes a packet.  What it does next depends on how the call ended.
LEMMA TakeFine ==
  ASSUME ManagerInv, FineInv, UseInv, IosInv, NEW w \in Workers, TakePacket(w), UNCHANGED managerVars
  PROVE  /\ FineInv' /\ Onward /\ NoCreate
         /\ Head(port) \in Ovs /\ ios[Head(port)] # NoIo /\ ios[Head(port)].owner \in Sessions
         /\ LET io == ios[Head(port)] IN
            /\ ClosesStay
            /\ \A x \in Sessions : io.state = "failed" /\ x = io.owner => WillClose(x)'
            /\ \A u \in Threads : \A x \in Sessions :
                 In(todo'[u], <<"sendDone", x>>) <=>
                   \/ In(todo[u], <<"sendDone", x>>)
                   \/ u = w /\ x = io.owner /\ io.type = "send" /\ io.state # "failed"
<1>1. TodoType /\ StepsInv /\ conns \in Nat /\ w \in Threads
  BY DEF ManagerInv, Types, Threads
<1>2. PICK io, s : io = ios[Head(port)] /\ s = io.owner
  OBVIOUS
<1>3. Head(port) \in Ovs /\ io # NoIo /\ s \in Sessions /\ sid[s] # None
  <2>1. Head(port) \in Ovs /\ In(port, Head(port))
    <3>1. port \in Seq(Ovs) /\ port # <<>>
      BY DEF TakePacket, IosInv
    <3>2. Head(port) = port[1] /\ 1 \in 1..Len(port) /\ port[1] \in Ovs
      BY <3>1
    <3>3. QED
      BY <3>2 DEF In
  <2>2. io # NoIo /\ io \in {NoIo} \cup RecvIos \cup SendIos /\ sid[s] # None
    BY <1>2, <2>1 DEF IosInv
  <2>3. io.owner \in Sessions
    BY <2>2 DEF RecvIos, SendIos
  <2>4. QED
    BY <1>2, <2>1, <2>2, <2>3
<1>4. /\ UNCHANGED <<sid, serves, closing, sock, conn>> /\ todo[w] = <<>>
      /\ todo' = [todo EXCEPT ![w] = StepsFor(io)]
  BY <1>2 DEF TakePacket, Idle, sessionVars, managerVars
<1>5. Onward
  BY <1>1, <1>4, OnwardSame
<1>6. PICK q : q = StepsFor(io)
  OBVIOUS
<1>7. TodoChanges(w, q)
  BY <1>4, <1>6 DEF TodoChanges
<1>8. \/ io.state = "failed" /\ q = << <<"closeSocket", s>>, <<"close", s>> >>
      \/ io.state # "failed" /\ io.type = "recv" /\ q = << <<"resetRx", s>>, <<"postRecv", s>> >>
      \/ io.state # "failed" /\ io.type # "recv" /\ q = << <<"sendDone", s>> >>
  BY <1>2, <1>6 DEF StepsFor
<1>9. io.type \in {"recv", "send"}
  <2>1. io \in RecvIos \cup SendIos
    BY <1>2, <1>3 DEF IosInv
  <2>2. QED
    BY <2>1 DEF RecvIos, SendIos
<1>10. /\ IsSeq(q)
       /\ \A x : In(q, x) <=> \/ io.state = "failed" /\ (x = <<"closeSocket", s>> \/ x = <<"close", s>>)
                              \/ /\ io.state # "failed" /\ io.type = "recv"
                                 /\ x = <<"resetRx", s>> \/ x = <<"postRecv", s>>
                              \/ io.state # "failed" /\ io.type # "recv" /\ x = <<"sendDone", s>>
  <2>1. ASSUME NEW a, NEW b, q = <<a, b>> PROVE IsSeq(q) /\ \A x : In(q, x) <=> x = a \/ x = b
    <3>1. <<a, b>> \in Seq({a, b})
      OBVIOUS
    <3>2. QED
      BY <2>1, <3>1, InTwo DEF IsSeq
  <2>2. ASSUME NEW a, q = <<a>> PROVE IsSeq(q) /\ \A x : In(q, x) <=> x = a
    <3>1. <<a>> \in Seq({a})
      OBVIOUS
    <3>2. QED
      BY <2>2, <3>1, InOne DEF IsSeq
  <2>3. CASE io.state = "failed"
    <3>1. q = << <<"closeSocket", s>>, <<"close", s>> >>
      BY <1>8, <2>3
    <3>2. QED
      BY <2>1, <2>3, <3>1
  <2>4. CASE io.state # "failed" /\ io.type = "recv"
    <3>1. q = << <<"resetRx", s>>, <<"postRecv", s>> >>
      BY <1>8, <2>4
    <3>2. QED
      BY <2>1, <2>4, <3>1
  <2>5. CASE io.state # "failed" /\ io.type # "recv"
    <3>1. q = << <<"sendDone", s>> >>
      BY <1>8, <2>5
    <3>2. QED
      BY <2>2, <2>5, <3>1
  <2>6. QED
    BY <2>3, <2>4, <2>5
<1>11. \A i \in 1..Len(q) : StepAbout(q[i])' /\ StepAfter(w, q, i)'
  <2>1. ASSUME NEW i \in 1..Len(q) PROVE StepAbout(q[i])'
    <3>1. In(q, q[i])
      BY DEF In
    <3>2. \E n : q[i] = <<n, s>>
      BY <1>10, <3>1
    <3>3. PICK n : q[i] = <<n, s>>
      BY <3>2
    <3>4. n \notin {"sends", "closeHandle", "create"}
      <4>1. \A a : /\ <<n, s>> = <<a, s>> => n = a
        OBVIOUS
      <4>2. QED
        BY <1>10, <3>1, <3>3, <4>1
    <3>5. QED
      BY <1>3, <1>4, <3>3, <3>4 DEF StepAbout
  <2>2. CASE io.state = "failed"
    <3>1. q = << <<"closeSocket", s>>, <<"close", s>> >>
      BY <1>8, <2>2
    <3>2. Len(q) = 2 /\ q[1] = <<"closeSocket", s>> /\ q[2] = <<"close", s>> /\ \A i \in 1..Len(q) : i = 1 \/ i = 2
      BY <3>1
    <3>3. StepAfter(w, q, 1)'
      BY <3>2, UnorderedFine DEF Unordered
    <3>4. StepAfter(w, q, 2)'
      <4>1. \A x : <<"close", s>> # <<"release", x>> /\ (<<"close", s>> = <<"close", x>> => x = s)
        OBVIOUS
      <4>2. q[2][1] # "sendDone" /\ 2 > 1 /\ q[2 - 1] = <<"closeSocket", s>>
        BY <3>2
      <4>3. QED
        BY <3>2, <4>1, <4>2 DEF StepAfter
    <3>5. QED
      BY <2>1, <3>2, <3>3, <3>4
  <2>3. CASE io.state # "failed" /\ io.type = "recv"
    <3>1. q = << <<"resetRx", s>>, <<"postRecv", s>> >>
      BY <1>8, <2>3
    <3>2. Len(q) = 2 /\ q[1] = <<"resetRx", s>> /\ q[2] = <<"postRecv", s>> /\ \A i \in 1..Len(q) : i = 1 \/ i = 2
      BY <3>1
    <3>3. StepAfter(w, q, 1)' /\ StepAfter(w, q, 2)'
      BY <3>2, UnorderedFine DEF Unordered
    <3>4. QED
      BY <2>1, <3>2, <3>3
  <2>4. CASE io.state # "failed" /\ io.type # "recv"
    <3>1. q = << <<"sendDone", s>> >>
      BY <1>8, <2>4
    <3>2. Len(q) = 1 /\ q[1] = <<"sendDone", s>> /\ \A i \in 1..Len(q) : i = 1
      BY <3>1
    <3>3. StepAfter(w, q, 1)'
      <4>1. \A x : <<"sendDone", s>> # <<"release", x>> /\ <<"sendDone", s>> # <<"close", x>>
        OBVIOUS
      <4>2. QED
        BY <3>2, <4>1 DEF StepAfter
    <3>4. QED
      BY <2>1, <3>2, <3>3
  <2>5. QED
    BY <2>2, <2>3, <2>4
<1>12. FineInv'
  BY <1>1, <1>4, <1>5, <1>7, <1>10, <1>11, FineStep
<1>13. ClosesStay
  BY <1>1, <1>4, <1>5, <1>7, <1>10, ClosesStayStep
<1>14. /\ \A u \in Threads \ {w} : todo'[u] = todo[u]
       /\ \A x : In(todo'[w], x) <=> In(q, x)
  <2>1. todo'[w] = q
    BY <1>1, <1>4, <1>6 DEF TodoType
  <2>2. QED
    BY <1>1, <1>7, <1>10, <2>1, TodoChange
<1>15. ASSUME io.state = "failed" PROVE WillClose(s)'
  BY <1>10, <1>14, <1>15 DEF WillClose
<1>16. \A u \in Threads : \A x \in Sessions :
         In(todo'[u], <<"sendDone", x>>) <=>
           \/ In(todo[u], <<"sendDone", x>>)
           \/ u = w /\ x = s /\ io.type = "send" /\ io.state # "failed"
  <2>1. \A x : <<"sendDone", x>> \notin {<<"closeSocket", s>>, <<"close", s>>, <<"resetRx", s>>, <<"postRecv", s>>}
               /\ (<<"sendDone", x>> = <<"sendDone", s>> <=> x = s)
    OBVIOUS
  <2>2. \A x : In(q, <<"sendDone", x>>) <=> x = s /\ io.type = "send" /\ io.state # "failed"
    BY <1>9, <1>10, <2>1
  <2>3. ~\E x : In(todo[w], x)
    BY <1>4, InNone
  <2>4. \A x \in Sessions : In(todo'[w], <<"sendDone", x>>) <=> x = s /\ io.type = "send" /\ io.state # "failed"
    BY <1>14, <2>2
  <2>5. \A u \in Threads : u # w => todo'[u] = todo[u]
    BY <1>14
  <2>6. ASSUME NEW u \in Threads, NEW x \in Sessions
        PROVE  In(todo'[u], <<"sendDone", x>>) <=>
                 \/ In(todo[u], <<"sendDone", x>>)
                 \/ u = w /\ x = s /\ io.type = "send" /\ io.state # "failed"
    <3>1. CASE u = w
      <4>1. ~In(todo[u], <<"sendDone", x>>)
        BY <2>3, <3>1
      <4>2. todo'[u] = todo'[w]
        BY <3>1
      <4>3. QED
        BY <2>4, <3>1, <4>1, <4>2
    <3>2. CASE u # w
      BY <2>5, <3>2
    <3>3. QED
      BY <3>1, <3>2
  <2>7. QED
    BY <2>6, Zenon
<1>17. NoCreate
  <2>1. \A i \in 1..Len(q) : q[i][1] # "create"
    <3>1. SUFFICES ASSUME NEW i \in 1..Len(q) PROVE q[i][1] # "create"
      OBVIOUS
    <3>2. In(q, q[i])
      BY DEF In
    <3>3. QED
      BY <1>10, <3>2
  <2>2. QED
    BY <1>1, <1>7, <1>10, <2>1, NoCreateStep
<1>18. QED
  BY <1>2, <1>3, <1>5, <1>12, <1>13, <1>15, <1>16, <1>17

-----------------------------------------------------------------------------
(* The parts of the invariant that need nothing of the calls.              *)

Beginning(t) == FindAndSend(t) \/ Broadcast(t) \/ FindAndClose(t) \/ CallDestroy(t)
Receiving(t) == \/ PostRecvAcquire(t) \/ FillRx(t) \/ MoveRx(t) \/ PostRecvCall(t)
                \/ ResetRx(t) \/ ClearRx(t) \/ ReleaseRx(t)

\* The operations, each once.
LEMMA NextIs ==
  ASSUME Next
  PROVE  \/ \E t \in Callers : \/ Accepted(t) \/ Beginning(t) \/ CreateAllocate(t) \/ CreateRegister(t)
                               \/ Associate(t) \/ DestroyErase(t) \/ DestroyRelease(t) \/ SendToNext(t)
         \/ \E t \in Threads : \/ CloseSocket(t) /\ UNCHANGED managerVars
                               \/ (CloseSocketHandle(t) \/ DropSocket(t)) /\ UNCHANGED managerVars
                               \/ ClearSock(t) /\ UNCHANGED managerVars
                               \/ Close(t) /\ UNCHANGED managerVars
                               \/ Receiving(t) /\ UNCHANGED managerVars
                               \/ SendDone(t) /\ UNCHANGED managerVars
         \/ \E w \in Workers : TakePacket(w) /\ UNCHANGED managerVars
         \/ \E o \in Ovs : Complete(o) /\ UNCHANGED managerVars
<1>1. \A t : DropSocket(t) => UNCHANGED managerVars
  BY DEF DropSocket
<1>2. Callers \subseteq Threads /\ Workers \subseteq Threads
  BY DEF Threads
<1>3. QED
  BY <1>1, <1>2, Zenon DEF Next, CallerStep, WorkerStep, SessionStep, Beginning, Receiving

LEMMA FreshKeeps ==
  ASSUME ManagerInv, FreshInv, Next
  PROVE  FreshInv'
<1>1. Types /\ idGen \in Nat /\ MaxSessions \in Nat /\ Len(freeList) \in Nat
  BY NetSessionAssumption DEF ManagerInv, Types
<1>2. CASE UNCHANGED <<freeList, idGen, sid>>
  BY <1>2 DEF FreshInv
<1>3. ASSUME NEW t, CreateAllocate(t), HasFree PROVE FreshInv'
  <2> DEFINE s == Head(freeList)
  <2>1. /\ freeList' = Tail(freeList) /\ sid' = [sid EXCEPT ![s] = idGen] /\ idGen' = idGen + 1
    BY <1>3 DEF CreateAllocate, PoolAllocate
  <2>2. /\ s \in Sessions /\ Len(freeList) >= 1
        /\ idGen <= MaxSessions => s = idGen
    BY <1>1, <1>3, FirstOfFree
  <2>3. Len(freeList') = Len(freeList) - 1 /\ \A i \in 1..(Len(freeList) - 1) : freeList'[i] = freeList[i + 1]
    BY <1>1, <2>1, <2>2 DEF Types
  <2> HIDE DEF s
  <2>4. idGen # None /\ s \in Nat /\ s <= MaxSessions
    BY <1>1, <2>2 DEF Types, Sessions, None
  <2>5. \A x \in Sessions : sid'[x] = None <=> idGen' <= x
    <3>1. SUFFICES ASSUME NEW x \in Sessions PROVE sid'[x] = None <=> idGen + 1 <= x
      BY <2>1
    <3>2. x \in Nat /\ x <= MaxSessions /\ (sid[x] = None <=> idGen <= x)
      BY <1>1 DEF FreshInv, Sessions
    <3>3. sid'[x] = IF x = s THEN idGen ELSE sid[x]
      BY <1>1, <2>1, <2>2 DEF Types
    <3>4. QED
      BY <1>1, <2>2, <2>4, <3>2, <3>3
  <2>6. ASSUME NEW i \in 1..(MaxSessions + 1 - idGen')
        PROVE  i <= Len(freeList') /\ freeList'[i] = idGen' + i - 1
    <3>1. i \in Nat /\ i >= 1 /\ i + 1 \in 1..(MaxSessions + 1 - idGen)
      BY <1>1, <2>1, <2>6
    <3>2. i + 1 <= Len(freeList) /\ freeList[i + 1] = idGen + (i + 1) - 1
      BY <3>1 DEF FreshInv
    <3>3. i \in 1..(Len(freeList) - 1)
      BY <1>1, <3>1, <3>2
    <3>4. QED
      BY <1>1, <2>1, <2>3, <3>1, <3>2, <3>3
  <2>7. QED
    BY <2>5, <2>6 DEF FreshInv
<1>4. ASSUME NEW t \in Threads, DestroyRelease(t) PROVE FreshInv'
  <2>1. PICK s : freeList' = Append(freeList, s) /\ UNCHANGED <<sid, idGen>> /\ s = Arg(t)
    BY <1>4 DEF DestroyRelease, PoolRelease
  <2>2. StepOK(sid, 1, Head(todo[t])) /\ Head(todo[t])[1] = "release"
    BY <1>4, NextStepOK DEF DestroyRelease, At, ManagerInv
  <2>3. s \in Sessions
    BY <2>1, <2>2 DEF StepOK, Arg
  <2>4. Len(freeList') = Len(freeList) + 1 /\ \A i \in 1..Len(freeList) : freeList'[i] = freeList[i]
    BY <1>1, <2>1, <2>3 DEF Types
  <2>5. ASSUME NEW i \in 1..(MaxSessions + 1 - idGen')
        PROVE  i <= Len(freeList') /\ freeList'[i] = idGen' + i - 1
    <3>1. i \in Nat /\ i >= 1 /\ i <= Len(freeList) /\ freeList[i] = idGen + i - 1
      BY <1>1, <2>1, <2>5 DEF FreshInv
    <3>2. QED
      BY <1>1, <2>1, <2>4, <3>1
  <2>6. QED
    BY <2>1, <2>5 DEF FreshInv
<1>5. CASE \E t \in Callers : CreateAllocate(t) \/ DestroyRelease(t)
  <2>1. PICK t \in Callers : CreateAllocate(t) \/ DestroyRelease(t)
    BY <1>5
  <2>2. CASE CreateAllocate(t) /\ ~HasFree
    BY <1>2, <2>2 DEF CreateAllocate
  <2>3. QED
    BY <1>3, <1>4, <2>1, <2>2, CallerOf
<1>6. ASSUME NEW t, \/ Accepted(t) \/ Beginning(t) \/ CreateRegister(t) \/ Associate(t)
                    \/ DestroyErase(t) \/ SendToNext(t)
      PROVE  UNCHANGED <<freeList, idGen, sid>>
  BY <1>6 DEF Accepted, Beginning, FindAndSend, Broadcast, FindAndClose, CallDestroy, Calls,
              CreateRegister, Associate, DestroyErase, SendToNext, managerVars
<1>7. UNCHANGED managerVars => UNCHANGED <<freeList, idGen, sid>>
  BY DEF managerVars
<1>8. QED
  BY <1>2, <1>5, <1>6, <1>7, NextIs

LEMMA SendPartsOf ==
  ASSUME ManagerInv, SendInv
  PROVE  /\ Types /\ TodoType /\ StepsInv /\ IdsInv /\ conns \in Nat /\ conns <= MaxConns
         /\ FreshInv /\ UseInv /\ NewInv /\ FineInv /\ IosInv /\ TokenInv /\ CallInv /\ AliveInv
         /\ ClosedInv /\ FreedInv /\ QueueInv
BY NetSessionAssumption DEF ManagerInv, SendInv, Types

LEMMA NextFine ==
  ASSUME ManagerInv, SendInv, Next
  PROVE  FineInv' /\ Onward /\ ClosesStay
<1>1. /\ Types /\ TodoType /\ StepsInv /\ IdsInv /\ conns \in Nat
      /\ FreshInv /\ UseInv /\ FineInv /\ IosInv
  BY SendPartsOf
<1>2. ASSUME NEW t \in Callers, \/ Accepted(t) \/ Beginning(t) \/ CreateAllocate(t) \/ CreateRegister(t)
                                \/ Associate(t) \/ DestroyErase(t) \/ DestroyRelease(t) \/ SendToNext(t)
      PROVE  FineInv' /\ Onward /\ ClosesStay
  BY <1>1, <1>2, AcceptedFine, CallsFine, CreateAllocateFine, RegisterFine, AssociateFine,
     DestroyEraseFine, ReleaseFine, SendToNextFine DEF Beginning, Control
<1>3. ASSUME NEW t \in Threads, UNCHANGED managerVars,
             \/ CloseSocket(t) \/ CloseSocketHandle(t) \/ DropSocket(t) \/ ClearSock(t) \/ Close(t)
             \/ Receiving(t) \/ SendDone(t)
      PROVE  FineInv' /\ Onward /\ ClosesStay
  BY <1>1, <1>3, CloseSocketFine, CloseHandleFine, ClearSockFine, CloseFine, OtherSessionFine,
     SendDoneFine DEF Receiving, Control
<1>4. ASSUME NEW w \in Workers, TakePacket(w), UNCHANGED managerVars
      PROVE  FineInv' /\ Onward /\ ClosesStay
  BY <1>1, <1>4, TakeFine
<1>5. ASSUME NEW o \in Ovs, Complete(o), UNCHANGED managerVars
      PROVE  FineInv' /\ Onward /\ ClosesStay
  <2>1. UNCHANGED <<todo, sid, serves, closing, sock, conn>>
    BY <1>5 DEF Complete, sessionVars, managerVars
  <2>2. Onward
    BY <1>1, <2>1, OnwardSame
  <2>3. FineInv'
    BY <1>1, <2>1 DEF FineInv, StepAbout, StepAfter, FirstUse, Linked
  <2>4. ClosesStay
    BY <2>1 DEF ClosesStay, WillClose, Closes
  <2>5. QED
    BY <2>2, <2>3, <2>4
<1>6. QED
  BY <1>2, <1>3, <1>4, <1>5, NextIs

LEMMA NextNoCreate ==
  ASSUME ManagerInv, SendInv, Next
  PROVE  NoCreate \/ \E t \in Callers : Accepted(t)
<1>1. /\ Types /\ TodoType /\ StepsInv /\ IdsInv /\ conns \in Nat
      /\ FreshInv /\ UseInv /\ FineInv /\ IosInv
  BY SendPartsOf
<1>2. ASSUME NEW t \in Callers, \/ Beginning(t) \/ CreateAllocate(t) \/ CreateRegister(t)
                                \/ Associate(t) \/ DestroyErase(t) \/ DestroyRelease(t) \/ SendToNext(t)
      PROVE  NoCreate
  BY <1>1, <1>2, CallsFine, CreateAllocateFine, RegisterFine, AssociateFine,
     DestroyEraseFine, ReleaseFine, SendToNextFine DEF Beginning, Control
<1>3. ASSUME NEW t \in Threads, UNCHANGED managerVars,
             \/ CloseSocket(t) \/ CloseSocketHandle(t) \/ DropSocket(t) \/ ClearSock(t) \/ Close(t)
             \/ Receiving(t) \/ SendDone(t)
      PROVE  NoCreate
  BY <1>1, <1>3, CloseSocketFine, CloseHandleFine, ClearSockFine, CloseFine, OtherSessionFine,
     SendDoneFine DEF Receiving, Control
<1>4. ASSUME NEW w \in Workers, TakePacket(w), UNCHANGED managerVars
      PROVE  NoCreate
  BY <1>1, <1>4, TakeFine
<1>5. ASSUME NEW o \in Ovs, Complete(o) PROVE NoCreate
  BY <1>5 DEF Complete, NoCreate, At
<1>6. QED
  BY <1>2, <1>3, <1>4, <1>5, NextIs

\* Which operations change the sessions themselves, and how.
SendsOrNot(s) == sending' \in {sending, [sending EXCEPT ![s] = TRUE], [sending EXCEPT ![s] = FALSE]}

LEMMA PostFrontSends ==
  ASSUME NEW s, NEW q, PostFront(s, q)
  PROVE  SendsOrNot(s)
BY DEF PostFront, SendsOrNot

LEMMA UseKeeps ==
  ASSUME ManagerInv, SendInv, Next
  PROVE  UseInv'
<1>1. /\ Types /\ TodoType /\ conns \in Nat /\ FreshInv /\ UseInv /\ NewInv /\ FineInv /\ StepsInv
  BY SendPartsOf
<1>2. CASE UNCHANGED <<sock, conn, serves, closing, sending, sid, conns>>
  BY <1>1, <1>2 DEF UseInv
<1>3. ASSUME NEW t \in Callers, Accepted(t) PROVE UseInv'
  <2>1. PICK k \in Sockets : conn' = [conn EXCEPT ![k] = conns + 1]
    BY <1>3 DEF Accepted
  <2>2. UNCHANGED <<sock, serves, closing, sending, sid>> /\ conns' = conns + 1
    BY <1>3 DEF Accepted, sessionVars, managerVars
  <2>3. 0..conns \subseteq 0..(conns + 1) /\ conns + 1 \in 0..(conns + 1)
    BY <1>1
  <2>4. conn' \in [Sockets -> 0..conns'] /\ serves' \in [Sessions -> 0..conns']
    BY <1>1, <2>1, <2>2, <2>3 DEF UseInv
  <2>5. QED
    BY <1>1, <2>2, <2>4 DEF UseInv
<1>4. ASSUME NEW t \in Callers, CreateAllocate(t), HasFree PROVE UseInv'
  <2> DEFINE s == Head(freeList)
  <2>1. /\ sid' = [sid EXCEPT ![s] = idGen] /\ sock' = [sock EXCEPT ![s] = Arg(t)]
        /\ serves' = [serves EXCEPT ![s] = Arg2(t)] /\ At(t, "create")
        /\ UNCHANGED <<conn, closing, sending, conns>>
    BY <1>4 DEF CreateAllocate, PoolAllocate, kernelVars
  <2>2. s \in Sessions
    BY <1>1, <1>4, FirstOfFree
  <2> HIDE DEF s
  <2>3. t \in Threads /\ t \in Creating /\ Arg(t) \in Sockets
    <3>1. t \in Threads /\ StepAbout(Head(todo[t]))
      BY <1>1, <2>1, CallerOf, HeadFine DEF At
    <3>2. QED
      BY <2>1, <3>1 DEF StepAbout, At, Arg, Creating
  <2>4. Arg2(t) \in 1..conns /\ \A x \in Sessions : serves[x] # Arg2(t)
    BY <1>1, <2>3 DEF NewInv
  <2>5. idGen # None /\ idGen \in Nat /\ Arg2(t) # None /\ Arg2(t) \in 0..conns
    BY <1>1, <2>4 DEF Types, None
  <2>6. /\ sid'[s] = idGen /\ serves'[s] = Arg2(t)
        /\ \A x \in Sessions \ {s} : sid'[x] = sid[x] /\ serves'[x] = serves[x] /\ sock'[x] = sock[x]
    BY <1>1, <2>1, <2>2 DEF Types, UseInv
  <2>7. sock' \in [Sessions -> Sockets \cup {None}] /\ serves' \in [Sessions -> 0..conns]
    BY <1>1, <2>1, <2>3, <2>5 DEF UseInv
  <2>8. \A x \in Sessions : sid'[x] = None => sock'[x] = None /\ ~closing[x] /\ ~sending[x] /\ serves'[x] = None
    BY <1>1, <2>5, <2>6 DEF UseInv
  <2>9. \A x \in Sessions : sid'[x] # None => serves'[x] # None
    BY <1>1, <2>5, <2>6 DEF UseInv
  <2>10. \A r, x \in Sessions : serves'[r] = serves'[x] /\ serves'[r] # None => r = x
    BY <1>1, <2>4, <2>6 DEF UseInv
  <2>11. QED
    BY <1>1, <2>1, <2>7, <2>8, <2>9, <2>10 DEF UseInv
<1>5. ASSUME NEW s \in Sessions, sid[s] # None, SendsOrNot(s),
             UNCHANGED <<sock, conn, serves, closing, sid, conns>>
      PROVE  UseInv'
  <2>1. sending' \in [Sessions -> BOOLEAN] /\ \A x \in Sessions \ {s} : sending'[x] = sending[x]
    BY <1>1, <1>5 DEF UseInv, SendsOrNot
  <2>2. QED
    BY <1>1, <1>5, <2>1 DEF UseInv
<1>6. ASSUME NEW t \in Callers, SendToNext(t) PROVE UseInv'
  <2>1. PICK s \in Arg(t) : SendOn(s)
    BY <1>6 DEF SendToNext
  <2>2. SendsOrNot(s) /\ UNCHANGED <<sock, conn, serves, closing, sid, conns>>
    BY <1>6, <2>1, PostFrontSends DEF SendToNext, SendOn, SendsOrNot, managerVars
  <2>3. s \in Sessions /\ sid[s] # None
    <3>1. StepAbout(Head(todo[t])) /\ At(t, "sends")
      BY <1>1, <1>6, CallerOf, HeadFine DEF SendToNext, At
    <3>2. QED
      BY <2>1, <3>1 DEF StepAbout, At, Arg
  <2>4. QED
    BY <1>5, <2>2, <2>3
<1>7. ASSUME NEW t \in Threads, SendDone(t), UNCHANGED managerVars PROVE UseInv'
  <2>1. SendsOrNot(Arg(t)) /\ UNCHANGED <<sock, conn, serves, closing, sid, conns>>
    BY <1>7, PostFrontSends DEF SendDone, SendsOrNot, QueueDone, managerVars
  <2>2. Arg(t) \in Sessions /\ sid[Arg(t)] # None
    BY <1>1, <1>7, ArgInUse DEF SendDone, AboutSession
  <2>3. QED
    BY <1>5, <2>1, <2>2
<1>8. ASSUME NEW t \in Threads, CloseSocketHandle(t) \/ DropSocket(t), UNCHANGED managerVars PROVE UseInv'
  <2>1. conn' = [conn EXCEPT ![Arg(t)] = None] /\ UNCHANGED <<sock, serves, closing, sending, sid, conns>>
    BY <1>8 DEF CloseSocketHandle, DropSocket, CloseHandle, sessionVars, managerVars
  <2>2. conn' \in [Sockets -> 0..conns]
    <3>1. None \in 0..conns /\ conn \in [Sockets -> 0..conns]
      BY <1>1 DEF UseInv, None
    <3>2. \A k, f : f = [conn EXCEPT ![k] = None] => f \in [Sockets -> 0..conns]
      BY <3>1
    <3>3. QED
      BY <2>1, <3>2
  <2>3. QED
    BY <1>1, <2>1, <2>2 DEF UseInv
<1>9. ASSUME NEW t \in Threads, ClearSock(t), UNCHANGED managerVars PROVE UseInv'
  <2>1. sock' = [sock EXCEPT ![Arg(t)] = None] /\ UNCHANGED <<conn, serves, closing, sending, sid, conns>>
    BY <1>9 DEF ClearSock, kernelVars, managerVars
  <2>2. QED
    BY <1>1, <2>1 DEF UseInv
<1>10. ASSUME NEW t \in Threads, Close(t), UNCHANGED managerVars PROVE UseInv'
  <2>1. closing' = [closing EXCEPT ![Arg(t)] = TRUE] /\ UNCHANGED <<sock, conn, serves, sending, sid, conns>>
    BY <1>10 DEF Close, kernelVars, managerVars
  <2>2. Arg(t) \in Sessions /\ sid[Arg(t)] # None
    BY <1>1, <1>10, ArgInUse DEF Close, AboutSession
  <2>3. closing' \in [Sessions -> BOOLEAN] /\ \A x \in Sessions : sid[x] = None => ~closing'[x]
    BY <1>1, <2>1, <2>2 DEF UseInv
  <2>4. QED
    BY <1>1, <2>1, <2>3 DEF UseInv
<1>11. ASSUME NEW t, \/ Beginning(t) \/ CreateRegister(t) \/ Associate(t)
                     \/ DestroyErase(t) \/ DestroyRelease(t) \/ (CreateAllocate(t) /\ ~HasFree)
       PROVE  UNCHANGED <<sock, conn, serves, closing, sending, sid, conns>>
  BY <1>11 DEF Beginning, FindAndSend, Broadcast, FindAndClose, CallDestroy, Calls, CreateRegister,
     Associate, DestroyErase, DestroyRelease, PoolRelease, CreateAllocate, managerVars, sessionVars, kernelVars
<1>12. ASSUME NEW t, CloseSocket(t) \/ Receiving(t) \/ TakePacket(t) \/ Complete(t), UNCHANGED managerVars
       PROVE  UNCHANGED <<sock, conn, serves, closing, sending, sid, conns>>
  BY <1>12 DEF CloseSocket, Receiving, PostRecvAcquire, FillRx, MoveRx, PostRecvCall, ResetRx, ClearRx, ReleaseRx,
     TakePacket, Complete, managerVars, sessionVars, kernelVars
<1>13. QED
  BY <1>2, <1>3, <1>4, <1>6, <1>7, <1>8, <1>9, <1>10, <1>11, <1>12, NextIs

\* A thread that has allocated is not about to create.
LEMMA CreateAllocated ==
  ASSUME ManagerInv, NEW t \in Threads, CreateAllocate(t)
  PROVE  ~At(t, "create")'
<1>1. TodoType /\ StepsInv /\ At(t, "create")
  BY DEF ManagerInv, CreateAllocate
<1>2. PICK k, s : k = Arg(t) /\ s = Head(freeList)
  OBVIOUS
<1>3. PICK x, y, z : x = <<"register", s>> /\ y = <<"postRecv", s>> /\ z = <<"associate", s, k>>
  OBVIOUS
<1>4. Then(t, << <<"dropSocket", k>> >>) \/ Then(t, <<x, y, z>>)
  BY <1>2, <1>3 DEF CreateAllocate
<1>5. \A q : IsSeq(q) /\ Then(t, q) /\ (\A i \in 1..Len(q) : q[i][1] # "create") => ~At(t, "create")'
  <2>1. SUFFICES ASSUME NEW q, IsSeq(q), Then(t, q), \A i \in 1..Len(q) : q[i][1] # "create"
                 PROVE  ~At(t, "create")'
    OBVIOUS
  <2>2. TodoChanges(t, q)
    BY <1>1, <2>1, ThenChanges
  <2>3. Creating' = Creating \ {t}
    BY <1>1, <2>1, <2>2, CreatingIs
  <2>4. QED
    BY <2>3 DEF Creating
<1>6. IsSeq(<<x, y, z>>) /\ \A i \in 1..Len(<<x, y, z>>) : <<x, y, z>>[i][1] # "create"
  <2>1. <<x, y, z>> \in Seq({x, y, z}) /\ Len(<<x, y, z>>) = 3
    OBVIOUS
  <2>2. \A i \in 1..3 : <<x, y, z>>[i] \in {x, y, z}
    OBVIOUS
  <2>3. x[1] # "create" /\ y[1] # "create" /\ z[1] # "create"
    BY <1>3
  <2>4. QED
    BY <2>1, <2>2, <2>3 DEF IsSeq
<1>7. IsSeq(<< <<"dropSocket", k>> >>) /\ \A i \in 1..Len(<< <<"dropSocket", k>> >>) : << <<"dropSocket", k>> >>[i][1] # "create"
  <2>1. PICK d : d = <<"dropSocket", k>>
    OBVIOUS
  <2>2. <<d>> \in Seq({d}) /\ Len(<<d>>) = 1 /\ \A i \in 1..1 : <<d>>[i] = d
    OBVIOUS
  <2>3. d[1] # "create"
    BY <2>1
  <2>4. IsSeq(<<d>>) /\ \A i \in 1..Len(<<d>>) : <<d>>[i][1] # "create"
    BY <2>2, <2>3 DEF IsSeq
  <2>5. QED
    BY <2>1, <2>4
<1>8. QED
  BY <1>4, <1>5, <1>6, <1>7

LEMMA NewKeeps ==
  ASSUME ManagerInv, SendInv, Next
  PROVE  NewInv'
<1>1. /\ Types /\ TodoType /\ conns \in Nat /\ UseInv /\ NewInv
  BY SendPartsOf
<1>2. CASE \E t \in Callers : Accepted(t)
  <2>1. PICK t \in Callers : Accepted(t)
    BY <1>2
  <2>2. t \in Threads /\ UNCHANGED serves /\ conns' = conns + 1
    BY <2>1, CallerOf DEF Accepted, sessionVars
  <2>3. PICK k : todo' = [todo EXCEPT ![t] = << <<"create", k, conns + 1>> >>]
    BY <2>1 DEF Accepted
  <2>4. /\ todo'[t] = << <<"create", k, conns + 1>> >>
        /\ \A u \in Threads \ {t} : todo'[u] = todo[u]
    BY <1>1, <2>2, <2>3 DEF TodoType
  <2>5. Arg2(t)' = conns + 1
    BY <2>4 DEF Arg2
  <2>6. \A u \in Threads \ {t} : (At(u, "create")' <=> At(u, "create")) /\ Arg2(u)' = Arg2(u)
    BY <2>4 DEF At, Arg2
  <2>7. \A u \in Creating' : u = t \/ (u \in Creating /\ Arg2(u)' = Arg2(u))
    BY <2>6 DEF Creating
  <2>8. \A u \in Creating : Arg2(u) \in 1..conns /\ \A s \in Sessions : serves[s] # Arg2(u)
    BY <1>1 DEF NewInv
  <2>9. \A s \in Sessions : serves[s] \in 0..conns /\ serves[s] # conns + 1
    BY <1>1 DEF UseInv
  <2>10. /\ conns + 1 \in 1..(conns + 1) /\ conns + 1 \notin 1..conns
         /\ \A n \in 1..conns : n \in 1..(conns + 1)
    BY <1>1
  <2>11. \A u \in Creating' : Arg2(u)' \in 1..conns' /\ \A s \in Sessions : serves'[s] # Arg2(u)'
    BY <2>2, <2>5, <2>7, <2>8, <2>9, <2>10
  <2>12. \A u, v \in Creating' : Arg2(u)' = Arg2(v)' => u = v
    BY <1>1, <2>5, <2>7, <2>8, <2>10 DEF NewInv
  <2>13. QED
    BY <2>11, <2>12 DEF NewInv
<1>3. CASE NoCreate
  <2>1. \A u \in Creating' : u \in Creating /\ Arg2(u)' = Arg2(u)
    BY <1>3 DEF Creating, NoCreate, Arg2
  <2>2. CASE UNCHANGED <<serves, conns>>
    <3>1. NewInv
      BY <1>1
    <3>2. QED
      BY <2>1, <2>2, <3>1 DEF NewInv
  <2>3. CASE \E t \in Callers : CreateAllocate(t) /\ HasFree
    <3>1. PICK t \in Callers : CreateAllocate(t) /\ HasFree
      BY <2>3
    <3>2. PICK h : h = Head(freeList)
      OBVIOUS
    <3>3. serves' = [serves EXCEPT ![h] = Arg2(t)] /\ conns' = conns /\ At(t, "create") /\ t \in Threads
      BY <3>1, <3>2, CallerOf DEF CreateAllocate, kernelVars
    <3>4. t \in Creating /\ t \notin Creating'
      BY <3>1, <3>3, CreateAllocated DEF Creating
    <3>5. \A s \in Sessions : serves'[s] \in {serves[s], Arg2(t)}
      BY <1>1, <3>3 DEF UseInv
    <3>6. \A u \in Creating' : Arg2(u) # Arg2(t)
      BY <1>1, <2>1, <3>4 DEF NewInv
    <3>7. \A u \in Creating' : Arg2(u)' \in 1..conns' /\ \A s \in Sessions : serves'[s] # Arg2(u)'
      BY <1>1, <2>1, <3>3, <3>5, <3>6 DEF NewInv
    <3>8. \A u, v \in Creating' : Arg2(u)' = Arg2(v)' => u = v
      BY <1>1, <2>1 DEF NewInv
    <3>9. QED
      BY <3>7, <3>8 DEF NewInv
  <2>4. ASSUME NEW t, \/ Beginning(t) \/ CreateRegister(t) \/ Associate(t) \/ SendToNext(t)
                      \/ DestroyErase(t) \/ DestroyRelease(t) \/ (CreateAllocate(t) /\ ~HasFree)
        PROVE  UNCHANGED <<serves, conns>>
    BY <2>4 DEF Beginning, FindAndSend, Broadcast, FindAndClose, CallDestroy, Calls, CreateRegister,
       Associate, DestroyErase, DestroyRelease, CreateAllocate, SendToNext, SendOn, sessionVars, kernelVars
  <2>5. ASSUME NEW t, \/ CloseSocket(t) \/ CloseSocketHandle(t) \/ DropSocket(t) \/ ClearSock(t)
                      \/ Close(t) \/ Receiving(t) \/ SendDone(t) \/ TakePacket(t) \/ Complete(t)
        PROVE  UNCHANGED <<serves, conns>>
    BY <2>5 DEF CloseSocket, CloseSocketHandle, DropSocket, CloseHandle, ClearSock, Close, Receiving,
       PostRecvAcquire, FillRx, MoveRx, PostRecvCall, ResetRx, ClearRx, ReleaseRx, SendDone, TakePacket, Complete,
       sessionVars, kernelVars
  <2>6. CASE \E t \in Callers : Accepted(t)
    BY <1>2, <2>6
  <2>7. QED
    BY <2>2, <2>3, <2>4, <2>5, <2>6, NextIs
<1>4. QED
  BY <1>2, <1>3, NextNoCreate

\* A session's closing begins with the steps that close its socket.
LEMMA ClosingHow ==
  ASSUME ManagerInv, SendInv, Next
  PROVE  \A s \in Sessions : closing'[s] => closing[s] \/ Closes(s)'
<1>1. /\ Types /\ TodoType /\ UseInv
  BY SendPartsOf
<1>2. ASSUME NEW t \in Threads, Close(t) PROVE \A s \in Sessions : closing'[s] => closing[s] \/ Closes(s)'
  <2>1. SUFFICES ASSUME NEW s \in Sessions, closing'[s], ~closing[s] PROVE Closes(s)'
    OBVIOUS
  <2>2. closing' = [closing EXCEPT ![Arg(t)] = TRUE] /\ At(t, "close") /\ Then(t, CloseSteps(Arg(t)))
    BY <1>2 DEF Close
  <2>3. s = Arg(t)
    BY <1>1, <2>1, <2>2 DEF UseInv
  <2>4. PICK x, q : x = <<"closeSocket", s>> /\ q = <<x>>
    OBVIOUS
  <2>5. Then(t, q)
    BY <2>1, <2>2, <2>3, <2>4 DEF CloseSteps
  <2>6. TodoChanges(t, q)
    BY <2>2, <2>5, ThenChanges
  <2>7. IsSeq(q) /\ In(q, x)
    <3>1. <<x>> \in Seq({x}) /\ q = <<x>>
      BY <2>4
    <3>2. QED
      BY <3>1, InOne DEF IsSeq
  <2>8. In(todo'[t], x)
    BY <1>1, <2>6, <2>7, InTodo
  <2>9. QED
    BY <2>4, <2>8 DEF Closes
<1>3. ASSUME NEW t, \/ Accepted(t) \/ Beginning(t) \/ CreateAllocate(t) \/ CreateRegister(t) \/ Associate(t)
                    \/ DestroyErase(t) \/ DestroyRelease(t) \/ SendToNext(t)
      PROVE  closing' = closing
  BY <1>3 DEF Accepted, Beginning, FindAndSend, Broadcast, FindAndClose, CallDestroy, Calls, CreateRegister,
     Associate, DestroyErase, DestroyRelease, CreateAllocate, SendToNext, SendOn, sessionVars
<1>4. ASSUME NEW t, \/ CloseSocket(t) \/ CloseSocketHandle(t) \/ DropSocket(t) \/ ClearSock(t)
                    \/ Receiving(t) \/ SendDone(t) \/ TakePacket(t) \/ Complete(t)
      PROVE  closing' = closing
  BY <1>4 DEF CloseSocket, CloseSocketHandle, DropSocket, ClearSock, Receiving,
     PostRecvAcquire, FillRx, MoveRx, PostRecvCall, ResetRx, ClearRx, ReleaseRx, SendDone, TakePacket, Complete, sessionVars
<1>5. QED
  BY <1>2, <1>3, <1>4, NextIs

LEMMA ClosedKeeps ==
  ASSUME ManagerInv, SendInv, Next
  PROVE  ClosedInv'
<1>1. UseInv /\ ClosedInv /\ Onward /\ ClosesStay
  BY SendPartsOf, NextFine
<1>2. SUFFICES ASSUME NEW s \in Sessions, FirstUse(s)', closing'[s], sock'[s] # None
               PROVE  Closes(s)'
  BY DEF ClosedInv
<1>3. CASE closing[s]
  <2>1. sid[s] # None
    BY <1>1, <1>3 DEF UseInv
  <2>2. FirstUse(s) /\ sock[s] # None
    BY <1>1, <1>2, <2>1 DEF Onward
  <2>3. Closes(s)
    BY <1>1, <1>3, <2>2 DEF ClosedInv
  <2>4. QED
    BY <1>1, <1>2, <2>3 DEF ClosesStay
<1>4. QED
  BY <1>2, <1>3, ClosingHow

LEMMA FreedKeeps ==
  ASSUME ManagerInv, SendInv, Next
  PROVE  FreedInv'
<1>1. Types /\ TodoType /\ FineInv /\ FreedInv /\ Onward
  BY SendPartsOf, NextFine
<1>2. ASSUME \A s \in Sessions : s \in freeSet' /\ sid'[s] # None => s \in freeSet /\ sid[s] # None
      PROVE  FreedInv'
  <2>1. freeSet' \subseteq Sessions
    <3>1. Types'
      BY ManagerStep DEF ManagerInv
    <3>2. QED
      BY <3>1 DEF Types, Sessions
  <2>2. QED
    BY <1>1, <1>2, <2>1 DEF FreedInv, Onward
<1>3. CASE UNCHANGED <<freeSet, sid>>
  BY <1>2, <1>3
<1>4. ASSUME NEW t, CreateAllocate(t), HasFree PROVE FreedInv'
  <2>1. PICK h : freeSet' = freeSet \ {h} /\ sid' = [sid EXCEPT ![h] = idGen]
    BY <1>4 DEF CreateAllocate, PoolAllocate
  <2>2. \A s \in Sessions : s # h => sid'[s] = sid[s]
    BY <1>1, <2>1 DEF Types
  <2>3. QED
    BY <1>2, <2>1, <2>2
<1>5. ASSUME NEW t \in Callers, DestroyRelease(t) PROVE FreedInv'
  <2>1. PICK s : s = Arg(t)
    OBVIOUS
  <2>2. freeSet' = freeSet \cup {s} /\ UNCHANGED <<sid, closing>> /\ At(t, "release")
    BY <1>5, <2>1 DEF DestroyRelease, PoolRelease, sessionVars
  <2>3. t \in Threads /\ todo[t] # <<>> /\ Head(todo[t])[1] = "release" /\ Head(todo[t])[2] = s
    BY <2>1, <2>2, CallerOf DEF At, Arg
  <2>4. StepAbout(Head(todo[t])) /\ StepAfter(t, todo[t], 1) /\ Head(todo[t]) = todo[t][1]
    BY <1>1, <2>3, HeadFine
  <2>5. s \in Sessions /\ todo[t][1] = <<"release", s>>
    BY <2>3, <2>4 DEF StepAbout, AboutSession
  <2>6. closing[s]
    BY <2>4, <2>5 DEF StepAfter
  <2>7. QED
    BY <1>1, <2>2, <2>6 DEF FreedInv
<1>6. ASSUME NEW t, \/ Accepted(t) \/ Beginning(t) \/ CreateRegister(t) \/ Associate(t) \/ DestroyErase(t)
                    \/ SendToNext(t) \/ (CreateAllocate(t) /\ ~HasFree)
      PROVE  UNCHANGED <<freeSet, sid>>
  BY <1>6 DEF Accepted, Beginning, FindAndSend, Broadcast, FindAndClose, CallDestroy, Calls, CreateRegister,
     Associate, DestroyErase, CreateAllocate, SendToNext, managerVars
<1>7. UNCHANGED managerVars => UNCHANGED <<freeSet, sid>>
  BY DEF managerVars
<1>8. QED
  BY <1>3, <1>4, <1>5, <1>6, <1>7, NextIs

-----------------------------------------------------------------------------
(* The calls and the port.                                                 *)

LEMMA InConcat ==
  ASSUME NEW S, NEW p \in Seq(S), NEW q \in Seq(S)
  PROVE  /\ \A x : In(p \o q, x) <=> In(p, x) \/ In(q, x)
         /\ (\A i, j \in 1..Len(p) : p[i] = p[j] => i = j)
              /\ (\A i, j \in 1..Len(q) : q[i] = q[j] => i = j)
              /\ (\A x : ~(In(p, x) /\ In(q, x)))
              => \A i, j \in 1..Len(p \o q) : (p \o q)[i] = (p \o q)[j] => i = j
<1> DEFINE m == Len(p)
           n == Len(q)
<1>1. PICK r : r = p \o q
  OBVIOUS
<1>2. /\ m \in Nat /\ n \in Nat /\ Len(r) = m + n
      /\ \A i \in 1..m : r[i] = p[i]
      /\ \A i \in 1..n : r[m + i] = q[i]
  BY <1>1
<1> HIDE DEF m, n
<1>3. \A i \in 1..Len(r) : i \in 1..m \/ (i - m \in 1..n /\ i = m + (i - m))
  BY <1>2
<1>4. ASSUME NEW x, In(r, x) PROVE In(p, x) \/ In(q, x)
  <2>1. PICK i \in 1..Len(r) : r[i] = x
    BY <1>4 DEF In
  <2>2. CASE i \in 1..m
    BY <1>2, <2>1, <2>2 DEF In, m
  <2>3. CASE i - m \in 1..n /\ i = m + (i - m)
    <3>1. q[i - m] = x
      BY <1>2, <2>1, <2>3
    <3>2. QED
      BY <2>3, <3>1 DEF In, n
  <2>4. QED
    BY <1>3, <2>2, <2>3
<1>5. ASSUME NEW x, In(p, x) PROVE In(r, x)
  <2>1. PICK i \in 1..m : p[i] = x
    BY <1>5 DEF In, m
  <2>2. i \in 1..Len(r) /\ r[i] = x
    BY <1>2, <2>1
  <2>3. QED
    BY <2>2 DEF In
<1>6. ASSUME NEW x, In(q, x) PROVE In(r, x)
  <2>1. PICK i \in 1..n : q[i] = x
    BY <1>6 DEF In, n
  <2>2. m + i \in 1..Len(r) /\ r[m + i] = x
    BY <1>2, <2>1
  <2>3. QED
    BY <2>2 DEF In
<1>7. ASSUME \A i, j \in 1..m : p[i] = p[j] => i = j, \A i, j \in 1..n : q[i] = q[j] => i = j,
             \A x : ~(In(p, x) /\ In(q, x)), NEW i \in 1..Len(r), NEW j \in 1..Len(r), r[i] = r[j]
      PROVE  i = j
  <2>1. \A k \in 1..m : In(p, p[k])
    BY DEF In, m
  <2>2. \A k \in 1..n : In(q, q[k])
    BY DEF In, n
  <2>3. CASE i \in 1..m /\ j \in 1..m
    BY <1>2, <1>7, <2>3
  <2>4. CASE i \in 1..m /\ j - m \in 1..n /\ j = m + (j - m)
    <3>1. r[i] = p[i] /\ r[j] = q[j - m]
      BY <1>2, <2>4
    <3>2. QED
      BY <1>7, <2>1, <2>2, <2>4, <3>1
  <2>5. CASE j \in 1..m /\ i - m \in 1..n /\ i = m + (i - m)
    <3>1. r[j] = p[j] /\ r[i] = q[i - m]
      BY <1>2, <2>5
    <3>2. QED
      BY <1>7, <2>1, <2>2, <2>5, <3>1
  <2>6. CASE i - m \in 1..n /\ i = m + (i - m) /\ j - m \in 1..n /\ j = m + (j - m)
    <3>1. r[i] = q[i - m] /\ r[j] = q[j - m]
      BY <1>2, <2>6
    <3>2. i - m = j - m
      BY <1>7, <2>6, <3>1
    <3>3. QED
      BY <1>2, <2>6, <3>2
  <2>7. QED
    BY <1>3, <2>3, <2>4, <2>5, <2>6
<1>8. QED
  BY <1>1, <1>4, <1>5, <1>6, <1>7 DEF m, n

LEMMA InAppend ==
  ASSUME NEW S, NEW p \in Seq(S), NEW y \in S
  PROVE  /\ \A x : In(Append(p, y), x) <=> In(p, x) \/ x = y
         /\ (\A i, j \in 1..Len(p) : p[i] = p[j] => i = j) /\ ~In(p, y)
              => \A i, j \in 1..Len(Append(p, y)) : Append(p, y)[i] = Append(p, y)[j] => i = j
<1>1. PICK q : q = <<y>>
  OBVIOUS
<1>2. q \in Seq(S) /\ Len(q) = 1 /\ q[1] = y
  BY <1>1
<1>3. Append(p, y) = p \o q
  BY <1>1
<1>4. \A x : In(q, x) <=> x = y
  BY <1>1, InOne
<1>5. \A i, j \in 1..Len(q) : q[i] = q[j] => i = j
  BY <1>2
<1>6. /\ \A x : In(p \o q, x) <=> In(p, x) \/ In(q, x)
      /\ (\A i, j \in 1..Len(p) : p[i] = p[j] => i = j)
           /\ (\A i, j \in 1..Len(q) : q[i] = q[j] => i = j)
           /\ (\A x : ~(In(p, x) /\ In(q, x)))
           => \A i, j \in 1..Len(p \o q) : (p \o q)[i] = (p \o q)[j] => i = j
  BY <1>2, InConcat
<1>7. ~In(p, y) => \A x : ~(In(p, x) /\ In(q, x))
  BY <1>4
<1>8. QED
  BY <1>3, <1>4, <1>5, <1>6, <1>7

LEMMA InTail ==
  ASSUME NEW S, NEW p \in Seq(S), p # <<>>, \A i, j \in 1..Len(p) : p[i] = p[j] => i = j
  PROVE  /\ \A x : In(Tail(p), x) <=> In(p, x) /\ x # Head(p)
         /\ \A i, j \in 1..Len(Tail(p)) : Tail(p)[i] = Tail(p)[j] => i = j
         /\ Tail(p) \in Seq(S) /\ Head(p) \in S /\ In(p, Head(p))
<1> DEFINE n == Len(p) - 1
<1>1. PICK q : q = Tail(p)
  OBVIOUS
<1>2. /\ n \in Nat /\ Len(p) = n + 1 /\ Len(q) = n /\ q \in Seq(S) /\ Head(p) = p[1]
      /\ \A i \in 1..n : q[i] = p[i + 1]
  BY <1>1
<1> HIDE DEF n
<1>3. \A i \in 1..n : i + 1 \in 1..Len(p) /\ i + 1 # 1
  BY <1>2
<1>4. ASSUME NEW x, In(q, x) PROVE In(p, x) /\ x # Head(p)
  <2>1. PICK i \in 1..n : q[i] = x
    BY <1>2, <1>4 DEF In
  <2>2. p[i + 1] = x /\ i + 1 \in 1..Len(p) /\ i + 1 # 1 /\ 1 \in 1..Len(p)
    BY <1>2, <1>3, <2>1
  <2>3. QED
    BY <1>2, <2>2 DEF In
<1>5. ASSUME NEW x, In(p, x), x # Head(p) PROVE In(q, x)
  <2>1. PICK i \in 1..Len(p) : p[i] = x
    BY <1>5 DEF In
  <2>2. i - 1 \in 1..n /\ (i - 1) + 1 = i
    BY <1>2, <1>5, <2>1
  <2>3. QED
    BY <1>2, <2>1, <2>2 DEF In
<1>6. ASSUME NEW i \in 1..n, NEW j \in 1..n, q[i] = q[j] PROVE i = j
  <2>1. i + 1 = j + 1
    BY <1>2, <1>3, <1>6
  <2>2. QED
    BY <2>1
<1>7. Head(p) \in S /\ In(p, Head(p))
  <2>1. 1 \in 1..Len(p) /\ p[1] \in S
    BY <1>2
  <2>2. QED
    BY <1>2, <2>1 DEF In
<1>8. QED
  BY <1>1, <1>2, <1>4, <1>5, <1>6, <1>7

\* A call is neither NoIo nor of another kind.
LEMMA CallIs ==
  /\ \A io \in RecvIos \cup SendIos :
       /\ io # NoIo /\ io.type \in {"recv", "send"} /\ io.owner \in Sessions /\ io.conn \in Conns
       /\ io.state \in States
       /\ \A how \in States : [io EXCEPT !.state = how] \in RecvIos \cup SendIos
  /\ NoIo.type # "send"
BY DEF RecvIos, SendIos, NoIo

\* Post, on the handle k of a connection: an object that was free is in use.
LEMMA PostIs ==
  ASSUME UseInv, IosInv, conns \in Nat, conns <= MaxConns,
         NEW k \in Sockets \cup {None}, CanPost(k), HasOv, NEW io, Post(io, k)
  PROVE  /\ k # None /\ conn[k] \in Conns
         /\ \E o \in Ovs : ios[o] = NoIo /\ ios' = [ios EXCEPT ![o] = [io EXCEPT !.conn = conn[k]]]
<1>1. NewOv \in FreeOvs
  BY DEF NewOv, HasOv
<1>2. NewOv \in Ovs /\ ios[NewOv] = NoIo
  BY <1>1 DEF FreeOvs
<1>3. k # None /\ conn[k] # None
  BY DEF CanPost, ConnOf
<1>4. conn[k] \in Conns
  <2>1. conn[k] \in 0..conns
    BY <1>3 DEF UseInv
  <2>2. MaxConns \in Nat
    BY NetSessionAssumption
  <2>3. QED
    BY <1>3, <2>1, <2>2 DEF Conns, None
<1>5. QED
  BY <1>2, <1>3, <1>4 DEF Post

\* The sessions that calls are for stay in use.
OwnersStay == \A s \in Sessions : sid[s] # None => sid'[s] # None

LEMMA PostKeepsIos ==
  ASSUME IosInv, OwnersStay, NEW o \in Ovs, ios[o] = NoIo, NEW io \in RecvIos \cup SendIos,
         io.state = "pending", sid[io.owner] # None, ios' = [ios EXCEPT ![o] = io], port' = port
  PROVE  IosInv'
<1>1. io # NoIo /\ io.owner \in Sessions
  BY CallIs
<1>2. ios'[o] = io /\ \A p \in Ovs \ {o} : ios'[p] = ios[p]
  BY DEF IosInv
<1>3. ios' \in [Ovs -> {NoIo} \cup RecvIos \cup SendIos]
  BY DEF IosInv
<1>4. \A p \in Ovs : ios[p] # NoIo => ios[p].owner \in Sessions
  BY CallIs DEF IosInv
<1>5. \A p \in Ovs : ios'[p] # NoIo => sid'[ios'[p].owner] # None
  BY <1>1, <1>2, <1>4 DEF IosInv, OwnersStay
<1>6. \A p \in Ovs : In(port', p) <=> ios'[p] # NoIo /\ ios'[p].state # "pending"
  BY <1>2 DEF IosInv
<1>7. QED
  BY <1>3, <1>5, <1>6 DEF IosInv

LEMMA SameIos ==
  ASSUME IosInv, OwnersStay, UNCHANGED <<ios, port>>
  PROVE  IosInv'
<1>1. \A p \in Ovs : ios[p] # NoIo => ios[p].owner \in Sessions
  BY CallIs DEF IosInv
<1>2. QED
  BY <1>1 DEF IosInv, OwnersStay

LEMMA RecvCallIos ==
  ASSUME ManagerInv, SendInv, NEW t \in Threads, PostRecvCall(t), sid' = sid
  PROVE  IosInv'
<1>1. TodoType /\ FineInv /\ UseInv /\ IosInv /\ conns \in Nat /\ conns <= MaxConns
  BY SendPartsOf
<1>2. PICK s, k : s = Arg(t) /\ k = sock[s]
  OBVIOUS
<1>3. PICK io : io = [type |-> "recv", owner |-> s, conn |-> None, state |-> "pending"]
  OBVIOUS
<1>4. /\ port' = port
      /\ (HasOv /\ CanPost(k) /\ Post(io, k)) \/ UNCHANGED ios
  BY <1>2, <1>3 DEF PostRecvCall
<1>5. s \in Sessions /\ sid[s] # None
  BY <1>1, <1>2, ArgInUse DEF PostRecvCall, AboutSession
<1>6. OwnersStay
  BY DEF OwnersStay
<1>7. CASE HasOv /\ CanPost(k) /\ Post(io, k)
  <2>1. k \in Sockets \cup {None}
    BY <1>1, <1>2, <1>5 DEF UseInv
  <2>2. PICK c : c = conn[k]
    OBVIOUS
  <2>3. c \in Conns
    BY <1>1, <1>7, <2>1, <2>2, PostIs
  <2>4. PICK o \in Ovs : ios[o] = NoIo /\ ios' = [ios EXCEPT ![o] = [io EXCEPT !.conn = c]]
    BY <1>1, <1>7, <2>1, <2>2, PostIs
  <2>5. PICK jo : jo = [io EXCEPT !.conn = c]
    OBVIOUS
  <2>6. jo = [type |-> "recv", owner |-> s, conn |-> c, state |-> "pending"]
    BY <1>3, <2>5
  <2>7. jo \in RecvIos \cup SendIos /\ jo.state = "pending" /\ jo.owner = s
    BY <1>5, <2>3, <2>6 DEF RecvIos, States
  <2>8. QED
    BY <1>1, <1>4, <1>5, <1>6, <2>4, <2>5, <2>7, PostKeepsIos
<1>8. CASE UNCHANGED ios
  BY <1>1, <1>4, <1>6, <1>8, SameIos
<1>9. QED
  BY <1>4, <1>7, <1>8

\* How calls end: with a packet, or unheard.
CallEnds(o) ==
  \/ ios'[o] = ios[o]
  \/ ios[o] # NoIo /\ ios'[o] = NoIo /\ ios[o].conn \in unheard'
  \/ ios[o] # NoIo /\ \E how \in States : ios'[o] = [ios[o] EXCEPT !.state = how]
CallsEnd == unheard \subseteq unheard' /\ \A o \in Ovs : CallEnds(o)

LEMMA CompleteIos ==
  ASSUME IosInv, OwnersStay, NEW o \in Ovs, Complete(o)
  PROVE  IosInv' /\ CallsEnd
<1>1. PICK io : io = ios[o]
  OBVIOUS
<1>2. PICK how \in {"ok", "failed"} : ios' = [ios EXCEPT ![o] = Ended(io, how)]
  BY <1>1 DEF Complete
<1>3. io # NoIo /\ io.state = "pending" /\ io \in RecvIos \cup SendIos /\ sid[io.owner] # None
  BY <1>1 DEF Complete, IosInv
<1>4. PICK jo : jo = [io EXCEPT !.state = how]
  OBVIOUS
<1>5. jo \in RecvIos \cup SendIos /\ jo.state = how /\ jo.owner = io.owner /\ how # "pending" /\ jo # NoIo
  <2>1. jo.state = how /\ jo.owner = io.owner
    BY <1>3, <1>4 DEF RecvIos, SendIos
  <2>2. jo \in RecvIos \cup SendIos
    BY <1>3, <1>4, CallIs DEF States
  <2>3. QED
    BY <2>1, <2>2, CallIs
<1>6. /\ port \in Seq(Ovs) /\ ~In(port, o)
      /\ \A i, j \in 1..Len(port) : port[i] = port[j] => i = j
  BY <1>1, <1>3 DEF IosInv
<1>7. \A p \in Ovs \ {o} : ios'[p] = ios[p]
  BY <1>2 DEF IosInv
<1>8. \A p \in Ovs : ios[p] # NoIo => ios[p].owner \in Sessions /\ sid'[ios[p].owner] # None
  BY CallIs DEF IosInv, OwnersStay
<1>9. CASE io.conn \in assoc
  <2>1. ios' = [ios EXCEPT ![o] = jo] /\ port' = Append(port, o)
    BY <1>1, <1>2, <1>4, <1>9 DEF Ended, Complete
  <2>2. ios'[o] = jo /\ ios' \in [Ovs -> {NoIo} \cup RecvIos \cup SendIos]
    BY <1>5, <2>1 DEF IosInv
  <2>3. /\ port' \in Seq(Ovs) /\ \A i, j \in 1..Len(port') : port'[i] = port'[j] => i = j
        /\ \A x : In(port', x) <=> In(port, x) \/ x = o
    <3>1. Append(port, o) \in Seq(Ovs)
      BY <1>6
    <3>2. /\ \A i, j \in 1..Len(Append(port, o)) : Append(port, o)[i] = Append(port, o)[j] => i = j
          /\ \A x : In(Append(port, o), x) <=> In(port, x) \/ x = o
      BY <1>6, InAppend
    <3>3. PICK r : r = Append(port, o)
      OBVIOUS
    <3>4. port' = r /\ r \in Seq(Ovs) /\ (\A i, j \in 1..Len(r) : r[i] = r[j] => i = j)
          /\ \A x : In(r, x) <=> In(port, x) \/ x = o
      BY <2>1, <3>1, <3>2, <3>3
    <3>5. QED
      BY <3>4
  <2>4. \A p \in Ovs : ios'[p] # NoIo => sid'[ios'[p].owner] # None
    BY <1>1, <1>3, <1>5, <1>7, <1>8, <2>2
  <2>5. \A p \in Ovs : In(port', p) <=> ios'[p] # NoIo /\ ios'[p].state # "pending"
    <3>1. \A p \in Ovs : In(port, p) <=> ios[p] # NoIo /\ ios[p].state # "pending"
      BY DEF IosInv
    <3>2. QED
      BY <1>5, <1>7, <2>2, <2>3, <3>1
  <2>6. IosInv'
    BY <2>2, <2>3, <2>4, <2>5 DEF IosInv
  <2>7. CallEnds(o) /\ \A p \in Ovs \ {o} : CallEnds(p)
    BY <1>1, <1>3, <1>4, <1>7, <2>2 DEF CallEnds, States
  <2>8. unheard \subseteq unheard'
    BY DEF Complete, Unheard
  <2>9. QED
    BY <2>6, <2>7, <2>8 DEF CallsEnd
<1>10. CASE io.conn \notin assoc
  <2>1. ios' = [ios EXCEPT ![o] = NoIo] /\ port' = port
    BY <1>1, <1>2, <1>10 DEF Ended, Complete
  <2>2. ios'[o] = NoIo /\ ios' \in [Ovs -> {NoIo} \cup RecvIos \cup SendIos]
    BY <2>1 DEF IosInv
  <2>3. \A p \in Ovs : ios'[p] # NoIo => sid'[ios'[p].owner] # None
    BY <1>7, <1>8, <2>2
  <2>4. \A p \in Ovs : In(port, p) <=> ios'[p] # NoIo /\ ios'[p].state # "pending"
    <3>1. \A p \in Ovs : In(port, p) <=> ios[p] # NoIo /\ ios[p].state # "pending"
      BY DEF IosInv
    <3>2. QED
      BY <1>6, <1>7, <2>2, <3>1
  <2>5. IosInv'
    BY <1>6, <2>1, <2>2, <2>3, <2>4 DEF IosInv
  <2>6. unheard \subseteq unheard' /\ io.conn \in unheard'
    BY <1>1, <1>10 DEF Complete, Unheard
  <2>7. QED
    BY <1>1, <1>3, <1>7, <2>2, <2>5, <2>6 DEF CallsEnd, CallEnds
<1>11. QED
  BY <1>9, <1>10

\* The packets are those of the calls queued, each once.
LEMMA QueuedIs ==
  ASSUME NEW X \in SUBSET Ovs, NEW p \in Queued(X)
  PROVE  /\ p \in Seq(Ovs) /\ \A i, j \in 1..Len(p) : p[i] = p[j] => i = j
         /\ \A x : In(p, x) <=> x \in X
<1> DEFINE n == Cardinality(X)
<1>1. IsFiniteSet(X) /\ n \in Nat
  <2>1. IsFiniteSet(Ovs)
    BY NetSessionAssumption, FS_Interval DEF Ovs
  <2>2. QED
    BY <2>1, FS_Subset, FS_CardinalityType
<1>2. p \in [1..n -> X] /\ \A i, j \in 1..n : p[i] = p[j] => i = j
  BY DEF Queued
<1> HIDE DEF n
<1>3. p \in Seq(X) /\ Len(p) = n
  BY <1>1, <1>2
<1>4. p \in Seq(Ovs)
  BY <1>3, SeqLarger
<1>5. \A x \in X : \E i \in 1..n : p[i] = x
  <2>1. p \in Injection(1..n, X)
    BY <1>2 DEF Injection, IsInjective
  <2>2. Cardinality(1..n) = n
    BY <1>1, FS_Interval
  <2>3. p \in Surjection(1..n, X)
    BY <1>1, <2>1, <2>2, FS_Injection DEF n
  <2>4. QED
    BY <2>3 DEF Surjection
<1>6. QED
  BY <1>2, <1>3, <1>4, <1>5 DEF In

\* A handle is closed: pending calls of its connection fail.
LEMMA CloseHandleIos ==
  ASSUME IosInv, OwnersStay, NEW k, CloseHandle(k)
  PROVE  IosInv' /\ CallsEnd
<1>1. PICK os : os = IF ConnOf(k) = None THEN {} ELSE PendingOn(conn[k])
  OBVIOUS
<1>2. \A o \in os : o \in Ovs /\ ios[o] # NoIo /\ ios[o].state = "pending"
  BY <1>1 DEF PendingOn
<1>3. PICK X : X = {o \in os : ios[o].conn \in assoc}
  OBVIOUS
<1>4. /\ ios' = [o \in Ovs |-> IF o \in os THEN Ended(ios[o], "failed") ELSE ios[o]]
      /\ \E p \in Queued(X) : port' = port \o p
      /\ unheard' = Unheard(os)
  BY <1>1, <1>3 DEF CloseHandle
<1>5. PICK p \in Queued(X) : port' = port \o p
  BY <1>4
<1>6. X \in SUBSET Ovs
  BY <1>2, <1>3
<1>7. /\ p \in Seq(Ovs) /\ \A i, j \in 1..Len(p) : p[i] = p[j] => i = j
      /\ \A x : In(p, x) <=> x \in X
  BY <1>5, <1>6, QueuedIs
<1>8. /\ \A o \in Ovs : o \notin os => ios'[o] = ios[o]
      /\ \A o \in X : ios'[o] = [ios[o] EXCEPT !.state = "failed"]
      /\ \A o \in os \ X : ios'[o] = NoIo
  BY <1>2, <1>3, <1>4 DEF Ended
<1>9. \A o \in X : /\ ios[o] \in RecvIos \cup SendIos /\ ios'[o] \in RecvIos \cup SendIos
                   /\ ios'[o].state = "failed" /\ ios'[o].owner = ios[o].owner
  <2>1. SUFFICES ASSUME NEW o \in X
                 PROVE  /\ ios[o] \in RecvIos \cup SendIos /\ ios'[o] \in RecvIos \cup SendIos
                        /\ ios'[o].state = "failed" /\ ios'[o].owner = ios[o].owner
    OBVIOUS
  <2>2. PICK io, jo : io = ios[o] /\ jo = ios'[o]
    OBVIOUS
  <2>3. io \in RecvIos \cup SendIos /\ jo = [io EXCEPT !.state = "failed"]
    BY <1>2, <1>3, <1>8, <2>2 DEF IosInv
  <2>4. jo \in RecvIos \cup SendIos /\ jo.state = "failed" /\ jo.owner = io.owner
    BY <2>3 DEF RecvIos, SendIos, States
  <2>5. QED
    BY <2>2, <2>3, <2>4
<1>10. \A o \in Ovs : o \in X \/ ios'[o] = NoIo \/ (o \notin os /\ ios'[o] = ios[o])
  BY <1>8
<1>11. ios' \in [Ovs -> {NoIo} \cup RecvIos \cup SendIos]
  <2>1. \A o \in Ovs : ios'[o] \in {NoIo} \cup RecvIos \cup SendIos
    BY <1>9, <1>10 DEF IosInv
  <2>2. ios' = [o \in Ovs |-> ios'[o]]
    BY <1>4
  <2>3. QED
    BY <2>1, <2>2
<1>12. \A o \in Ovs : ios'[o] # NoIo => sid'[ios'[o].owner] # None
  <2>1. \A o \in Ovs : ios[o] # NoIo => ios[o].owner \in Sessions /\ sid'[ios[o].owner] # None
    BY CallIs DEF IosInv, OwnersStay
  <2>2. \A o \in X : ios[o] # NoIo /\ o \in Ovs
    BY <1>2, <1>3
  <2>3. QED
    BY <1>9, <1>10, <2>1, <2>2
<1>13. \A o \in Ovs : In(port, o) <=> ios[o] # NoIo /\ ios[o].state # "pending"
  BY DEF IosInv
<1>14. /\ port' \in Seq(Ovs) /\ \A i, j \in 1..Len(port') : port'[i] = port'[j] => i = j
       /\ \A x : In(port', x) <=> In(port, x) \/ x \in X
  <2>1. PICK q : q = port \o p
    OBVIOUS
  <2>2. \A x : ~(In(port, x) /\ In(p, x))
    BY <1>2, <1>3, <1>6, <1>7, <1>13
  <2>3. port \in Seq(Ovs) /\ \A i, j \in 1..Len(port) : port[i] = port[j] => i = j
    BY DEF IosInv
  <2>4. q \in Seq(Ovs)
    BY <1>7, <2>1, <2>3
  <2>5. \A x : In(q, x) <=> In(port, x) \/ x \in X
    BY <1>7, <2>1, <2>3, InConcat
  <2>6. \A i, j \in 1..Len(q) : q[i] = q[j] => i = j
    <3>1. (\A i, j \in 1..Len(port) : port[i] = port[j] => i = j)
              /\ (\A i, j \in 1..Len(p) : p[i] = p[j] => i = j)
              /\ (\A x : ~(In(port, x) /\ In(p, x)))
              => \A i, j \in 1..Len(port \o p) : (port \o p)[i] = (port \o p)[j] => i = j
      BY <1>7, <2>3, InConcat
    <3>2. \A i, j \in 1..Len(port \o p) : (port \o p)[i] = (port \o p)[j] => i = j
      BY <1>7, <2>2, <2>3, <3>1
    <3>3. QED
      BY <2>1, <3>2
  <2>7. QED
    BY <1>5, <2>1, <2>4, <2>5, <2>6
<1>15. \A o \in Ovs : In(port', o) <=> ios'[o] # NoIo /\ ios'[o].state # "pending"
  <2>1. SUFFICES ASSUME NEW o \in Ovs PROVE In(port', o) <=> ios'[o] # NoIo /\ ios'[o].state # "pending"
    OBVIOUS
  <2>2. CASE o \in X
    BY <1>9, <1>14, <2>2, CallIs
  <2>3. CASE o \in os \ X
    BY <1>2, <1>8, <1>13, <1>14, <2>3
  <2>4. CASE o \notin os
    BY <1>3, <1>8, <1>13, <1>14, <2>4
  <2>5. QED
    BY <2>2, <2>3, <2>4
<1>16. IosInv'
  BY <1>11, <1>12, <1>14, <1>15 DEF IosInv
<1>17. unheard \subseteq unheard' /\ \A o \in os \ X : ios[o].conn \in unheard'
  BY <1>3, <1>4 DEF Unheard
<1>18. \A o \in Ovs : CallEnds(o)
  BY <1>2, <1>3, <1>8, <1>17 DEF CallEnds, States
<1>19. QED
  BY <1>16, <1>17, <1>18 DEF CallsEnd

LEMMA TakePacketIos ==
  ASSUME IosInv, OwnersStay, NEW w, TakePacket(w)
  PROVE  IosInv'
<1>1. PICK o : o = Head(port)
  OBVIOUS
<1>2. ios' = [ios EXCEPT ![o] = NoIo] /\ port' = Tail(port) /\ port # <<>>
  BY <1>1 DEF TakePacket
<1>3. port \in Seq(Ovs) /\ \A i, j \in 1..Len(port) : port[i] = port[j] => i = j
  BY DEF IosInv
<1>4. /\ \A x : In(port', x) <=> In(port, x) /\ x # o
      /\ \A i, j \in 1..Len(port') : port'[i] = port'[j] => i = j
      /\ port' \in Seq(Ovs) /\ o \in Ovs
  <2>1. PICK q : q = Tail(port)
    OBVIOUS
  <2>2. /\ \A x : In(Tail(port), x) <=> In(port, x) /\ x # Head(port)
        /\ \A i, j \in 1..Len(Tail(port)) : Tail(port)[i] = Tail(port)[j] => i = j
        /\ Tail(port) \in Seq(Ovs) /\ Head(port) \in Ovs
    BY <1>2, <1>3, InTail
  <2>3. port' = q
    BY <1>2, <2>1
  <2>4. QED
    BY <1>1, <2>1, <2>2, <2>3
<1>5. /\ ios'[o] = NoIo /\ \A p \in Ovs \ {o} : ios'[p] = ios[p]
      /\ ios' \in [Ovs -> {NoIo} \cup RecvIos \cup SendIos]
  BY <1>2, <1>4 DEF IosInv
<1>6. \A p \in Ovs : ios'[p] # NoIo => sid'[ios'[p].owner] # None
  <2>1. \A p \in Ovs : ios[p] # NoIo => ios[p].owner \in Sessions /\ sid'[ios[p].owner] # None
    BY CallIs DEF IosInv, OwnersStay
  <2>2. QED
    BY <1>5, <2>1
<1>7. \A p \in Ovs : In(port', p) <=> ios'[p] # NoIo /\ ios'[p].state # "pending"
  <2>1. \A p \in Ovs : In(port, p) <=> ios[p] # NoIo /\ ios[p].state # "pending"
    BY DEF IosInv
  <2>2. QED
    BY <1>4, <1>5, <2>1
<1>8. QED
  BY <1>4, <1>5, <1>6, <1>7 DEF IosInv

\* What PostFront does: the call of the first message is posted, or the message
\* is dropped.
CallOf(s, c, m) == [type |-> "send", owner |-> s, conn |-> c, msg |-> m, state |-> "pending"]
Posts(s, q) ==
  /\ \E o \in Ovs, c \in Conns :
       /\ ios[o] = NoIo /\ sock[s] # None /\ c = conn[sock[s]]
       /\ ios' = [ios EXCEPT ![o] = CallOf(s, c, Head(q))]
  /\ sent' = Append(sent, Head(q))
  /\ sendQ' = [sendQ EXCEPT ![s] = q]
  /\ sending' = [sending EXCEPT ![s] = TRUE]
Drops(s, q) ==
  /\ sendQ' = [sendQ EXCEPT ![s] = Tail(q)]
  /\ sending' = [sending EXCEPT ![s] = FALSE]
  /\ UNCHANGED <<ios, sent>>

LEMMA PostFrontIs ==
  ASSUME UseInv, IosInv, conns \in Nat, conns <= MaxConns, OwnersStay, port' = port,
         NEW s \in Sessions, sid[s] # None, NEW q \in Seq(Nat), q # <<>>, PostFront(s, q)
  PROVE  IosInv' /\ (Posts(s, q) \/ Drops(s, q))
<1>1. PICK k, m, io : k = sock[s] /\ m = Head(q) /\ io = SendIo(s, m)
  OBVIOUS
<1>2. k \in Sockets \cup {None} /\ m \in Nat
  BY <1>1 DEF UseInv
<1>3. CASE HasOv /\ CanPost(k) /\ Post(io, k)
  <2>1. k # None /\ conn[k] \in Conns
    BY <1>2, <1>3, PostIs
  <2>2. PICK o \in Ovs : ios[o] = NoIo /\ ios' = [ios EXCEPT ![o] = [io EXCEPT !.conn = conn[k]]]
    BY <1>2, <1>3, PostIs
  <2>3. PICK c \in Conns : c = conn[k]
    BY <2>1
  <2>4. PICK jo : jo = [io EXCEPT !.conn = c]
    OBVIOUS
  <2>5. jo = CallOf(s, c, m)
    BY <1>1, <2>4 DEF SendIo, CallOf
  <2>6. ios' = [ios EXCEPT ![o] = jo]
    BY <2>2, <2>3, <2>4
  <2>7. jo \in RecvIos \cup SendIos /\ jo.state = "pending" /\ jo.owner = s
    BY <1>2, <2>5 DEF CallOf, SendIos, States
  <2>8. IosInv'
    BY <2>2, <2>6, <2>7, PostKeepsIos
  <2>9. CASE sending' = [sending EXCEPT ![s] = TRUE] /\ sendQ' = [sendQ EXCEPT ![s] = q] /\ sent' = Append(sent, m)
    BY <1>1, <2>1, <2>2, <2>3, <2>5, <2>6, <2>8, <2>9 DEF Posts
  <2>10. CASE ios' = ios
    <3>1. ios'[o] = jo /\ jo # NoIo
      BY <2>6, <2>7, CallIs DEF IosInv
    <3>2. QED
      BY <2>2, <2>10, <3>1
  <2>11. QED
    BY <1>1, <2>9, <2>10 DEF PostFront
<1>4. CASE Drops(s, q)
  BY <1>4, SameIos DEF Drops
<1>5. QED
  BY <1>1, <1>3, <1>4 DEF PostFront, Drops

\* Send, and the completion of a send.
LEMMA SendOnIs ==
  ASSUME ManagerInv, SendInv, NEW s \in Sessions, sid[s] # None, OwnersStay, SendOn(s)
  PROVE  LET m == Len(sendOf) + 1 IN
         /\ IosInv' /\ sendOf' = Append(sendOf, serves[s])
         /\ \/ /\ sending[s] /\ sendQ' = [sendQ EXCEPT ![s] = Append(sendQ[s], m)]
               /\ UNCHANGED <<ios, sending, sent>>
            \/ ~sending[s] /\ (Posts(s, Append(sendQ[s], m)) \/ Drops(s, Append(sendQ[s], m)))
         /\ UNCHANGED <<conn, port, unheard, sock, closing, serves>>
<1>1. UseInv /\ IosInv /\ conns \in Nat /\ conns <= MaxConns /\ QueueInv
  BY SendPartsOf
<1>2. PICK m, q : m = Len(sendOf) + 1 /\ q = Append(sendQ[s], m)
  OBVIOUS
<1>3. sendOf' = Append(sendOf, serves[s]) /\ UNCHANGED <<conn, port, unheard, sock, closing, serves>>
  BY DEF SendOn
<1>4. \/ /\ sending[s] /\ sendQ' = [sendQ EXCEPT ![s] = q]
         /\ UNCHANGED <<ios, sending, sent>>
      \/ ~sending[s] /\ PostFront(s, q)
  BY <1>2 DEF SendOn, InProgress, Pushed
<1>5. q \in Seq(Nat) /\ q # <<>>
  <2>1. Len(sendOf) \in Nat /\ sendQ[s] \in Seq(1..Len(sendOf))
    BY <1>1 DEF QueueInv, QueuesOK
  <2>2. 1..Len(sendOf) \subseteq Nat
    BY <2>1
  <2>3. sendQ[s] \in Seq(Nat)
    BY <2>1, <2>2, SeqLarger
  <2>4. QED
    BY <1>2, <2>1, <2>3
<1>6. CASE ~sending[s] /\ PostFront(s, q)
  <2>1. IosInv' /\ (Posts(s, q) \/ Drops(s, q))
    BY <1>1, <1>3, <1>5, <1>6, PostFrontIs
  <2>2. QED
    BY <1>2, <1>3, <1>6, <2>1
<1>7. CASE sending[s] /\ sendQ' = [sendQ EXCEPT ![s] = q] /\ UNCHANGED <<ios, sending, sent>>
  BY <1>1, <1>2, <1>3, <1>7, SameIos
<1>8. QED
  BY <1>4, <1>6, <1>7

LEMMA SendDoneIs ==
  ASSUME ManagerInv, SendInv, NEW t \in Threads, SendDone(t), OwnersStay,
         NEW s \in Sessions, s = Arg(t), sid[s] # None
  PROVE  /\ IosInv' /\ UNCHANGED <<conn, port, unheard, sock, closing, serves, sendOf>>
         /\ LET q == IF sendQ[s] = <<>> THEN <<>> ELSE Tail(sendQ[s]) IN
            \/ /\ q = <<>> /\ sendQ' = [sendQ EXCEPT ![s] = <<>>]
               /\ sending' = [sending EXCEPT ![s] = FALSE] /\ UNCHANGED <<ios, sent>>
            \/ q # <<>> /\ (Posts(s, q) \/ Drops(s, q))
<1>1. UseInv /\ IosInv /\ conns \in Nat /\ conns <= MaxConns /\ QueueInv
  BY SendPartsOf
<1>2. PICK q : q = IF sendQ[s] = <<>> THEN <<>> ELSE Tail(sendQ[s])
  OBVIOUS
<1>3. UNCHANGED <<conn, port, unheard, sock, closing, serves, sendOf>>
  BY DEF SendDone
<1>4. \/ /\ q = <<>> /\ sendQ' = [sendQ EXCEPT ![s] = <<>>]
         /\ sending' = [sending EXCEPT ![s] = FALSE] /\ UNCHANGED <<ios, sent>>
      \/ q # <<>> /\ PostFront(s, q)
  BY <1>2 DEF SendDone, QueueDone
<1>5. q \in Seq(Nat)
  <2>1. Len(sendOf) \in Nat /\ sendQ[s] \in Seq(1..Len(sendOf))
    BY <1>1 DEF QueueInv, QueuesOK
  <2>2. 1..Len(sendOf) \subseteq Nat
    BY <2>1
  <2>3. sendQ[s] \in Seq(Nat)
    BY <2>1, <2>2, SeqLarger
  <2>4. QED
    BY <1>2, <2>3
<1>6. CASE q # <<>> /\ PostFront(s, q)
  <2>1. IosInv' /\ (Posts(s, q) \/ Drops(s, q))
    BY <1>1, <1>3, <1>5, <1>6, PostFrontIs
  <2>2. QED
    BY <1>2, <1>3, <1>6, <2>1
<1>7. CASE q = <<>> /\ sendQ' = [sendQ EXCEPT ![s] = <<>>] /\ sending' = [sending EXCEPT ![s] = FALSE]
           /\ UNCHANGED <<ios, sent>>
  BY <1>1, <1>2, <1>3, <1>7, SameIos
<1>8. QED
  BY <1>4, <1>6, <1>7

\* The session that a thread sends on is in use.
LEMMA SendToNextIs ==
  ASSUME ManagerInv, SendInv, NEW t \in Callers, SendToNext(t)
  PROVE  \E s \in Sessions : SendOn(s) /\ sid[s] # None
<1>1. TodoType /\ FineInv
  BY SendPartsOf
<1>2. PICK s \in Arg(t) : SendOn(s)
  BY DEF SendToNext
<1>3. StepAbout(Head(todo[t])) /\ At(t, "sends")
  BY <1>1, CallerOf, HeadFine DEF SendToNext, At
<1>4. QED
  BY <1>2, <1>3 DEF StepAbout, At, Arg

LEMMA IosKeeps ==
  ASSUME ManagerInv, SendInv, Next
  PROVE  IosInv'
<1>1. TodoType /\ FineInv /\ IosInv /\ Onward
  BY SendPartsOf, NextFine
<1>2. OwnersStay
  BY <1>1 DEF OwnersStay, Onward
<1>3. ASSUME NEW t \in Callers, SendToNext(t) PROVE IosInv'
  BY <1>2, <1>3, SendToNextIs, SendOnIs
<1>4. ASSUME NEW t \in Threads, SendDone(t) PROVE IosInv'
  <2>1. PICK s \in Sessions : s = Arg(t) /\ sid[s] # None
    BY <1>1, <1>4, ArgInUse DEF SendDone, AboutSession
  <2>2. QED
    BY <1>2, <1>4, <2>1, SendDoneIs
<1>5. ASSUME NEW t, CloseSocketHandle(t) \/ DropSocket(t) PROVE IosInv'
  <2>1. PICK k : CloseHandle(k)
    BY <1>5 DEF CloseSocketHandle, DropSocket
  <2>2. QED
    BY <1>1, <1>2, <2>1, CloseHandleIos
<1>6. ASSUME NEW t, \/ Accepted(t) \/ Beginning(t) \/ CreateAllocate(t) \/ CreateRegister(t) \/ Associate(t)
                    \/ DestroyErase(t) \/ DestroyRelease(t)
      PROVE  UNCHANGED <<ios, port>>
  BY <1>6 DEF Accepted, Beginning, FindAndSend, Broadcast, FindAndClose, CallDestroy, Calls, CreateRegister,
     Associate, DestroyErase, DestroyRelease, CreateAllocate, kernelVars
<1>7. ASSUME NEW t, \/ CloseSocket(t) \/ ClearSock(t) \/ Close(t) \/ PostRecvAcquire(t) \/ FillRx(t) \/ MoveRx(t) \/ ResetRx(t)
                    \/ ClearRx(t) \/ ReleaseRx(t)
      PROVE  UNCHANGED <<ios, port>>
  BY <1>7 DEF CloseSocket, ClearSock, Close, PostRecvAcquire, FillRx, MoveRx, ResetRx, ClearRx, ReleaseRx, kernelVars
<1>8. UNCHANGED managerVars => sid' = sid
  BY DEF managerVars
<1>9. CASE UNCHANGED <<ios, port>>
  BY <1>1, <1>2, <1>9, SameIos
<1>10. ASSUME NEW t \in Threads, Receiving(t), UNCHANGED managerVars PROVE IosInv'
  BY <1>7, <1>8, <1>9, <1>10, RecvCallIos DEF Receiving
<1>11. QED
  BY <1>1, <1>2, <1>3, <1>4, <1>5, <1>6, <1>7, <1>9, <1>10, NextIs, TakePacketIos, CompleteIos

-----------------------------------------------------------------------------
(* Who has what to show for a session that is sending.                     *)

TokensInv == TokenInv /\ CallInv /\ AliveInv

LEMMA SendingInUse ==
  ASSUME UseInv, TokenInv, NEW s \in Sessions, sending[s] \/ HasOp(s) \/ HasDone(s)
  PROVE  sid[s] # None
BY DEF UseInv, TokenInv

\* No session's flag changes and no send is posted.
LEMMA TokensSame ==
  ASSUME UseInv, TokensInv, Onward, DonesSame, ClosesStay, sending' = sending, unheard \subseteq unheard',
         \A o \in Ovs : CallEnds(o) \/ (ios'[o].type = "recv" /\ ios[o] = NoIo),
         IosInv
  PROVE  TokensInv'
<1>1. \A o \in Ovs, s \in Sessions :
        /\ IsSend(o, s)' => IsSend(o, s) /\ ios'[o].conn = ios[o].conn
        /\ IsSend(o, s) => IsSend(o, s)' \/ ios[o].conn \in unheard'
  <2>1. SUFFICES ASSUME NEW o \in Ovs, NEW s \in Sessions
                 PROVE  /\ IsSend(o, s)' => IsSend(o, s) /\ ios'[o].conn = ios[o].conn
                        /\ IsSend(o, s) => IsSend(o, s)' \/ ios[o].conn \in unheard'
    OBVIOUS
  <2>2. PICK io, jo : io = ios[o] /\ jo = ios'[o]
    OBVIOUS
  <2>3. io \in {NoIo} \cup RecvIos \cup SendIos
    BY <2>2 DEF IosInv
  <2>4. CASE io # NoIo /\ \E how \in States : jo = [io EXCEPT !.state = how]
    <3>1. jo.type = io.type /\ jo.owner = io.owner /\ jo.conn = io.conn
      BY <2>3, <2>4 DEF RecvIos, SendIos
    <3>2. QED
      BY <2>2, <3>1 DEF IsSend
  <2>5. CASE jo = NoIo /\ io # NoIo /\ io.conn \in unheard'
    BY <2>2, <2>5, CallIs DEF IsSend
  <2>6. CASE jo = io
    BY <2>2, <2>6 DEF IsSend
  <2>7. CASE jo.type = "recv" /\ io = NoIo
    BY <2>2, <2>7, CallIs DEF IsSend
  <2>8. QED
    BY <2>2, <2>4, <2>5, <2>6, <2>7 DEF CallEnds
<1>2. \A s \in Sessions : (HasOp(s)' => HasOp(s)) /\ (HasDone(s)' <=> HasDone(s))
  BY <1>1 DEF HasOp, HasDone, DonesSame
<1>3. TokenInv'
  BY <1>1, <1>2 DEF TokensInv, TokenInv, DonesSame
<1>4. ASSUME NEW s \in Sessions, FirstUse(s)', Linked(s)', sid[s] # None
      PROVE  FirstUse(s) /\ Linked(s) /\ serves'[s] = serves[s]
  BY <1>4 DEF Onward
<1>5. CallInv'
  <2>1. SUFFICES ASSUME NEW s \in Sessions, FirstUse(s)', Linked(s)', NEW o \in Ovs, IsSend(o, s)'
                 PROVE  ios'[o].conn = serves'[s]
    BY DEF CallInv
  <2>2. IsSend(o, s) /\ ios'[o].conn = ios[o].conn
    BY <1>1, <2>1
  <2>3. sid[s] # None
    BY <2>2, SendingInUse DEF HasOp, TokensInv
  <2>4. QED
    BY <1>4, <2>1, <2>2, <2>3 DEF TokensInv, CallInv
<1>6. AliveInv'
  <2>1. SUFFICES ASSUME NEW s \in Sessions, FirstUse(s)', Linked(s)', sending[s]
                 PROVE  HasOp(s)' \/ HasDone(s)' \/ WillClose(s)' \/ serves'[s] \in unheard'
    BY DEF AliveInv
  <2>2. FirstUse(s) /\ Linked(s) /\ serves'[s] = serves[s]
    BY <1>4, <2>1, SendingInUse DEF TokensInv
  <2>3. HasOp(s) \/ HasDone(s) \/ WillClose(s) \/ serves[s] \in unheard
    BY <2>1, <2>2 DEF TokensInv, AliveInv
  <2>4. CASE HasOp(s)
    <3>1. PICK o \in Ovs : IsSend(o, s)
      BY <2>4 DEF HasOp
    <3>2. ios[o].conn = serves[s]
      BY <2>2, <3>1 DEF TokensInv, CallInv
    <3>3. IsSend(o, s)' \/ serves'[s] \in unheard'
      BY <1>1, <2>2, <3>1, <3>2
    <3>4. QED
      BY <3>3 DEF HasOp
  <2>5. QED
    BY <1>2, <2>1, <2>2, <2>3, <2>4 DEF ClosesStay
<1>7. QED
  BY <1>3, <1>5, <1>6 DEF TokensInv

\* A worker takes a packet, and has what the call had.
LEMMA TakeTokens ==
  ASSUME ManagerInv, SendInv, NEW w \in Workers, TakePacket(w), UNCHANGED managerVars
  PROVE  TokensInv'
<1>1. /\ UseInv /\ TokenInv /\ CallInv /\ AliveInv /\ IosInv /\ FineInv
  BY SendPartsOf
<1>2. PICK h, io : h = Head(port) /\ io = ios[h]
  OBVIOUS
<1>3. /\ Onward /\ ClosesStay /\ h \in Ovs /\ io # NoIo /\ io.owner \in Sessions
      /\ \A x \in Sessions : io.state = "failed" /\ x = io.owner => WillClose(x)'
      /\ \A u \in Threads : \A x \in Sessions :
           In(todo'[u], <<"sendDone", x>>) <=>
             \/ In(todo[u], <<"sendDone", x>>)
             \/ u = w /\ x = io.owner /\ io.type = "send" /\ io.state # "failed"
  BY <1>1, <1>2, TakeFine
<1>4. /\ ios' = [ios EXCEPT ![h] = NoIo] /\ UNCHANGED <<sending, unheard>> /\ w \in Threads
  BY <1>2 DEF TakePacket, sessionVars, Threads
<1>5. \A o \in Ovs, s \in Sessions :
        /\ IsSend(o, s)' <=> IsSend(o, s) /\ o # h
        /\ o # h => ios'[o] = ios[o]
        /\ IsSend(h, s) <=> io.type = "send" /\ io.owner = s
  BY <1>1, <1>2, <1>3, <1>4, CallIs DEF IsSend, IosInv
<1>6. \A s \in Sessions : HasDone(s)' <=> HasDone(s) \/ (IsSend(h, s) /\ io.state # "failed")
  BY <1>3, <1>4, <1>5 DEF HasDone
<1>7. \A s \in Sessions : IsSend(h, s) => HasOp(s) /\ ~HasDone(s)
  BY <1>1, <1>3 DEF HasOp, TokenInv
<1>8. \A s \in Sessions : HasOp(s)' => HasOp(s) /\ ~IsSend(h, s)
  BY <1>1, <1>3, <1>5 DEF HasOp, TokenInv
<1>9. TokenInv'
  <2>1. SUFFICES ASSUME NEW s \in Sessions
                 PROVE /\ HasOp(s)' \/ HasDone(s)' => sending[s]
                       /\ ~(HasOp(s)' /\ HasDone(s)')
                       /\ \A o, p \in Ovs : IsSend(o, s)' /\ IsSend(p, s)' => o = p
                       /\ \A t, u \in Threads :
                            In(todo'[t], <<"sendDone", s>>) /\ In(todo'[u], <<"sendDone", s>>) => t = u
    BY <1>4 DEF TokenInv
  <2>2. HasOp(s)' \/ HasDone(s)' => sending[s]
    BY <1>1, <1>6, <1>7, <1>8 DEF TokenInv
  <2>3. ~(HasOp(s)' /\ HasDone(s)')
    BY <1>1, <1>6, <1>8 DEF TokenInv
  <2>4. \A o, p \in Ovs : IsSend(o, s)' /\ IsSend(p, s)' => o = p
    BY <1>1, <1>5 DEF TokenInv
  <2>5. ASSUME NEW t \in Threads, NEW u \in Threads,
               In(todo'[t], <<"sendDone", s>>), In(todo'[u], <<"sendDone", s>>)
        PROVE  t = u
    <3>1. CASE IsSend(h, s)
      <4>1. ~HasDone(s)
        BY <1>7, <3>1
      <4>2. t = w /\ u = w
        BY <1>3, <2>5, <4>1 DEF HasDone
      <4>3. QED
        BY <4>2
    <3>2. CASE ~IsSend(h, s)
      <4>1. In(todo[t], <<"sendDone", s>>) /\ In(todo[u], <<"sendDone", s>>)
        BY <1>3, <1>5, <2>5, <3>2
      <4>2. QED
        BY <1>1, <4>1 DEF TokenInv
    <3>3. QED
      BY <3>1, <3>2
  <2>6. QED
    BY <2>2, <2>3, <2>4, <2>5
<1>10. ASSUME NEW s \in Sessions, FirstUse(s)', Linked(s)', sid[s] # None
       PROVE  FirstUse(s) /\ Linked(s) /\ serves'[s] = serves[s]
  BY <1>3, <1>10 DEF Onward
<1>11. CallInv'
  <2>1. SUFFICES ASSUME NEW s \in Sessions, FirstUse(s)', Linked(s)', NEW o \in Ovs, IsSend(o, s)'
                 PROVE  ios'[o].conn = serves'[s]
    BY DEF CallInv
  <2>2. IsSend(o, s) /\ ios'[o].conn = ios[o].conn
    BY <1>5, <2>1
  <2>3. sid[s] # None
    BY <1>1, <2>2, SendingInUse DEF HasOp
  <2>4. QED
    BY <1>1, <1>10, <2>1, <2>2, <2>3 DEF CallInv
<1>12. AliveInv'
  <2>1. SUFFICES ASSUME NEW s \in Sessions, FirstUse(s)', Linked(s)', sending[s]
                 PROVE  HasOp(s)' \/ HasDone(s)' \/ WillClose(s)' \/ serves'[s] \in unheard'
    BY <1>4 DEF AliveInv
  <2>2. FirstUse(s) /\ Linked(s) /\ serves'[s] = serves[s]
    BY <1>1, <1>10, <2>1, SendingInUse
  <2>3. HasOp(s) \/ HasDone(s) \/ WillClose(s) \/ serves[s] \in unheard
    BY <1>1, <2>1, <2>2 DEF AliveInv
  <2>4. CASE HasOp(s)
    <3>1. PICK o \in Ovs : IsSend(o, s)
      BY <2>4 DEF HasOp
    <3>2. CASE o # h
      BY <1>5, <3>1, <3>2 DEF HasOp
    <3>3. CASE o = h
      <4>1. IsSend(h, s) /\ s = io.owner
        BY <1>5, <3>1, <3>3
      <4>2. QED
        BY <1>3, <1>6, <4>1
    <3>4. QED
      BY <3>2, <3>3
  <2>5. QED
    BY <1>3, <1>4, <1>6, <2>1, <2>2, <2>3, <2>4 DEF ClosesStay
<1>13. QED
  BY <1>9, <1>11, <1>12 DEF TokensInv

\* Session s has nothing to show any more; then its next message is posted, or it
\* is not sending.
DonesBut(s) ==
  \A u \in Threads : \A x \in Sessions :
    In(todo'[u], <<"sendDone", x>>) <=> In(todo[u], <<"sendDone", x>>) /\ x # s

LEMMA PostTokens ==
  ASSUME UseInv, TokensInv, IosInv, Onward, ClosesStay, NEW s \in Sessions, DonesBut(s), ~HasOp(s),
         UNCHANGED <<conn, sock, serves, unheard, sid>>,
         NEW q, Posts(s, q) \/ (sending' = [sending EXCEPT ![s] = FALSE] /\ ios' = ios)
  PROVE  TokensInv'
<1>1. \A x \in Sessions : HasDone(x)' <=> HasDone(x) /\ x # s
  BY DEF HasDone, DonesBut
<1>2. \A x \in Sessions : x # s => sending'[x] = sending[x]
  BY DEF Posts, UseInv
<1>3. \A x \in Sessions : /\ FirstUse(x)' <=> FirstUse(x)
                          /\ Linked(x)' <=> Linked(x)
  BY DEF FirstUse, Linked
<1>4. CASE sending' = [sending EXCEPT ![s] = FALSE] /\ ios' = ios
  <2>1. ~sending'[s]
    BY <1>4 DEF UseInv
  <2>2. \A x \in Sessions : (HasOp(x)' <=> HasOp(x)) /\ \A o \in Ovs : IsSend(o, x)' <=> IsSend(o, x)
    BY <1>4 DEF HasOp, IsSend
  <2>3. TokenInv'
    BY <1>1, <1>2, <2>2 DEF TokensInv, TokenInv, DonesBut
  <2>4. CallInv'
    BY <1>3, <1>4, <2>2 DEF TokensInv, CallInv
  <2>5. AliveInv'
    BY <1>1, <1>2, <1>3, <2>1, <2>2 DEF TokensInv, AliveInv, ClosesStay
  <2>6. QED
    BY <2>3, <2>4, <2>5 DEF TokensInv
<1>5. CASE Posts(s, q)
  <2>0. PICK m : m = Head(q)
    OBVIOUS
  <2>1. PICK n \in Ovs, c \in Conns : /\ ios[n] = NoIo /\ sock[s] # None /\ c = conn[sock[s]]
                                      /\ ios' = [ios EXCEPT ![n] = CallOf(s, c, m)]
    BY <1>5, <2>0 DEF Posts
  <2>2. sending'[s]
    BY <1>5 DEF Posts, UseInv
  <2>3. ios'[n] = CallOf(s, c, m) /\ \A o \in Ovs \ {n} : ios'[o] = ios[o]
    BY <2>1 DEF IosInv
  <2>4. \A o \in Ovs, x \in Sessions : IsSend(o, x)' <=> IsSend(o, x) \/ (o = n /\ x = s)
    BY <2>1, <2>3, CallIs DEF IsSend, CallOf
  <2>5. ios'[n].conn = c
    BY <2>3 DEF CallOf
  <2>6. \A x \in Sessions : HasOp(x)' <=> HasOp(x) \/ x = s
    BY <2>4 DEF HasOp
  <2>7. \A o \in Ovs : ~IsSend(o, s)
    BY DEF HasOp
  <2>8. TokenInv'
    <3>1. SUFFICES ASSUME NEW x \in Sessions
                   PROVE /\ HasOp(x)' \/ HasDone(x)' => sending'[x]
                         /\ ~(HasOp(x)' /\ HasDone(x)')
                         /\ \A o, p \in Ovs : IsSend(o, x)' /\ IsSend(p, x)' => o = p
                         /\ \A t, u \in Threads :
                              In(todo'[t], <<"sendDone", x>>) /\ In(todo'[u], <<"sendDone", x>>) => t = u
      BY DEF TokenInv
    <3>2. CASE x = s
      <4>1. \A o \in Ovs : IsSend(o, x)' => o = n
        BY <2>4, <2>7, <3>2
      <4>2. ~HasDone(x)' /\ \A t \in Threads : ~In(todo'[t], <<"sendDone", x>>)
        BY <1>1, <3>2 DEF DonesBut
      <4>3. QED
        BY <2>2, <3>2, <4>1, <4>2
    <3>3. CASE x # s
      <4>1. \A o \in Ovs : IsSend(o, x)' <=> IsSend(o, x)
        BY <2>4, <3>3
      <4>2. \A t \in Threads : In(todo'[t], <<"sendDone", x>>) <=> In(todo[t], <<"sendDone", x>>)
        BY <3>3 DEF DonesBut
      <4>3. (HasOp(x)' <=> HasOp(x)) /\ (HasDone(x)' <=> HasDone(x)) /\ sending'[x] = sending[x]
        BY <1>1, <1>2, <2>6, <3>3
      <4>4. QED
        BY <4>1, <4>2, <4>3 DEF TokensInv, TokenInv
    <3>4. QED
      BY <3>2, <3>3
  <2>9. CallInv'
    <3>1. SUFFICES ASSUME NEW x \in Sessions, FirstUse(x)', Linked(x)', NEW o \in Ovs, IsSend(o, x)'
                   PROVE  ios'[o].conn = serves'[x]
      BY DEF CallInv
    <3>2. CASE o = n /\ x = s
      BY <1>3, <2>1, <2>5, <3>1, <3>2 DEF Linked
    <3>3. CASE IsSend(o, x)
      <4>1. o # n
        BY <2>1, <3>3, CallIs DEF IsSend
      <4>2. QED
        BY <1>3, <2>3, <3>1, <3>3, <4>1 DEF TokensInv, CallInv
    <3>4. QED
      BY <2>4, <3>1, <3>2, <3>3
  <2>10. AliveInv'
    BY <1>1, <1>2, <1>3, <2>6 DEF TokensInv, AliveInv, ClosesStay
  <2>11. QED
    BY <2>8, <2>9, <2>10 DEF TokensInv
<1>6. QED
  BY <1>4, <1>5

LEMMA SendToNextTokens ==
  ASSUME ManagerInv, SendInv, NEW t \in Callers, SendToNext(t)
  PROVE  TokensInv'
<1>1. UseInv /\ FineInv /\ TokenInv /\ TokensInv /\ IosInv
  BY SendPartsOf DEF TokensInv
<1>2. Onward /\ DonesSame /\ ClosesStay
  BY <1>1, SendToNextFine DEF Control
<1>3. PICK s \in Sessions : SendOn(s) /\ sid[s] # None
  BY SendToNextIs
<1>4. OwnersStay
  BY <1>2 DEF OwnersStay, Onward
<1>5. PICK q : q = Append(sendQ[s], Len(sendOf) + 1)
  OBVIOUS
<1>6. /\ UNCHANGED <<conn, sock, serves, unheard, sid>>
      /\ \/ UNCHANGED <<ios, sending>>
         \/ ~sending[s] /\ (Posts(s, q) \/ Drops(s, q))
  BY <1>3, <1>4, <1>5, SendOnIs DEF SendToNext, managerVars
<1>7. CASE UNCHANGED <<ios, sending>>
  <2>1. \A o \in Ovs : CallEnds(o)
    BY <1>7 DEF CallEnds
  <2>2. QED
    BY <1>1, <1>2, <1>6, <1>7, <2>1, TokensSame
<1>8. CASE ~sending[s] /\ (Posts(s, q) \/ Drops(s, q))
  <2>1. ~HasOp(s) /\ ~HasDone(s)
    BY <1>1, <1>8 DEF TokenInv
  <2>2. DonesBut(s)
    BY <1>2, <2>1 DEF DonesSame, DonesBut, HasDone
  <2>3. QED
    BY <1>1, <1>2, <1>6, <1>8, <2>1, <2>2, PostTokens DEF Drops
<1>9. QED
  BY <1>6, <1>7, <1>8

LEMMA SendDoneTokens ==
  ASSUME ManagerInv, SendInv, NEW t \in Threads, SendDone(t), UNCHANGED managerVars
  PROVE  TokensInv'
<1>1. /\ UseInv /\ FineInv /\ TokenInv /\ TokensInv /\ IosInv /\ TodoType /\ StepsInv /\ conns \in Nat
  BY SendPartsOf DEF TokensInv
<1>2. PICK s : s = Arg(t)
  OBVIOUS
<1>3. /\ Onward /\ ClosesStay /\ s \in Sessions /\ In(todo[t], <<"sendDone", s>>)
      /\ \A u \in Threads : \A x \in Sessions :
           In(todo'[u], <<"sendDone", x>>) <=> In(todo[u], <<"sendDone", x>>) /\ u # t
  BY <1>1, <1>2, SendDoneFine
<1>4. OwnersStay
  BY <1>3 DEF OwnersStay, Onward
<1>5. At(t, "sendDone") /\ sid[s] # None
  BY <1>1, <1>2, ArgInUse DEF SendDone, AboutSession
<1>6. \A x \in Sessions : In(todo[t], <<"sendDone", x>>) => x = s
  <2>1. /\ StepAbout(Head(todo[t])) /\ StepAfter(t, todo[t], 1) /\ Head(todo[t]) = todo[t][1]
        /\ Head(todo[t])[1] = "sendDone" /\ Head(todo[t])[2] = s
    BY <1>1, <1>2, <1>5, HeadFine DEF At, Arg
  <2>2. Len(todo[t]) = 1 /\ todo[t][1] = <<"sendDone", s>>
    BY <2>1 DEF StepAfter, StepAbout
  <2>3. \A x : In(todo[t], <<"sendDone", x>>) => <<"sendDone", x>> = <<"sendDone", s>>
    BY <2>2 DEF In
  <2>4. QED
    BY <2>3
<1>7. DonesBut(s)
  <2>1. \A u \in Threads : In(todo[u], <<"sendDone", s>>) => u = t
    BY <1>1, <1>3 DEF TokenInv
  <2>2. QED
    BY <1>3, <1>6, <2>1 DEF DonesBut
<1>8. ~HasOp(s)
  BY <1>1, <1>3 DEF TokenInv, HasDone
<1>9. PICK q : q = IF sendQ[s] = <<>> THEN <<>> ELSE Tail(sendQ[s])
  OBVIOUS
<1>10. /\ UNCHANGED <<conn, sock, serves, unheard, sid>>
       /\ \/ sending' = [sending EXCEPT ![s] = FALSE] /\ ios' = ios
          \/ Posts(s, q) \/ Drops(s, q)
  BY <1>2, <1>3, <1>4, <1>5, <1>9, SendDoneIs DEF managerVars
<1>11. QED
  BY <1>1, <1>3, <1>7, <1>8, <1>10, PostTokens DEF Drops

LEMMA TokensKeep ==
  ASSUME ManagerInv, SendInv, Next
  PROVE  TokensInv'
<1>1. /\ UseInv /\ FineInv /\ TokensInv /\ IosInv /\ TodoType /\ StepsInv /\ conns \in Nat /\ FreshInv
  BY SendPartsOf DEF TokensInv
<1>2. Onward /\ ClosesStay
  BY NextFine
<1>3. ASSUME DonesSame, UNCHANGED <<sending, unheard, ios>> PROVE TokensInv'
  BY <1>1, <1>2, <1>3, TokensSame DEF CallEnds
<1>4. ASSUME DonesSame, UNCHANGED sending, CallsEnd PROVE TokensInv'
  BY <1>1, <1>2, <1>4, TokensSame DEF CallsEnd
<1>5. OwnersStay
  BY <1>2 DEF OwnersStay, Onward
<1>6. ASSUME NEW t \in Callers, \/ Accepted(t) \/ Beginning(t) \/ CreateAllocate(t) \/ CreateRegister(t)
                                \/ Associate(t) \/ DestroyErase(t) \/ DestroyRelease(t)
      PROVE  TokensInv'
  <2>1. DonesSame
    BY <1>1, <1>6, AcceptedFine, CallsFine, CreateAllocateFine, RegisterFine, AssociateFine,
       DestroyEraseFine, ReleaseFine DEF Beginning, Control
  <2>2. UNCHANGED <<sending, unheard, ios>>
    BY <1>6 DEF Accepted, Beginning, FindAndSend, Broadcast, FindAndClose, CallDestroy, Calls, CreateRegister,
       Associate, DestroyErase, DestroyRelease, CreateAllocate, sessionVars, kernelVars
  <2>3. QED
    BY <1>3, <2>1, <2>2
<1>7. ASSUME NEW t \in Threads, UNCHANGED managerVars,
             \/ CloseSocket(t) \/ ClearSock(t) \/ Close(t) \/ PostRecvAcquire(t) \/ FillRx(t) \/ MoveRx(t) \/ ResetRx(t)
             \/ ClearRx(t) \/ ReleaseRx(t)
      PROVE  TokensInv'
  <2>1. DonesSame
    BY <1>1, <1>7, CloseSocketFine, ClearSockFine, CloseFine, OtherSessionFine DEF Control
  <2>2. UNCHANGED <<sending, unheard, ios>>
    BY <1>7 DEF CloseSocket, ClearSock, Close, PostRecvAcquire, FillRx, MoveRx, ResetRx, ClearRx, ReleaseRx, sessionVars, kernelVars
  <2>3. QED
    BY <1>3, <2>1, <2>2
<1>8. ASSUME NEW t \in Threads, UNCHANGED managerVars, CloseSocketHandle(t) \/ DropSocket(t)
      PROVE  TokensInv'
  <2>1. DonesSame
    BY <1>1, <1>8, CloseHandleFine DEF Control
  <2>2. sending' = sending
    BY <1>8 DEF CloseSocketHandle, DropSocket, sessionVars
  <2>3. PICK k : CloseHandle(k)
    BY <1>8 DEF CloseSocketHandle, DropSocket
  <2>4. QED
    BY <1>1, <1>4, <1>5, <2>1, <2>2, <2>3, CloseHandleIos
<1>9. ASSUME NEW t \in Threads, UNCHANGED managerVars, PostRecvCall(t) PROVE TokensInv'
  <2>1. DonesSame
    BY <1>1, <1>9, OtherSessionFine DEF Control
  <2>2. UNCHANGED <<sending, unheard>>
    BY <1>9 DEF PostRecvCall, sessionVars
  <2>3. PICK s, k : s = Arg(t) /\ k = sock[s]
    OBVIOUS
  <2>4. PICK io : io = [type |-> "recv", owner |-> s, conn |-> None, state |-> "pending"]
    OBVIOUS
  <2>5. (HasOv /\ CanPost(k) /\ Post(io, k)) \/ UNCHANGED ios
    BY <1>9, <2>3, <2>4 DEF PostRecvCall
  <2>6. CASE HasOv /\ CanPost(k) /\ Post(io, k)
    <3>1. s \in Sessions
      BY <1>1, <1>9, <2>3, ArgInUse DEF PostRecvCall, AboutSession
    <3>2. k \in Sockets \cup {None} /\ conns <= MaxConns
      BY <1>1, <2>3, <3>1, SendPartsOf DEF UseInv
    <3>3. PICK o \in Ovs : ios[o] = NoIo /\ ios' = [ios EXCEPT ![o] = [io EXCEPT !.conn = conn[k]]]
      BY <1>1, <2>6, <3>2, PostIs
    <3>4. ios'[o] = [io EXCEPT !.conn = conn[k]] /\ \A p \in Ovs \ {o} : ios'[p] = ios[p]
      BY <1>1, <3>3 DEF IosInv
    <3>5. ios'[o].type = "recv"
      BY <2>4, <3>4
    <3>6. \A p \in Ovs : CallEnds(p) \/ (ios'[p].type = "recv" /\ ios[p] = NoIo)
      BY <3>3, <3>4, <3>5 DEF CallEnds
    <3>7. QED
      BY <1>1, <1>2, <2>1, <2>2, <3>6, TokensSame
  <2>7. QED
    BY <1>3, <2>1, <2>2, <2>5, <2>6
<1>10. ASSUME NEW o \in Ovs, Complete(o) PROVE TokensInv'
  <2>1. sending' = sending /\ todo' = todo
    BY <1>10 DEF Complete, sessionVars
  <2>2. DonesSame
    BY <2>1 DEF DonesSame
  <2>3. QED
    BY <1>1, <1>4, <1>5, <1>10, <2>1, <2>2, CompleteIos
<1>11. QED
  BY <1>6, <1>7, <1>8, <1>9, <1>10, NextIs, SendToNextTokens, SendDoneTokens, TakeTokens DEF Receiving

-----------------------------------------------------------------------------
(* The queues.                                                             *)

\* A message is put at the end of a session's queue.
LEMMA Pushes ==
  ASSUME UseInv, NewInv, conns \in Nat, conns <= MaxConns, NEW s \in Sessions, sid[s] # None,
         NEW of, NEW posted, NEW queues, NEW flags, QueuesOK(of, posted, queues, flags)
  PROVE  QueuesOK(Append(of, serves[s]), posted,
                  [queues EXCEPT ![s] = Append(queues[s], Len(of) + 1)], flags)
<1> DEFINE m == Len(of) + 1
           n == Len(queues[s])
<1>1. PICK c, p, of2, q2 : /\ c = serves[s] /\ p = Append(queues[s], m)
                           /\ of2 = Append(of, c) /\ q2 = [queues EXCEPT ![s] = p]
  OBVIOUS
<1>2. c \in Conns /\ c <= conns /\ c # None
  <2>1. c \in 0..conns /\ c # None
    BY <1>1 DEF UseInv
  <2>2. QED
    BY <2>1, NetSessionAssumption DEF Conns, None
<1>3. /\ of \in Seq(Conns) /\ Len(of) \in Nat /\ of2 \in Seq(Conns) /\ Len(of2) = m /\ of2[m] = c
      /\ \A i \in 1..Len(of) : of2[i] = of[i] /\ i \in 1..m /\ i < m
  BY <1>1, <1>2 DEF QueuesOK
<1>4. posted \in Seq(1..Len(of)) /\ posted \in Seq(1..m) /\ \A i \in 1..Len(posted) : posted[i] \in 1..Len(of)
  BY <1>3, SeqLarger DEF QueuesOK
<1>5. queues \in [Sessions -> Seq(1..Len(of))] /\ n \in Nat
      /\ \A x \in Sessions : \A i \in 1..Len(queues[x]) : queues[x][i] \in 1..Len(of)
  BY DEF QueuesOK
<1>6. p \in Seq(1..m) /\ Len(p) = n + 1 /\ p[n + 1] = m /\ \A i \in 1..n : p[i] = queues[s][i]
  <2>1. queues[s] \in Seq(1..m) /\ m \in 1..m
    BY <1>3, <1>5, SeqLarger
  <2>2. QED
    BY <1>1, <2>1
<1>7. q2 \in [Sessions -> Seq(1..m)] /\ q2[s] = p /\ \A x \in Sessions \ {s} : q2[x] = queues[x]
  <2>1. \A x \in Sessions : queues[x] \in Seq(1..m)
    BY <1>3, <1>5, SeqLarger
  <2>2. QED
    BY <1>1, <1>5, <1>6, <2>1
<1> HIDE DEF m, n
<1>8. \A x \in Sessions : \A i \in 1..Len(q2[x]) :
        \/ i \in 1..Len(queues[x]) /\ q2[x][i] = queues[x][i] /\ queues[x][i] \in 1..Len(of)
        \/ x = s /\ i = n + 1 /\ q2[x][i] = m
  <2>1. SUFFICES ASSUME NEW x \in Sessions, NEW i \in 1..Len(q2[x])
                 PROVE  \/ i \in 1..Len(queues[x]) /\ q2[x][i] = queues[x][i] /\ queues[x][i] \in 1..Len(of)
                        \/ x = s /\ i = n + 1 /\ q2[x][i] = m
    OBVIOUS
  <2>2. CASE x # s
    BY <1>5, <1>7, <2>1, <2>2
  <2>3. CASE x = s
    <3>1. i \in 1..(n + 1)
      BY <1>6, <1>7, <2>1, <2>3
    <3>2. i \in 1..n \/ i = n + 1
      BY <1>5, <3>1
    <3>3. QED
      BY <1>5, <1>6, <1>7, <2>3, <3>2 DEF n
  <2>4. QED
    BY <2>2, <2>3
<1>9. \A i \in 1..Len(of2) : of2[i] <= conns
  <2>1. \A i \in 1..m : i \in 1..Len(of) \/ i = m
    BY <1>3 DEF m
  <2>2. \A i \in 1..Len(of) : of[i] <= conns
    BY DEF QueuesOK
  <2>3. QED
    BY <1>2, <1>3, <2>1, <2>2
<1>10. \A i, j \in 1..Len(posted) : i < j /\ of2[posted[i]] = of2[posted[j]] => posted[i] < posted[j]
  BY <1>3, <1>4 DEF QueuesOK
<1>11. \A x \in Sessions : \A i, j \in 1..Len(q2[x]) : i < j => q2[x][i] < q2[x][j]
  <2>1. SUFFICES ASSUME NEW x \in Sessions, NEW i \in 1..Len(q2[x]), NEW j \in 1..Len(q2[x]), i < j
                 PROVE  q2[x][i] < q2[x][j]
    OBVIOUS
  <2>2. CASE j \in 1..Len(queues[x]) /\ q2[x][j] = queues[x][j]
    <3>1. i \in 1..Len(queues[x])
      BY <1>5, <2>1, <2>2
    <3>2. q2[x][i] = queues[x][i]
      <4>1. CASE x # s
        BY <1>7, <4>1
      <4>2. CASE x = s
        BY <1>6, <1>7, <3>1, <4>2 DEF n
      <4>3. QED
        BY <4>1, <4>2
    <3>3. QED
      BY <2>1, <2>2, <3>1, <3>2 DEF QueuesOK
  <2>3. CASE x = s /\ j = n + 1 /\ q2[x][j] = m
    <3>1. i # n + 1
      BY <1>5, <2>1, <2>3
    <3>2. q2[x][i] \in 1..Len(of)
      BY <1>8, <2>1, <3>1
    <3>3. QED
      BY <1>3, <2>3, <3>2
  <2>4. QED
    BY <1>8, <2>1, <2>2, <2>3
<1>12. ASSUME NEW x \in Sessions, NEW i \in 1..Len(q2[x]), Unposted(x, i, flags),
              NEW j \in 1..Len(posted), of2[posted[j]] = of2[q2[x][i]]
       PROVE  posted[j] < q2[x][i]
  <2>1. CASE i \in 1..Len(queues[x]) /\ q2[x][i] = queues[x][i] /\ queues[x][i] \in 1..Len(of)
    <3>1. of[posted[j]] = of[queues[x][i]]
      BY <1>3, <1>4, <1>12, <2>1
    <3>2. QED
      BY <1>12, <2>1, <3>1 DEF QueuesOK
  <2>2. CASE q2[x][i] = m
    BY <1>3, <1>4, <2>2
  <2>3. QED
    BY <1>8, <2>1, <2>2
<1>13. ASSUME NEW r \in Sessions, NEW i \in 1..Len(q2[r]), NEW x \in Sessions, of2[q2[r][i]] = serves[x]
       PROVE  r = x
  <2>1. CASE i \in 1..Len(queues[r]) /\ q2[r][i] = queues[r][i] /\ queues[r][i] \in 1..Len(of)
    <3>1. of[queues[r][i]] = serves[x]
      BY <1>3, <1>13, <2>1
    <3>2. QED
      BY <2>1, <3>1 DEF QueuesOK
  <2>2. CASE r = s /\ q2[r][i] = m
    BY <1>1, <1>2, <1>3, <1>13, <2>2 DEF UseInv
  <2>3. QED
    BY <1>8, <2>1, <2>2
<1>14. ASSUME NEW r \in Sessions, NEW i \in 1..Len(q2[r]), NEW x \in Sessions, NEW j \in 1..Len(q2[x]),
              of2[q2[r][i]] = of2[q2[x][j]]
       PROVE  r = x
  <2>1. CASE q2[x][j] = m /\ x = s
    <3>1. of2[q2[r][i]] = serves[x]
      BY <1>1, <1>3, <1>14, <2>1
    <3>2. QED
      BY <1>13, <3>1
  <2>2. CASE q2[r][i] = m /\ r = s
    <3>1. of2[q2[x][j]] = serves[r]
      BY <1>1, <1>3, <1>14, <2>2
    <3>2. QED
      BY <1>13, <3>1
  <2>3. CASE /\ i \in 1..Len(queues[r]) /\ q2[r][i] = queues[r][i] /\ queues[r][i] \in 1..Len(of)
             /\ j \in 1..Len(queues[x]) /\ q2[x][j] = queues[x][j] /\ queues[x][j] \in 1..Len(of)
    <3>1. of[queues[r][i]] = of[queues[x][j]]
      BY <1>3, <1>14, <2>3
    <3>2. QED
      BY <2>3, <3>1 DEF QueuesOK
  <2>4. QED
    BY <1>8, <2>1, <2>2, <2>3
<1>15. ASSUME NEW i \in 1..Len(of2), NEW t \in Creating PROVE of2[i] # Arg2(t)
  <2>1. i \in 1..Len(of) \/ i = m
    BY <1>3, <1>15 DEF m
  <2>2. c # Arg2(t)
    BY <1>1 DEF NewInv
  <2>3. QED
    BY <1>3, <2>1, <2>2 DEF QueuesOK
<1>16. flags \in [Sessions -> BOOLEAN]
  BY DEF QueuesOK
<1>17. QueuesOK(of2, posted, q2, flags)
  BY <1>3, <1>4, <1>7, <1>9, <1>10, <1>11, <1>12, <1>13, <1>14, <1>15, <1>16 DEF QueuesOK
<1>18. QED
  BY <1>1, <1>17 DEF m

\* The first message of a session that is not sending is posted.
LEMMA PostsFirst ==
  ASSUME NEW s \in Sessions, NEW of, NEW posted, NEW queues, NEW flags,
         QueuesOK(of, posted, queues, flags), queues[s] # <<>>, ~flags[s]
  PROVE  QueuesOK(of, Append(posted, Head(queues[s])), queues, [flags EXCEPT ![s] = TRUE])
<1> DEFINE n == Len(posted)
<1>1. PICK m, posted2, flags2 : /\ m = Head(queues[s]) /\ posted2 = Append(posted, m)
                                /\ flags2 = [flags EXCEPT ![s] = TRUE]
  OBVIOUS
<1>2. queues[s] \in Seq(1..Len(of)) /\ 1 \in 1..Len(queues[s]) /\ m = queues[s][1] /\ m \in 1..Len(of)
  <2>1. queues[s] \in Seq(1..Len(of))
    BY DEF QueuesOK
  <2>2. QED
    BY <1>1, <2>1
<1>3. /\ posted \in Seq(1..Len(of)) /\ n \in Nat
      /\ posted2 \in Seq(1..Len(of)) /\ Len(posted2) = n + 1 /\ posted2[n + 1] = m
      /\ \A i \in 1..n : posted2[i] = posted[i] /\ posted[i] \in 1..Len(of)
  <2>1. posted \in Seq(1..Len(of))
    BY DEF QueuesOK
  <2>2. QED
    BY <1>1, <1>2, <2>1
<1>4. flags2 \in [Sessions -> BOOLEAN] /\ flags2[s] /\ \A x \in Sessions \ {s} : flags2[x] = flags[x]
  BY <1>1 DEF QueuesOK
<1> HIDE DEF n
<1>5. \A i \in 1..Len(posted2) : (i \in 1..n /\ posted2[i] = posted[i]) \/ (i = n + 1 /\ posted2[i] = m)
  BY <1>3
<1>6. \A j \in 1..n : of[posted[j]] = of[m] => posted[j] < m
  <2>1. Unposted(s, 1, flags)
    BY DEF Unposted
  <2>2. QED
    BY <1>2, <2>1 DEF QueuesOK, n
<1>7. \A i, j \in 1..Len(posted2) : i < j /\ of[posted2[i]] = of[posted2[j]] => posted2[i] < posted2[j]
  <2>1. SUFFICES ASSUME NEW i \in 1..Len(posted2), NEW j \in 1..Len(posted2), i < j, of[posted2[i]] = of[posted2[j]]
                 PROVE  posted2[i] < posted2[j]
    OBVIOUS
  <2>2. i \in 1..n /\ posted2[i] = posted[i]
    BY <1>3, <2>1
  <2>3. CASE j \in 1..n /\ posted2[j] = posted[j]
    BY <2>1, <2>2, <2>3 DEF QueuesOK, n
  <2>4. CASE posted2[j] = m
    BY <1>6, <2>1, <2>2, <2>4
  <2>5. QED
    BY <1>5, <2>3, <2>4
<1>8. ASSUME NEW x \in Sessions, NEW i \in 1..Len(queues[x]), Unposted(x, i, flags2),
             NEW j \in 1..Len(posted2), of[posted2[j]] = of[queues[x][i]]
      PROVE  posted2[j] < queues[x][i]
  <2>1. Unposted(x, i, flags)
    BY <1>4, <1>8 DEF Unposted
  <2>2. CASE j \in 1..n /\ posted2[j] = posted[j]
    BY <1>8, <2>1, <2>2 DEF QueuesOK, n
  <2>3. CASE posted2[j] = m
    <3>1. x = s
      BY <1>2, <1>8, <2>3 DEF QueuesOK
    <3>2. i > 1
      BY <1>4, <1>8, <3>1 DEF Unposted
    <3>3. QED
      BY <1>2, <1>8, <2>3, <3>1, <3>2 DEF QueuesOK
  <2>4. QED
    BY <1>5, <2>2, <2>3
<1>9. QueuesOK(of, posted2, queues, flags2)
  BY <1>3, <1>4, <1>7, <1>8 DEF QueuesOK
<1>10. QED
  BY <1>1, <1>9

\* The first message goes, and the session is not sending.
LEMMA PopsFirst ==
  ASSUME NEW s \in Sessions, NEW of, NEW posted, NEW queues, NEW flags,
         QueuesOK(of, posted, queues, flags), queues[s] # <<>>
  PROVE  QueuesOK(of, posted, [queues EXCEPT ![s] = Tail(queues[s])], [flags EXCEPT ![s] = FALSE])
<1> DEFINE n == Len(queues[s]) - 1
<1>1. PICK p, q2, flags2 : /\ p = Tail(queues[s]) /\ q2 = [queues EXCEPT ![s] = p]
                           /\ flags2 = [flags EXCEPT ![s] = FALSE]
  OBVIOUS
<1>2. queues \in [Sessions -> Seq(1..Len(of))] /\ flags \in [Sessions -> BOOLEAN]
  BY DEF QueuesOK
<1>3. /\ n \in Nat /\ Len(queues[s]) = n + 1 /\ p \in Seq(1..Len(of)) /\ Len(p) = n
      /\ \A i \in 1..n : p[i] = queues[s][i + 1] /\ i + 1 \in 1..Len(queues[s])
  <2>1. queues[s] \in Seq(1..Len(of)) /\ queues[s] # <<>>
    BY <1>2
  <2>2. \A T, q : q \in Seq(T) /\ q # <<>> =>
          /\ Len(q) - 1 \in Nat /\ Len(q) = (Len(q) - 1) + 1 /\ Tail(q) \in Seq(T) /\ Len(Tail(q)) = Len(q) - 1
          /\ \A i \in 1..(Len(q) - 1) : Tail(q)[i] = q[i + 1] /\ i + 1 \in 1..Len(q)
    OBVIOUS
  <2>3. p = Tail(queues[s])
    BY <1>1
  <2>4. QED
    BY <2>1, <2>2, <2>3
<1>4. /\ q2 \in [Sessions -> Seq(1..Len(of))] /\ q2[s] = p /\ \A x \in Sessions \ {s} : q2[x] = queues[x]
      /\ flags2 \in [Sessions -> BOOLEAN] /\ \A x \in Sessions \ {s} : flags2[x] = flags[x]
  BY <1>1, <1>2, <1>3
<1> HIDE DEF n
<1>5. \A x \in Sessions : \A i \in 1..Len(q2[x]) :
        \E j \in 1..Len(queues[x]) : /\ q2[x][i] = queues[x][j] /\ (x = s => j = i + 1) /\ (x # s => j = i)
  <2>1. SUFFICES ASSUME NEW x \in Sessions, NEW i \in 1..Len(q2[x])
                 PROVE  \E j \in 1..Len(queues[x]) : q2[x][i] = queues[x][j] /\ (x = s => j = i + 1) /\ (x # s => j = i)
    OBVIOUS
  <2>2. CASE x = s
    BY <1>3, <1>4, <2>1, <2>2
  <2>3. CASE x # s
    BY <1>4, <2>1, <2>3
  <2>4. QED
    BY <2>2, <2>3
<1>6. ASSUME NEW x \in Sessions, NEW i \in 1..Len(q2[x]), NEW j \in 1..Len(q2[x]), i < j
      PROVE  q2[x][i] < q2[x][j]
  <2>1. PICK k \in 1..Len(queues[x]) : q2[x][i] = queues[x][k] /\ (x = s => k = i + 1) /\ (x # s => k = i)
    BY <1>5
  <2>2. PICK l \in 1..Len(queues[x]) : q2[x][j] = queues[x][l] /\ (x = s => l = j + 1) /\ (x # s => l = j)
    BY <1>5
  <2>3. k < l
    BY <1>6, <2>1, <2>2
  <2>4. QED
    BY <2>1, <2>2, <2>3 DEF QueuesOK
<1>7. ASSUME NEW x \in Sessions, NEW i \in 1..Len(q2[x]), Unposted(x, i, flags2),
             NEW j \in 1..Len(posted), of[posted[j]] = of[q2[x][i]]
      PROVE  posted[j] < q2[x][i]
  <2>1. PICK k \in 1..Len(queues[x]) : q2[x][i] = queues[x][k] /\ (x = s => k = i + 1) /\ (x # s => k = i)
    BY <1>5
  <2>2. Unposted(x, k, flags)
    BY <1>4, <1>7, <2>1 DEF Unposted
  <2>3. QED
    BY <1>7, <2>1, <2>2 DEF QueuesOK
<1>8. ASSUME NEW r \in Sessions, NEW i \in 1..Len(q2[r]), NEW x \in Sessions
      PROVE  /\ of[q2[r][i]] = serves[x] => r = x
             /\ \A j \in 1..Len(q2[x]) : of[q2[r][i]] = of[q2[x][j]] => r = x
  <2>1. PICK k \in 1..Len(queues[r]) : q2[r][i] = queues[r][k]
    BY <1>5
  <2>2. ASSUME NEW j \in 1..Len(q2[x]), of[q2[r][i]] = of[q2[x][j]] PROVE r = x
    <3>1. PICK l \in 1..Len(queues[x]) : q2[x][j] = queues[x][l]
      BY <1>5
    <3>2. QED
      BY <2>1, <2>2, <3>1 DEF QueuesOK
  <2>3. QED
    BY <2>1, <2>2 DEF QueuesOK
<1>9. QueuesOK(of, posted, q2, flags2)
  BY <1>4, <1>6, <1>7, <1>8 DEF QueuesOK
<1>10. QED
  BY <1>1, <1>9

LEMMA PopsNone ==
  ASSUME NEW s \in Sessions, NEW of, NEW posted, NEW queues, NEW flags,
         QueuesOK(of, posted, queues, flags), queues[s] = <<>>
  PROVE  QueuesOK(of, posted, queues, [flags EXCEPT ![s] = FALSE])
<1>1. PICK flags2 : flags2 = [flags EXCEPT ![s] = FALSE]
  OBVIOUS
<1>2. /\ flags2 \in [Sessions -> BOOLEAN] /\ \A x \in Sessions \ {s} : flags2[x] = flags[x]
  BY <1>1 DEF QueuesOK
<1>3. ASSUME NEW x \in Sessions, NEW i \in 1..Len(queues[x]), Unposted(x, i, flags2)
      PROVE  Unposted(x, i, flags)
  BY <1>2, <1>3 DEF Unposted
<1>4. QueuesOK(of, posted, queues, flags2)
  BY <1>2, <1>3 DEF QueuesOK
<1>5. QED
  BY <1>1, <1>4

\* Nothing else that the queues are about changes.
LEMMA QueuesCarry ==
  ASSUME NoCreate, UNCHANGED <<serves, conns>>,
         NEW of, NEW posted, NEW queues, NEW flags, QueuesOK(of, posted, queues, flags),
         of = sendOf', posted = sent', queues = sendQ', flags = sending'
  PROVE  QueueInv'
<1>1. \A t \in Creating' : t \in Creating /\ Arg2(t)' = Arg2(t)
  BY DEF Creating, NoCreate, Arg2
<1>2. QueuesOK(of, posted, queues, flags)'
  <2>1. \A i \in 1..Len(of) : \A t \in Creating' : of[i] # Arg2(t)'
    BY <1>1 DEF QueuesOK
  <2>2. QED
    BY <2>1 DEF QueuesOK, Unposted
<1>3. QED
  BY <1>2 DEF QueueInv

LEMMA SendToNextQueues ==
  ASSUME ManagerInv, SendInv, NEW t \in Callers, SendToNext(t)
  PROVE  QueueInv'
<1>1. UseInv /\ NewInv /\ FineInv /\ QueueInv /\ conns \in Nat /\ conns <= MaxConns
  BY SendPartsOf
<1>2. Onward /\ NoCreate
  BY <1>1, SendToNextFine DEF Control
<1>3. PICK s \in Sessions : SendOn(s) /\ sid[s] # None
  BY SendToNextIs
<1>4. OwnersStay /\ UNCHANGED <<serves, conns>>
  BY <1>2, <1>3 DEF OwnersStay, Onward, SendOn
<1>5. PICK of, m, q, queues : /\ of = Append(sendOf, serves[s]) /\ m = Len(sendOf) + 1
                              /\ q = Append(sendQ[s], m) /\ queues = [sendQ EXCEPT ![s] = q]
  OBVIOUS
<1>6. /\ sendOf' = of
      /\ \/ sending[s] /\ sendQ' = queues /\ UNCHANGED <<sending, sent>>
         \/ ~sending[s] /\ (Posts(s, q) \/ Drops(s, q))
  BY <1>3, <1>4, <1>5, SendOnIs
<1>7. QueuesOK(of, sent, queues, sending)
  <2>1. QueuesOK(Append(sendOf, serves[s]), sent, [sendQ EXCEPT ![s] = Append(sendQ[s], Len(sendOf) + 1)], sending)
    BY <1>1, <1>3, Pushes DEF QueueInv
  <2>2. QED
    BY <1>5, <2>1
<1>8. sendQ \in [Sessions -> Seq(1..Len(sendOf))] /\ queues[s] = q /\ q # <<>>
  <2>1. sendQ \in [Sessions -> Seq(1..Len(sendOf))]
    BY <1>1 DEF QueueInv, QueuesOK
  <2>2. queues[s] = q
    BY <1>5, <2>1
  <2>3. sendQ[s] \in Seq(1..Len(sendOf))
    BY <2>1
  <2>4. q # <<>>
    <3>1. Len(sendOf) \in Nat /\ 1..Len(sendOf) \subseteq Nat /\ m \in Nat
      BY <1>1, <1>5 DEF QueueInv, QueuesOK
    <3>2. sendQ[s] \in Seq(Nat)
      BY <2>3, <3>1, SeqLarger
    <3>3. QED
      BY <1>5, <3>1, <3>2
  <2>5. QED
    BY <1>5, <2>1, <2>2, <2>3, <2>4
<1>9. CASE sending[s] /\ sendQ' = queues /\ UNCHANGED <<sending, sent>>
  BY <1>2, <1>4, <1>6, <1>7, <1>9, QueuesCarry
<1>10. CASE ~sending[s] /\ Posts(s, q)
  <2>1. QueuesOK(of, Append(sent, Head(q)), queues, [sending EXCEPT ![s] = TRUE])
    BY <1>7, <1>8, <1>10, PostsFirst
  <2>2. sent' = Append(sent, Head(q)) /\ sendQ' = queues /\ sending' = [sending EXCEPT ![s] = TRUE]
    BY <1>5, <1>10 DEF Posts
  <2>3. QED
    BY <1>2, <1>4, <1>6, <2>1, <2>2, QueuesCarry
<1>11. CASE ~sending[s] /\ Drops(s, q)
  <2>1. QueuesOK(of, sent, [queues EXCEPT ![s] = Tail(q)], [sending EXCEPT ![s] = FALSE])
    BY <1>7, <1>8, PopsFirst
  <2>2. sent' = sent /\ sendQ' = [sendQ EXCEPT ![s] = Tail(q)] /\ sending' = [sending EXCEPT ![s] = FALSE]
    BY <1>11 DEF Drops
  <2>3. [queues EXCEPT ![s] = Tail(q)] = [sendQ EXCEPT ![s] = Tail(q)]
    BY <1>5, <1>8
  <2>4. QED
    BY <1>2, <1>4, <1>6, <2>1, <2>2, <2>3, QueuesCarry
<1>12. QED
  BY <1>6, <1>9, <1>10, <1>11

LEMMA SendDoneQueues ==
  ASSUME ManagerInv, SendInv, NEW t \in Threads, SendDone(t), UNCHANGED managerVars
  PROVE  QueueInv'
<1>1. UseInv /\ NewInv /\ FineInv /\ QueueInv /\ TodoType /\ StepsInv /\ conns \in Nat
  BY SendPartsOf
<1>2. Onward /\ NoCreate
  BY <1>1, SendDoneFine
<1>3. PICK s \in Sessions : s = Arg(t) /\ sid[s] # None
  BY <1>1, ArgInUse DEF SendDone, AboutSession
<1>4. OwnersStay /\ UNCHANGED <<serves, conns>>
  BY <1>2 DEF OwnersStay, Onward, SendDone
<1>5. PICK q, queues, flags : /\ q = IF sendQ[s] = <<>> THEN <<>> ELSE Tail(sendQ[s])
                              /\ queues = [sendQ EXCEPT ![s] = q] /\ flags = [sending EXCEPT ![s] = FALSE]
  OBVIOUS
<1>6. /\ sendOf' = sendOf
      /\ \/ q = <<>> /\ sendQ' = [sendQ EXCEPT ![s] = <<>>] /\ sending' = flags /\ UNCHANGED sent
         \/ q # <<>> /\ (Posts(s, q) \/ Drops(s, q))
  BY <1>3, <1>4, <1>5, SendDoneIs
<1>7. sendQ \in [Sessions -> Seq(1..Len(sendOf))] /\ queues[s] = q /\ sending \in [Sessions -> BOOLEAN] /\ ~flags[s]
  BY <1>1, <1>5 DEF QueueInv, QueuesOK
<1>8. QueuesOK(sendOf, sent, queues, flags)
  <2>1. CASE sendQ[s] = <<>>
    <3>1. queues = sendQ
      BY <1>5, <1>7, <2>1
    <3>2. QED
      BY <1>1, <1>5, <2>1, <3>1, PopsNone DEF QueueInv
  <2>2. CASE sendQ[s] # <<>>
    <3>1. q = Tail(sendQ[s])
      BY <1>5, <2>2
    <3>2. QED
      BY <1>1, <1>5, <2>2, <3>1, PopsFirst DEF QueueInv
  <2>3. QED
    BY <2>1, <2>2
<1>9. CASE q = <<>> /\ sendQ' = [sendQ EXCEPT ![s] = <<>>] /\ sending' = flags /\ UNCHANGED sent
  BY <1>2, <1>4, <1>5, <1>6, <1>8, <1>9, QueuesCarry
<1>10. CASE q # <<>> /\ Posts(s, q)
  <2>1. QueuesOK(sendOf, Append(sent, Head(q)), queues, [flags EXCEPT ![s] = TRUE])
    BY <1>7, <1>8, <1>10, PostsFirst
  <2>2. sent' = Append(sent, Head(q)) /\ sendQ' = queues /\ sending' = [sending EXCEPT ![s] = TRUE]
    BY <1>5, <1>10 DEF Posts
  <2>3. [flags EXCEPT ![s] = TRUE] = [sending EXCEPT ![s] = TRUE]
    BY <1>5, <1>7
  <2>4. QED
    BY <1>2, <1>4, <1>6, <2>1, <2>2, <2>3, QueuesCarry
<1>11. CASE q # <<>> /\ Drops(s, q)
  <2>1. QueuesOK(sendOf, sent, [queues EXCEPT ![s] = Tail(q)], [flags EXCEPT ![s] = FALSE])
    BY <1>7, <1>8, <1>11, PopsFirst
  <2>2. sent' = sent /\ sendQ' = [sendQ EXCEPT ![s] = Tail(q)] /\ sending' = [sending EXCEPT ![s] = FALSE]
    BY <1>11 DEF Drops
  <2>3. [queues EXCEPT ![s] = Tail(q)] = [sendQ EXCEPT ![s] = Tail(q)]
        /\ [flags EXCEPT ![s] = FALSE] = [sending EXCEPT ![s] = FALSE]
    BY <1>5, <1>7
  <2>4. QED
    BY <1>2, <1>4, <1>6, <2>1, <2>2, <2>3, QueuesCarry
<1>12. QED
  BY <1>6, <1>9, <1>10, <1>11

LEMMA QueueKeeps ==
  ASSUME ManagerInv, SendInv, Next
  PROVE  QueueInv'
<1>1. Types /\ TodoType /\ UseInv /\ NewInv /\ QueueInv /\ conns \in Nat
  BY SendPartsOf
<1>2. CASE \E t \in Callers : Accepted(t)
  <2>1. PICK t \in Callers : Accepted(t)
    BY <1>2
  <2>2. t \in Threads /\ UNCHANGED <<serves, sendOf, sent, sendQ, sending>> /\ conns' = conns + 1
    BY <2>1, CallerOf DEF Accepted, sessionVars, messageVars
  <2>3. PICK k : todo' = [todo EXCEPT ![t] = << <<"create", k, conns + 1>> >>]
    BY <2>1 DEF Accepted
  <2>4. /\ todo'[t] = << <<"create", k, conns + 1>> >>
        /\ \A u \in Threads \ {t} : todo'[u] = todo[u]
    BY <1>1, <2>2, <2>3 DEF TodoType
  <2>5. \A u \in Creating' : Arg2(u)' = conns + 1 \/ (u \in Creating /\ Arg2(u)' = Arg2(u))
    BY <2>4 DEF Creating, At, Arg2
  <2>6. \A i \in 1..Len(sendOf) : sendOf[i] \in Nat /\ sendOf[i] <= conns
    <3>1. sendOf \in Seq(Conns) /\ \A i \in 1..Len(sendOf) : sendOf[i] <= conns
      BY <1>1 DEF QueueInv, QueuesOK
    <3>2. \A i \in 1..Len(sendOf) : sendOf[i] \in Conns
      BY <3>1
    <3>3. Conns \subseteq Nat
      BY DEF Conns
    <3>4. QED
      BY <3>1, <3>2, <3>3
  <2>7. \A i \in 1..Len(sendOf) : sendOf[i] <= conns' /\ \A u \in Creating' : sendOf[i] # Arg2(u)'
    BY <1>1, <2>2, <2>5, <2>6 DEF QueueInv, QueuesOK
  <2>8. QED
    BY <1>1, <2>2, <2>7 DEF QueueInv, QueuesOK, Unposted
<1>3. CASE NoCreate
  <2>1. CASE UNCHANGED <<serves, conns, sendOf, sent, sendQ, sending>>
    BY <1>1, <1>3, <2>1, QueuesCarry DEF QueueInv
  <2>2. CASE \E t \in Callers : CreateAllocate(t) /\ HasFree
    <3>1. PICK t \in Callers : CreateAllocate(t) /\ HasFree
      BY <2>2
    <3>2. PICK h : h = Head(freeList)
      OBVIOUS
    <3>3. /\ serves' = [serves EXCEPT ![h] = Arg2(t)] /\ conns' = conns /\ At(t, "create") /\ t \in Threads
          /\ UNCHANGED <<sendOf, sent, sendQ, sending>>
      BY <3>1, <3>2, CallerOf DEF CreateAllocate, kernelVars, messageVars
    <3>4. \A x \in Sessions : serves'[x] \in {serves[x], Arg2(t)}
      BY <1>1, <3>3 DEF UseInv
    <3>5. \A i \in 1..Len(sendOf) : sendOf[i] # Arg2(t)
      BY <1>1, <3>3 DEF QueueInv, QueuesOK, Creating
    <3>6. \A u \in Creating' : u \in Creating /\ Arg2(u)' = Arg2(u)
      BY <1>3 DEF Creating, NoCreate, Arg2
    <3>7. \A r \in Sessions : \A i \in 1..Len(sendQ[r]) : sendQ[r][i] \in 1..Len(sendOf)
      BY <1>1 DEF QueueInv, QueuesOK
    <3>8. \A r, x \in Sessions : \A i \in 1..Len(sendQ[r]) : sendOf[sendQ[r][i]] = serves'[x] => r = x
      <4>1. \A r, x \in Sessions : \A i \in 1..Len(sendQ[r]) : sendOf[sendQ[r][i]] = serves[x] => r = x
        BY <1>1 DEF QueueInv, QueuesOK
      <4>2. \A r \in Sessions : \A i \in 1..Len(sendQ[r]) : sendOf[sendQ[r][i]] # Arg2(t)
        BY <3>5, <3>7
      <4>3. QED
        BY <3>4, <4>1, <4>2
    <3>9. QED
      BY <1>1, <3>3, <3>6, <3>8 DEF QueueInv, QueuesOK, Unposted
  <2>3. ASSUME NEW t, \/ Beginning(t) \/ CreateRegister(t) \/ Associate(t)
                      \/ DestroyErase(t) \/ DestroyRelease(t) \/ (CreateAllocate(t) /\ ~HasFree)
        PROVE  UNCHANGED <<serves, conns, sendOf, sent, sendQ, sending>>
    BY <2>3 DEF Beginning, FindAndSend, Broadcast, FindAndClose, CallDestroy, Calls, CreateRegister,
       Associate, DestroyErase, DestroyRelease, CreateAllocate, sessionVars, kernelVars, messageVars
  <2>4. ASSUME NEW t, \/ CloseSocket(t) \/ CloseSocketHandle(t) \/ DropSocket(t) \/ ClearSock(t)
                      \/ Close(t) \/ Receiving(t) \/ TakePacket(t) \/ Complete(t)
        PROVE  UNCHANGED <<serves, conns, sendOf, sent, sendQ, sending>>
    BY <2>4 DEF CloseSocket, CloseSocketHandle, DropSocket, CloseHandle, ClearSock, Close, Receiving,
       PostRecvAcquire, FillRx, MoveRx, PostRecvCall, ResetRx, ClearRx, ReleaseRx, TakePacket, Complete,
       sessionVars, kernelVars, messageVars
  <2>5. QED
    BY <1>2, <2>1, <2>2, <2>3, <2>4, NextIs, SendToNextQueues, SendDoneQueues
<1>4. QED
  BY <1>2, <1>3, NextNoCreate

-----------------------------------------------------------------------------
(* The invariant holds.                                                    *)

LEMMA SendStart == Init => SendInv
<1> SUFFICES ASSUME Init PROVE SendInv
  OBVIOUS
<1>1. /\ sock = [s \in Sessions |-> None] /\ closing = [s \in Sessions |-> FALSE]
      /\ sendQ = [s \in Sessions |-> <<>>] /\ sending = [s \in Sessions |-> FALSE]
      /\ serves = [s \in Sessions |-> None] /\ conn = [k \in Sockets |-> None] /\ conns = 0
      /\ ios = [o \in Ovs |-> NoIo] /\ port = <<>> /\ todo = [t \in Threads |-> <<>>]
      /\ sendOf = <<>> /\ sent = <<>>
      /\ freeList = [i \in 1..MaxSessions |-> i] /\ sid = [s \in Sessions |-> None] /\ idGen = 1
      /\ MaxSessions \in Nat
  BY NetSessionAssumption DEF Init, NetSessionInit
<1>2. \A t \in Threads : todo[t] = <<>> /\ \A x : ~In(todo[t], x)
  BY <1>1, InNone
<1>3. Creating = {}
  BY <1>2 DEF Creating, At
<1>4. FreshInv
  <2>1. Len(freeList) = MaxSessions
    BY <1>1
  <2>2. \A s \in Sessions : sid[s] = None /\ idGen <= s
    BY <1>1 DEF Sessions
  <2>3. \A i \in 1..(MaxSessions + 1 - idGen) : i <= Len(freeList) /\ freeList[i] = idGen + i - 1
    BY <1>1, <2>1
  <2>4. QED
    BY <2>2, <2>3 DEF FreshInv
<1>5. UseInv /\ NewInv /\ FreedInv
  BY <1>1, <1>3 DEF UseInv, NewInv, FreedInv, None, Init
<1>6. FineInv
  BY <1>2 DEF FineInv
<1>7. IosInv
  BY <1>1, InNone DEF IosInv
<1>8. \A s \in Sessions : ~HasOp(s) /\ ~HasDone(s) /\ ~sending[s] /\ \A o \in Ovs : ~IsSend(o, s)
  BY <1>1, <1>2, CallIs DEF HasOp, HasDone, IsSend
<1>9. TokenInv /\ CallInv /\ AliveInv
  BY <1>2, <1>8 DEF TokenInv, CallInv, AliveInv
<1>10. ClosedInv
  BY <1>1 DEF ClosedInv
<1>11. QueueInv
  <2>1. Len(sendOf) = 0 /\ Len(sent) = 0 /\ sendOf \in Seq(Conns) /\ sent \in Seq(1..Len(sendOf))
    BY <1>1
  <2>2. \A s \in Sessions : sendQ[s] = <<>> /\ Len(sendQ[s]) = 0
    BY <1>1
  <2>3. sendQ \in [Sessions -> Seq(1..Len(sendOf))] /\ sending \in [Sessions -> BOOLEAN]
    BY <1>1
  <2>4. QED
    BY <2>1, <2>2, <2>3 DEF QueueInv, QueuesOK
<1>12. QED
  BY <1>4, <1>5, <1>6, <1>7, <1>9, <1>10, <1>11 DEF SendInv

LEMMA SendStep == ManagerInv /\ SendInv /\ [Next]_vars => SendInv'
<1>1. ASSUME ManagerInv, SendInv, Next PROVE SendInv'
  BY <1>1, FreshKeeps, UseKeeps, NewKeeps, NextFine, IosKeeps, TokensKeep, ClosedKeeps, FreedKeeps, QueueKeeps
     DEF SendInv, TokensInv
<1>2. ASSUME SendInv, UNCHANGED vars PROVE SendInv'
  <2>1. UNCHANGED <<sock, closing, sendQ, sending, serves, conn, conns, ios, port, unheard, todo, sendOf, sent,
                    freeList, freeSet, sid, idGen>>
    BY <1>2 DEF vars, sessionVars, kernelVars, messageVars, managerVars
  <2>2. FreshInv' /\ UseInv' /\ NewInv'
    BY <1>2, <2>1 DEF SendInv, FreshInv, UseInv, NewInv, Creating, At, Arg2
  <2>3. FineInv'
    BY <1>2, <2>1 DEF SendInv, FineInv, StepAbout, StepAfter, FirstUse, Linked
  <2>4. IosInv' /\ TokenInv'
    BY <1>2, <2>1 DEF SendInv, IosInv, TokenInv, HasOp, HasDone, IsSend
  <2>5. CallInv' /\ AliveInv'
    BY <1>2, <2>1 DEF SendInv, CallInv, AliveInv, HasOp, HasDone, IsSend, WillClose, FirstUse, Linked
  <2>6. ClosedInv' /\ FreedInv'
    BY <1>2, <2>1 DEF SendInv, ClosedInv, FreedInv, Closes, FirstUse
  <2>7. QueueInv'
    BY <1>2, <2>1 DEF SendInv, QueueInv, QueuesOK, Unposted, Creating, At, Arg2
  <2>8. QED
    BY <2>2, <2>3, <2>4, <2>5, <2>6, <2>7 DEF SendInv
<1>3. QED
  BY <1>1, <1>2

LEMMA SendInvHolds == Spec => []SendInv
BY SendStart, SendStep, ManagerInvHolds, PTL DEF Spec

\* The messages of one connection are posted in the order of Send, each once.
THEOREM SendsInOrder == Spec => []Fifo
<1>1. SendInv => Fifo
  <2>1. SUFFICES ASSUME SendInv PROVE Fifo
    OBVIOUS
  <2>2. /\ sent \in Seq(1..Len(sendOf))
        /\ \A i, j \in 1..Len(sent) : i < j /\ sendOf[sent[i]] = sendOf[sent[j]] => sent[i] < sent[j]
    BY <2>1 DEF SendInv, QueueInv, QueuesOK
  <2>3. DOMAIN sent = 1..Len(sent)
    BY <2>2
  <2>4. QED
    BY <2>2, <2>3 DEF Fifo
<1>2. QED
  BY <1>1, SendInvHolds, PTL

\* A session, its later uses included, has one WSASend outstanding at a time.
THEOREM OneSendAtATime == Spec => []OneSend
<1>1. SendInv => OneSend
  <2>1. SUFFICES ASSUME SendInv, NEW s \in Sessions,
                        NEW X, X = {o \in SendsOf(s) : ios[o].state = "pending"}
                 PROVE  Cardinality(X) <= 1
    BY DEF OneSend
  <2>2. \A o \in X : o \in Ovs /\ IsSend(o, s)
    BY <2>1 DEF SendsOf, IsSend
  <2>3. \A o, p \in X : o = p
    BY <2>1, <2>2 DEF SendInv, TokenInv
  <2>4. CASE X = {}
    BY <2>4, FS_EmptySet
  <2>5. CASE X # {}
    <3>1. PICK o : X = {o}
      BY <2>3, <2>5
    <3>2. Cardinality(X) = 1
      BY <3>1, FS_Singleton
    <3>3. QED
      BY <3>2
  <2>6. QED
    BY <2>4, <2>5
<1>2. QED
  BY <1>1, SendInvHolds, PTL

\* On a session's first use, sending_ is not set for ever on an open socket, but for
\* a send that ended before the socket was associated with the port.
THEOREM SendingEnds == Spec => []SendAlive
<1>1. SendInv /\ TodoType => SendAlive
  <2>1. SUFFICES ASSUME SendInv, TodoType, NEW s \in Sessions, Stalled(s), FirstUse(s)
                 PROVE  serves[s] \in unheard
    BY DEF SendAlive
  <2>2. Linked(s) /\ sending[s] /\ ~Comes(s)
    BY <2>1 DEF Stalled, Linked, ConnOf
  <2>3. HasOp(s) \/ HasDone(s) \/ WillClose(s) \/ serves[s] \in unheard
    BY <2>1, <2>2 DEF SendInv, AliveInv
  <2>4. \A t \in Threads : \A x : In(todo[t], x) => x \in Range(todo[t])
    BY SeqLen DEF In, Range, TodoType
  <2>5. ASSUME HasOp(s) PROVE FALSE
    <3>1. PICK o \in Ovs : IsSend(o, s)
      BY <2>5 DEF HasOp
    <3>2. ios[o] # NoIo /\ port \in Seq(Ovs)
      BY <2>1, <3>1, CallIs DEF IsSend, SendInv, IosInv
    <3>3. ios[o].state = "pending" \/ In(port, o)
      BY <2>1, <3>2 DEF SendInv, IosInv
    <3>4. In(port, o) => o \in Range(port)
      BY <3>2 DEF In, Range
    <3>5. QED
      BY <2>2, <3>1, <3>3, <3>4 DEF Comes, SendsOf, IsSend
  <2>6. ASSUME HasDone(s) PROVE FALSE
    <3>1. PICK t \in Threads : In(todo[t], <<"sendDone", s>>)
      BY <2>6 DEF HasDone
    <3>2. t \in Workers
      <4>1. PICK i \in 1..Len(todo[t]) : todo[t][i] = <<"sendDone", s>>
        BY <3>1 DEF In
      <4>2. todo[t][i][1] = "sendDone"
        BY <4>1
      <4>3. QED
        BY <2>1, <4>1, <4>2 DEF SendInv, FineInv, StepAfter
    <3>3. QED
      BY <2>2, <2>4, <3>1, <3>2 DEF Comes
  <2>7. ASSUME WillClose(s) PROVE FALSE
    <3>1. PICK w \in Workers : In(todo[w], <<"close", s>>)
      BY <2>7 DEF WillClose
    <3>2. QED
      BY <2>2, <2>4, <3>1 DEF Comes, Threads
  <2>8. QED
    BY <2>3, <2>5, <2>6, <2>7
<1>2. ManagerInv => TodoType
  BY DEF ManagerInv
<1>3. QED
  BY <1>1, <1>2, SendInvHolds, ManagerInvHolds, PTL

\* When no call is under way, a session in the pool that was used once has no open
\* socket.
THEOREM ReleasedIsClosed == Spec => []FreeIsClosed
<1>1. SendInv /\ ManagerInv => FreeIsClosed
  <2>1. SUFFICES ASSUME SendInv, ManagerInv, \A t \in Threads : Idle(t), NEW s \in freeSet, FirstUse(s)
                 PROVE  ConnOf(sock[s]) = None
    BY DEF FreeIsClosed
  <2>2. s \in Sessions
    BY <2>1 DEF ManagerInv, Types
  <2>3. ~Closes(s)
    BY <2>1, InNone DEF Closes, Idle
  <2>4. CASE sid[s] = None
    BY <2>1, <2>2, <2>4 DEF SendInv, UseInv, ConnOf
  <2>5. CASE sid[s] # None
    <3>1. closing[s]
      BY <2>1, <2>5 DEF SendInv, FreedInv
    <3>2. QED
      BY <2>1, <2>2, <2>3, <3>1 DEF SendInv, ClosedInv, ConnOf
  <2>6. QED
    BY <2>4, <2>5
<1>2. QED
  BY <1>1, SendInvHolds, ManagerInvHolds, PTL
=============================================================================
