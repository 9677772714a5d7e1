--------------------------- MODULE ArmChunks_proofs ---------------------------
(***************************************************************************)
(* For any number of copies, chunks and kills: if the lock directories are *)
(* cleared only once nothing of the arm runs, a chunk never gets more runs *)
(* than were asked for.  One copy's pool driver at most is at a chunk, so  *)
(* what it found missing still is when it stores it, and what the copies   *)
(* do to a chunk between them is what StudyPromise allows one driver.      *)
(***************************************************************************)
EXTENDS ArmChunks, TLAPS

Places == {"new", "chunk", "holding", "over", "killed"}

ArmType ==
  /\ at \in [Copies -> Places]
  /\ step \in [Copies -> Nat]
  /\ pool \in [Copies -> [on: BOOLEAN, level: Nat, owed: BOOLEAN]]
  /\ stored \in [Indexes -> Nat]

\* A copy holds its chunk by the directory, and while its pool driver runs after its death.
Holds(c) == at[c] = "holding" \/ pool[c].on

Held ==
  /\ \A c \in Copies : Holds(c) => Index(c) \in lock /\ at[c] \in {"holding", "killed"}
  /\ \A c, e \in Copies : Holds(c) /\ Holds(e) /\ Index(c) = Index(e) => c = e

\* What a pass owes is missing still.
Owing ==
  /\ \A c \in Copies : pool[c].level <= Repeats
  /\ \A c \in Copies : pool[c].owed => pool[c].on /\ stored[Index(c)] < pool[c].level
  /\ \A k \in Indexes : stored[k] <= Repeats

ArmInv == ArmType /\ Held /\ Owing

USE ArmAssumption

---------------------------------------------------------------------------
\* A copy's chunk is one of the arm's.
LEMMA IndexIn == ASSUME ArmType, NEW c \in Copies PROVE Index(c) \in Indexes
<1>1. First[c] + step[c] \in Nat /\ Chunks \in Nat \ {0}
  BY DEF ArmType
<1> QED BY <1>1 DEF Index, Indexes

LEMMA InitArm == ASSUME Init PROVE ArmInv
<1>1. ArmType
  BY DEF Init, ArmType, Places, Off
<1>2. Held /\ Owing
  BY DEF Init, Held, Holds, Owing, Off
<1> QED BY <1>1, <1>2 DEF ArmInv

\* Only what a step does to one copy is to be looked at: the others' chunks are theirs.
LEMMA ClaimKeeps == ASSUME ArmInv, NEW c \in Copies, Claim(c) PROVE ArmInv'
<1>1. /\ at' = [at EXCEPT ![c] = "holding"] /\ step' = step /\ stored' = stored
      /\ pool' = [pool EXCEPT ![c] = [on |-> TRUE, level |-> 0, owed |-> FALSE]]
      /\ lock' = lock \cup {Index(c)} /\ Index(c) \notin lock
  BY DEF Claim, Goes, Begins, Free, Fresh
<1>2. ArmType'
  BY <1>1 DEF ArmInv, ArmType, Places
<1>3. \A e \in Copies : Index(e)' = Index(e)
  BY <1>1 DEF Index
<1>4. \A e \in Copies \ {c} : Holds(e)' = Holds(e) /\ at'[e] = at[e] /\ pool'[e] = pool[e]
  BY <1>1 DEF Holds, ArmInv, ArmType
<1>5. at'[c] = "holding" /\ pool'[c].level = 0 /\ pool'[c].owed = FALSE
  BY <1>1 DEF ArmInv, ArmType
<1>6. Held'
  <2>1. ASSUME NEW e \in Copies, Holds(e)' PROVE Index(e)' \in lock' /\ at'[e] \in {"holding", "killed"}
    BY <1>1, <1>3, <1>4, <1>5, <2>1 DEF ArmInv, Held
  <2>2. ASSUME NEW e \in Copies, NEW f \in Copies, Holds(e)', Holds(f)', Index(e)' = Index(f)'
        PROVE  e = f
    BY <1>1, <1>3, <1>4, <2>2 DEF ArmInv, Held
  <2> QED BY <2>1, <2>2 DEF Held
<1>7. Owing'
  <2>1. ASSUME NEW e \in Copies
        PROVE  pool'[e].level <= Repeats /\ (pool'[e].owed => pool'[e].on /\ stored'[Index(e)'] < pool'[e].level)
    BY <1>1, <1>3, <1>4, <1>5 DEF ArmInv, Owing
  <2> QED BY <1>1, <2>1 DEF ArmInv, Owing
<1> QED BY <1>2, <1>6, <1>7 DEF ArmInv

\* A copy that holds nothing goes on, or it is killed, or what it held is looked after by no one.
LEMMA MovesKeeps ==
  ASSUME ArmInv, NEW c \in Copies,
         \A e \in Copies \ {c} : at'[e] = at[e] /\ step'[e] = step[e],
         at' \in [Copies -> Places], step' \in [Copies -> Nat],
         at'[c] = "holding" => at[c] = "holding",
         Holds(c) => step'[c] = step[c] /\ at'[c] \in {"holding", "killed"},
         UNCHANGED <<pool, lock, stored>>
  PROVE  ArmInv'
<1>1. ArmType'
  BY DEF ArmInv, ArmType
<1>2. \A e \in Copies : Holds(e)' => Holds(e)
  BY DEF Holds
<1>3. \A e \in Copies : Holds(e) => Index(e)' = Index(e) /\ at'[e] \in {"holding", "killed"}
  BY DEF Index, ArmInv, Held
<1>4. Held'
  <2>1. ASSUME NEW e \in Copies, Holds(e)' PROVE Index(e)' \in lock' /\ at'[e] \in {"holding", "killed"}
    BY <1>2, <1>3, <2>1 DEF ArmInv, Held
  <2>2. ASSUME NEW e \in Copies, NEW f \in Copies, Holds(e)', Holds(f)', Index(e)' = Index(f)'
        PROVE  e = f
    BY <1>2, <1>3, <2>2 DEF ArmInv, Held
  <2> QED BY <2>1, <2>2 DEF Held
<1>5. Owing'
  <2>1. ASSUME NEW e \in Copies, pool'[e].owed PROVE pool'[e].on /\ stored'[Index(e)'] < pool'[e].level
    BY <1>3, <2>1 DEF ArmInv, Owing, Holds
  <2> QED BY <2>1 DEF ArmInv, Owing
<1> QED BY <1>1, <1>4, <1>5 DEF ArmInv

\* A pool driver goes on, at a chunk that is its alone.
LEMMA PoolKeeps ==
  ASSUME ArmInv, NEW c \in Copies, pool[c].on, NEW q \in [on: BOOLEAN, level: Nat, owed: BOOLEAN],
         pool' = [pool EXCEPT ![c] = q], q.on, q.level <= Repeats,
         stored' \in [Indexes -> Nat], \A k \in Indexes \ {Index(c)} : stored'[k] = stored[k],
         stored'[Index(c)] <= Repeats, q.owed => stored'[Index(c)] < q.level,
         UNCHANGED <<at, step, lock>>
  PROVE  ArmInv'
<1>1. ArmType'
  BY DEF ArmInv, ArmType
<1>2. \A e \in Copies : Index(e)' = Index(e) /\ Index(e) \in Indexes
  BY IndexIn DEF Index, ArmInv
<1>3. pool'[c] = q /\ \A e \in Copies \ {c} : pool'[e] = pool[e]
  BY DEF ArmInv, ArmType
<1>4. \A e \in Copies : Holds(e)' <=> Holds(e)
  <2>1. ASSUME NEW e \in Copies \ {c} PROVE Holds(e)' <=> Holds(e)
    BY <1>3 DEF Holds
  <2>2. Holds(c)' /\ Holds(c)
    BY <1>3 DEF Holds
  <2> QED BY <2>1, <2>2
<1>5. Held'
  BY <1>2, <1>4 DEF ArmInv, Held
<1>6. Owing'
  <2>1. ASSUME NEW e \in Copies
        PROVE  pool'[e].level <= Repeats /\ (pool'[e].owed => pool'[e].on /\ stored'[Index(e)'] < pool'[e].level)
    <3>1. CASE e = c
      BY <1>2, <1>3, <3>1
    <3>2. CASE e # c /\ pool[e].on
      <4>1. Index(e) # Index(c)
        BY <3>2 DEF ArmInv, Held, Holds
      <4> QED BY <1>2, <1>3, <3>2, <4>1 DEF ArmInv, Owing
    <3>3. CASE e # c /\ ~pool[e].on
      BY <1>3, <3>3 DEF ArmInv, Owing
    <3> QED BY <3>1, <3>2, <3>3
  <2>2. ASSUME NEW k \in Indexes PROVE stored'[k] <= Repeats
    BY DEF ArmInv, Owing
  <2> QED BY <2>1, <2>2 DEF Owing
<1> QED BY <1>1, <1>5, <1>6 DEF ArmInv

\* A pool driver is gone, and the copy with it if it saw to the end.
LEMMA GoneKeeps ==
  ASSUME ArmInv, NEW c \in Copies, pool[c].on,
         pool' = [pool EXCEPT ![c] = Off], UNCHANGED stored,
         (at[c] # "holding" /\ UNCHANGED <<copy, lock>>) \/ (at[c] = "holding" /\ LeavesChunk(c))
  PROVE  ArmInv'
<1>1. /\ pool'[c] = Off /\ \A e \in Copies \ {c} : pool'[e] = pool[e]
      /\ pool' \in [Copies -> [on: BOOLEAN, level: Nat, owed: BOOLEAN]]
  BY DEF ArmInv, ArmType, Off
<1>2. at' \in [Copies -> Places] /\ step' \in [Copies -> Nat]
  BY DEF ArmInv, ArmType, copy, LeavesChunk, Goes, Places
<1>3. \A e \in Copies \ {c} : at'[e] = at[e] /\ step'[e] = step[e]
  BY DEF ArmInv, ArmType, copy, LeavesChunk, Goes
<1>4. at'[c] # "holding" /\ lock \ {Index(c)} \subseteq lock'
  BY DEF ArmInv, ArmType, copy, LeavesChunk, Goes
<1>5. ~Holds(c)' /\ \A e \in Copies \ {c} : Holds(e)' = Holds(e) /\ Index(e)' = Index(e)
  BY <1>1, <1>3, <1>4 DEF Holds, Index, Off
<1>6. Held'
  <2>1. ASSUME NEW e \in Copies, Holds(e)' PROVE Index(e)' \in lock' /\ at'[e] \in {"holding", "killed"}
    <3>1. e # c /\ Holds(e) /\ Index(e)' = Index(e) /\ at'[e] = at[e]
      BY <1>3, <1>5, <2>1
    <3>2. Index(e) # Index(c) /\ Index(e) \in lock /\ at[e] \in {"holding", "killed"}
      BY <3>1 DEF ArmInv, Held, Holds
    <3> QED BY <1>4, <3>1, <3>2
  <2>2. ASSUME NEW e \in Copies, NEW f \in Copies, Holds(e)', Holds(f)', Index(e)' = Index(f)'
        PROVE  e = f
    BY <1>5, <2>2 DEF ArmInv, Held
  <2> QED BY <2>1, <2>2 DEF Held
<1>7. Owing'
  <2>1. ASSUME NEW e \in Copies
        PROVE  pool'[e].level <= Repeats /\ (pool'[e].owed => pool'[e].on /\ stored'[Index(e)'] < pool'[e].level)
    <3>1. CASE e = c
      BY <1>1, <3>1 DEF Off
    <3>2. CASE e # c
      BY <1>1, <1>5, <3>2 DEF ArmInv, Owing
    <3> QED BY <3>1, <3>2
  <2> QED BY <2>1 DEF ArmInv, Owing
<1> QED BY <1>1, <1>2, <1>6, <1>7 DEF ArmInv, ArmType

---------------------------------------------------------------------------
LEMMA StepArm == ASSUME CarefulClear, ArmInv, [Next]_vars PROVE ArmInv'
<1>1. ASSUME NEW c \in Copies, Start(c) PROVE ArmInv'
  <2>1. ~Holds(c)
    BY <1>1 DEF Start, ArmInv, Held
  <2> QED BY <1>1, <2>1, MovesKeeps DEF Start, Goes, ArmInv, ArmType, Places
<1>2. ASSUME NEW c \in Copies, Claim(c) PROVE ArmInv'
  BY <1>2, ClaimKeeps
<1>3. ASSUME NEW c \in Copies, Pass(c) PROVE ArmInv'
  <2>1. ~Holds(c)
    BY <1>3 DEF Pass, ArmInv, Held
  <2> QED BY <1>3, <2>1, MovesKeeps DEF Pass, ArmInv, ArmType
<1>4. ASSUME NEW c \in Copies, Over(c) PROVE ArmInv'
  <2>1. ~Holds(c)
    BY <1>4 DEF Over, ArmInv, Held
  <2> QED BY <1>4, <2>1, MovesKeeps DEF Over, Goes, ArmInv, ArmType, Places
<1>5. ASSUME NEW c \in Copies, Kill(c) PROVE ArmInv'
  BY <1>5, MovesKeeps DEF Kill, Goes, ArmInv, ArmType, Places
<1>6. ASSUME NEW c \in Copies, BeginPass(c) PROVE ArmInv'
  <2>1. pool[c] \in [on: BOOLEAN, level: Nat, owed: BOOLEAN] /\ pool[c].on /\ pool[c].level < Repeats
    BY <1>6 DEF BeginPass, ArmInv, ArmType
  <2>2. stored \in [Indexes -> Nat] /\ stored[Index(c)] <= Repeats /\ UNCHANGED <<at, step, lock, stored>>
    BY <1>6, IndexIn DEF BeginPass, copy, ArmInv, ArmType, Owing
  <2>3. CASE stored[Index(c)] < pool[c].level + 1
    <3> DEFINE q == [on |-> TRUE, level |-> pool[c].level + 1, owed |-> TRUE]
    <3>1. q \in [on: BOOLEAN, level: Nat, owed: BOOLEAN] /\ q.on /\ q.level <= Repeats
          /\ q.level = pool[c].level + 1 /\ q.owed = TRUE
      BY <2>1
    <3>2. pool' = [pool EXCEPT ![c] = q]
      BY <1>6, <2>3 DEF BeginPass
    <3> HIDE DEF q
    <3> QED BY <2>1, <2>2, <2>3, <3>1, <3>2, PoolKeeps
  <2>4. CASE ~(stored[Index(c)] < pool[c].level + 1)
    <3> DEFINE q == [on |-> TRUE, level |-> pool[c].level + 1, owed |-> FALSE]
    <3>1. q \in [on: BOOLEAN, level: Nat, owed: BOOLEAN] /\ q.on /\ q.level <= Repeats
          /\ q.level = pool[c].level + 1 /\ q.owed = FALSE
      BY <2>1
    <3>2. pool' = [pool EXCEPT ![c] = q]
      <4>1. (stored[Index(c)] < pool[c].level + 1) = FALSE
        BY <2>4
      <4>2. pool' = [pool EXCEPT ![c] = [on |-> TRUE, level |-> pool[c].level + 1,
                                         owed |-> stored[Index(c)] < pool[c].level + 1]]
        BY <1>6 DEF BeginPass
      <4> QED BY <4>1, <4>2, Zenon
    <3> HIDE DEF q
    <3> QED BY <2>1, <2>2, <2>4, <3>1, <3>2, PoolKeeps
  <2> QED BY <2>3, <2>4
<1>7. ASSUME NEW c \in Copies, Store(c) PROVE ArmInv'
  <2> DEFINE q == [pool[c] EXCEPT !.owed = FALSE]
  <2>1. pool[c] \in [on: BOOLEAN, level: Nat, owed: BOOLEAN] /\ pool[c].on /\ pool[c].level <= Repeats
        /\ Index(c) \in Indexes /\ stored[Index(c)] \in Nat /\ stored[Index(c)] < pool[c].level
    BY <1>7, IndexIn DEF Store, ArmInv, ArmType, Owing
  <2>2. q \in [on: BOOLEAN, level: Nat, owed: BOOLEAN] /\ q.on /\ q.level <= Repeats /\ ~q.owed
    BY <2>1
  <2>3. pool' = [pool EXCEPT ![c] = q] /\ UNCHANGED <<at, step, lock>>
        /\ stored' = [stored EXCEPT ![Index(c)] = stored[Index(c)] + 1]
    BY <1>7 DEF Store, copy
  <2>4. stored' \in [Indexes -> Nat] /\ (\A k \in Indexes \ {Index(c)} : stored'[k] = stored[k]) /\ stored'[Index(c)] <= Repeats
    BY <2>1, <2>3 DEF ArmInv, ArmType
  <2> QED BY <2>1, <2>2, <2>3, <2>4, PoolKeeps
<1>8. ASSUME NEW c \in Copies, Abandon(c) PROVE ArmInv'
  <2> DEFINE q == [pool[c] EXCEPT !.owed = FALSE]
  <2>1. pool[c] \in [on: BOOLEAN, level: Nat, owed: BOOLEAN] /\ pool[c].on /\ pool[c].level <= Repeats
    BY <1>8 DEF Abandon, ArmInv, ArmType, Owing
  <2>2. q \in [on: BOOLEAN, level: Nat, owed: BOOLEAN] /\ q.on /\ q.level <= Repeats /\ ~q.owed
    BY <2>1
  <2>3. pool' = [pool EXCEPT ![c] = q] /\ UNCHANGED <<at, step, lock, stored>>
    BY <1>8 DEF Abandon, copy
  <2>4. stored \in [Indexes -> Nat] /\ stored[Index(c)] <= Repeats
    BY IndexIn DEF ArmInv, ArmType, Owing
  <2> QED BY <2>1, <2>2, <2>3, <2>4, PoolKeeps
<1>9. ASSUME NEW c \in Copies, Exits(c) PROVE ArmInv'
  BY <1>9, GoneKeeps DEF Exits
<1>10. ASSUME NEW c \in Copies, Fails(c) PROVE ArmInv'
  <2>1. CASE at[c] = "holding" /\ TriesAgain(c)
    <3> DEFINE q == [on |-> TRUE, level |-> 0, owed |-> FALSE]
    <3>1. pool[c].on /\ pool' = [pool EXCEPT ![c] = q] /\ UNCHANGED <<at, step, lock, stored>>
      BY <1>10, <2>1 DEF Fails, Begins, Fresh
    <3>2. stored \in [Indexes -> Nat] /\ stored[Index(c)] <= Repeats
      BY IndexIn DEF ArmInv, ArmType, Owing
    <3>3. q \in [on: BOOLEAN, level: Nat, owed: BOOLEAN] /\ q.on /\ q.level <= Repeats /\ ~q.owed
      OBVIOUS
    <3> HIDE DEF q
    <3> QED BY <3>1, <3>2, <3>3, PoolKeeps
  <2>2. CASE ~(at[c] = "holding" /\ TriesAgain(c))
    BY <1>10, <2>2, GoneKeeps DEF Fails
  <2> QED BY <2>1, <2>2
<1>11. CASE Clear
  <2>1. \A c \in Copies : ~Holds(c)
    BY <1>11 DEF Clear, Quiet, Holds
  <2>2. UNCHANGED <<at, step, pool, stored>>
    BY <1>11 DEF Clear, copy
  <2>3. \A c \in Copies : ~Holds(c)' /\ Index(c)' = Index(c)
    BY <2>1, <2>2 DEF Holds, Index
  <2>4. Held'
    BY <2>3 DEF Held
  <2>5. ArmType' /\ Owing'
    BY <2>2, <2>3 DEF ArmInv, ArmType, Owing
  <2> QED BY <2>4, <2>5 DEF ArmInv
<1>12. CASE UNCHANGED vars
  BY <1>12 DEF vars, copy, ArmInv, ArmType, Held, Holds, Owing, Index
<1> QED
  BY <1>1, <1>2, <1>3, <1>4, <1>5, <1>6, <1>7, <1>8, <1>9, <1>10, <1>11, <1>12 DEF Next, Script, Pool

\* A chunk has no more runs than were asked for, if the lock directories are cleared only
\* once nothing of the arm runs: for any copies, chunks, attempts and kills.
THEOREM NeverPastRepeatsIfCareful == ASSUME CarefulClear PROVE Spec => []NeverPastRepeats
<1>1. Init => ArmInv
  BY InitArm
<1>2. ArmInv /\ [Next]_vars => ArmInv'
  BY StepArm
<1>3. ArmInv => NeverPastRepeats
  BY DEF ArmInv, Owing, NeverPastRepeats
<1> QED BY <1>1, <1>2, <1>3, PTL DEF Spec

---------------------------------------------------------------------------
\* A copy that holds a chunk has not gone through them all.
TypeInv == TypeOK /\ \A c \in Copies : at[c] = "holding" => step[c] < Chunks

\* The chunk a copy is at is one of the arm's.
LEMMA IndexOf == ASSUME TypeOK, NEW c \in Copies PROVE Index(c) \in Indexes
<1>1. First[c] + step[c] \in Nat /\ Chunks \in Nat \ {0}
  BY DEF TypeOK
<1> QED BY <1>1 DEF Index, Indexes

LEMMA ScriptTypes == ASSUME TypeInv, NEW c \in Copies, Start(c) \/ Script(c) \/ Kill(c) PROVE TypeInv'
<1> USE DEF TypeInv, TypeOK, Goes, copy, bounds
<1>1. CASE Start(c)
  BY <1>1 DEF Start
<1>2. CASE Claim(c)
  <2>1. Index(c) \in Indexes
    BY IndexOf
  <2> QED BY <1>2, <2>1 DEF Claim, Begins, Fresh
<1>3. CASE Pass(c)
  BY <1>3 DEF Pass
<1>4. CASE Over(c)
  BY <1>4 DEF Over
<1>5. CASE Kill(c)
  BY <1>5 DEF Kill
<1> QED BY <1>1, <1>2, <1>3, <1>4, <1>5 DEF Script

LEMMA LeavesChunkTypes ==
  ASSUME TypeInv, NEW c \in Copies, at[c] = "holding", LeavesChunk(c)
  PROVE  /\ at' \in [Copies -> {"new", "chunk", "holding", "over", "killed"}]
         /\ step' \in [Copies -> 0..Chunks] /\ attempt' \in [Copies -> 0..Attempts]
         /\ lock' \subseteq Indexes
         /\ \A e \in Copies : at'[e] = "holding" => step'[e] < Chunks
  BY DEF TypeInv, TypeOK, LeavesChunk, Goes

\* What a copy's pool driver may become, and what it does for the copies to be typed.
LEMMA PoolTyped ==
  ASSUME TypeInv, NEW c \in Copies, NEW q \in [on: BOOLEAN, level: 0..Repeats, owed: BOOLEAN],
         pool' = [pool EXCEPT ![c] = q]
  PROVE  pool' \in [Copies -> [on: BOOLEAN, level: 0..Repeats, owed: BOOLEAN]]
  BY DEF TypeInv, TypeOK

LEMMA PoolTypes == ASSUME TypeInv, NEW c \in Copies, Pool(c) PROVE TypeInv'
<1> USE DEF copy, bounds
<1> DEFINE Pools == [Copies -> [on: BOOLEAN, level: 0..Repeats, owed: BOOLEAN]]
<1>0. /\ Index(c) \in Indexes /\ pool \in Pools
      /\ Off \in [on: BOOLEAN, level: 0..Repeats, owed: BOOLEAN]
      /\ Fresh \in [on: BOOLEAN, level: 0..Repeats, owed: BOOLEAN]
  BY IndexOf DEF TypeInv, TypeOK, Off, Fresh
<1>1. CASE BeginPass(c)
  BY <1>0, <1>1 DEF BeginPass, TypeInv, TypeOK
<1>2. CASE Store(c)
  <2>1. pool' \in Pools
    BY <1>0, <1>2 DEF Store
  <2>2. stored' \in [Indexes -> Nat]
    BY <1>0, <1>2 DEF Store, TypeInv, TypeOK
  <2> QED BY <1>2, <2>1, <2>2 DEF Store, TypeInv, TypeOK
<1>3. CASE Abandon(c)
  BY <1>3 DEF Abandon, TypeInv, TypeOK
<1>4. CASE Exits(c)
  <2>1. pool' \in Pools /\ stored' = stored /\ settled' \subseteq Indexes
    BY <1>0, <1>4, PoolTyped DEF Exits, TypeInv, TypeOK
  <2>2. CASE at[c] = "holding"
    BY <1>4, <2>1, <2>2, LeavesChunkTypes DEF Exits, TypeInv, TypeOK
  <2>3. CASE at[c] # "holding"
    BY <1>4, <2>1, <2>3 DEF Exits, TypeInv, TypeOK
  <2> QED BY <2>2, <2>3
<1>5. CASE Fails(c)
  <2>1. CASE at[c] # "holding"
    <3>1. pool' \in Pools
      BY <1>0, <1>5, <2>1, PoolTyped DEF Fails
    <3> QED BY <1>5, <2>1, <3>1 DEF Fails, TypeInv, TypeOK
  <2>2. CASE at[c] = "holding" /\ TriesAgain(c)
    <3>1. pool' \in Pools
      BY <1>0, <1>5, <2>2, PoolTyped DEF Fails, Begins
    <3>2. attempt' = [attempt EXCEPT ![c] = @ + 1] /\ attempt[c] < Attempts
      BY <1>5, <2>2 DEF Fails, TriesAgain
    <3>3. attempt' \in [Copies -> 0..Attempts]
      BY <3>2 DEF TypeInv, TypeOK
    <3> QED BY <1>5, <2>2, <3>1, <3>3 DEF Fails, TypeInv, TypeOK
  <2>3. CASE at[c] = "holding" /\ ~TriesAgain(c)
    <3>1. pool' \in Pools
      BY <1>0, <1>5, <2>3, PoolTyped DEF Fails
    <3>2. LeavesChunk(c) /\ stored' = stored /\ settled' \subseteq Indexes
      BY <1>0, <1>5, <2>3 DEF Fails, TypeInv, TypeOK
    <3> QED BY <2>3, <3>1, <3>2, LeavesChunkTypes DEF TypeInv, TypeOK
  <2> QED BY <2>1, <2>2, <2>3
<1> QED BY <1>1, <1>2, <1>3, <1>4, <1>5 DEF Pool

\* However copies are killed and locks cleared, the state stays well formed: a copy goes
\* through its chunks once, with at most the attempts it has at each.
THEOREM ArmTypes == Spec => []TypeOK
<1>1. Init => TypeInv
  BY DEF Init, TypeInv, TypeOK, Off
<1>2. TypeInv /\ [Next]_vars => TypeInv'
  <2> SUFFICES ASSUME TypeInv, [Next]_vars PROVE TypeInv'
    OBVIOUS
  <2>1. ASSUME NEW c \in Copies, Start(c) \/ Script(c) \/ Pool(c) \/ Kill(c) PROVE TypeInv'
    BY <2>1, ScriptTypes, PoolTypes
  <2>2. CASE Clear
    BY <2>2 DEF Clear, copy, TypeInv, TypeOK
  <2>3. CASE UNCHANGED vars
    BY <2>3 DEF vars, copy, TypeInv, TypeOK
  <2> QED BY <2>1, <2>2, <2>3 DEF Next
<1>3. TypeInv => TypeOK
  BY DEF TypeInv
<1> QED BY <1>1, <1>2, <1>3, PTL DEF Spec

---------------------------------------------------------------------------
(* The copies together keep the promise of one pool driver. *)

\* What StudyPromise is told of a chunk that a copy's pool driver is at.
LEMMA Driven ==
  ASSUME Held, NEW c \in Copies, pool[c].on, NEW k, Index(c) = k
  PROVE  /\ Driving(k) = {c} /\ LevelOf(k) = pool[c].level
         /\ OwedOf(k) = IF pool[c].owed THEN {k} ELSE {}
<1>1. Driving(k) = {c}
  BY DEF Driving, Held, Holds
<1>2. (CHOOSE e \in Driving(k) : TRUE) = c
  BY <1>1
<1> QED BY <1>1, <1>2 DEF LevelOf, OwedOf

\* ... and of one that none is at.
LEMMA NotDriven ==
  ASSUME NEW k, \A c \in Copies : pool[c].on => Index(c) # k
  PROVE  LevelOf(k) = 0 /\ OwedOf(k) = {}
<1>1. Driving(k) = {}
  BY DEF Driving
<1> QED BY <1>1 DEF LevelOf, OwedOf

\* The two, after a step.
LEMMA DrivenNext ==
  ASSUME Held', NEW c \in Copies, pool'[c].on, NEW k, Index(c)' = k
  PROVE  LevelOf(k)' = pool'[c].level /\ OwedOf(k)' = IF pool'[c].owed THEN {k} ELSE {}
<1>1. Driving(k)' = {c}
  BY DEF Driving, Held, Holds
<1>2. (CHOOSE e \in Driving(k)' : TRUE) = c
  BY <1>1
<1> QED BY <1>1, <1>2 DEF LevelOf, OwedOf

LEMMA NotDrivenNext ==
  ASSUME NEW k, \A c \in Copies : pool'[c].on => Index(c)' # k
  PROVE  LevelOf(k)' = 0 /\ OwedOf(k)' = {}
<1>1. Driving(k)' = {}
  BY DEF Driving
<1> QED BY <1>1 DEF LevelOf, OwedOf

\* A step that leaves the chunk's runs, and the pool driver at it, alone.
LEMMA NotLookedAt ==
  ASSUME stored'[Watched] = stored[Watched],
         \A c \in Copies : pool'[c].on /\ Index(c)' = Watched <=> pool[c].on /\ Index(c) = Watched,
         \A c \in Copies : pool[c].on /\ Index(c) = Watched => pool'[c] = pool[c]
  PROVE  UNCHANGED Study!promised
<1>1. Driving(Watched)' = Driving(Watched) /\ \A c \in Driving(Watched) : pool'[c] = pool[c]
  BY DEF Driving
<1>2. Driving(Watched) # {} => (CHOOSE c \in Driving(Watched) : TRUE) \in Driving(Watched)
  OBVIOUS
<1>3. LevelOf(Watched)' = LevelOf(Watched)
  BY <1>1, <1>2 DEF LevelOf
<1>4. OwedOf(Watched)' = OwedOf(Watched)
  BY <1>1 DEF OwedOf
<1>5. [j \in {Watched} |-> stored[j]]' = [j \in {Watched} |-> stored[j]]
  OBVIOUS
<1> QED BY <1>3, <1>4, <1>5 DEF Study!promised

\* A pool driver that is gone, or begins afresh, leaves the chunk with nothing owed.
LEMMA StartsOver ==
  ASSUME stored'[Watched] = stored[Watched], LevelOf(Watched)' = 0, OwedOf(Watched)' = {}
  PROVE  Study!Next
<1>1. [j \in {Watched} |-> stored[j]]' = [j \in {Watched} |-> stored[j]]
  OBVIOUS
<1> QED BY <1>1 DEF Study!Next, Study!Over

\* A copy that moves and has no pool driver, or does not move, is not seen.
LEMMA ScriptStutters ==
  ASSUME ArmInv, NEW c \in Copies, Start(c) \/ Pass(c) \/ Over(c) \/ Kill(c)
  PROVE  UNCHANGED Study!promised
<1>1. pool' = pool /\ stored' = stored
  BY DEF Start, Pass, Over, Kill
<1>2. \A e \in Copies : pool[e].on => step'[e] = step[e]
  <2>1. CASE Pass(c)
    <3>1. ~pool[c].on
      BY <2>1 DEF Pass, ArmInv, Held, Holds
    <3> QED BY <2>1, <3>1 DEF Pass, ArmInv, ArmType
  <2>2. CASE Start(c) \/ Over(c) \/ Kill(c)
    BY <2>2 DEF Start, Over, Kill
  <2> QED BY <2>1, <2>2
<1>3. \A e \in Copies : pool[e].on => Index(e)' = Index(e)
  BY <1>2 DEF Index
<1> QED BY <1>1, <1>3, NotLookedAt

LEMMA ClaimStutters ==
  ASSUME ArmInv, ArmInv', NEW c \in Copies, Claim(c)
  PROVE  UNCHANGED Study!promised
<1>1. /\ step' = step /\ stored' = stored /\ Index(c) \notin lock
      /\ pool' = [pool EXCEPT ![c] = [on |-> TRUE, level |-> 0, owed |-> FALSE]]
  BY DEF Claim, Begins, Fresh, Free
<1>2. \A e \in Copies : Index(e)' = Index(e)
  BY <1>1 DEF Index
<1>3. pool'[c] = [on |-> TRUE, level |-> 0, owed |-> FALSE] /\ \A e \in Copies \ {c} : pool'[e] = pool[e]
  BY <1>1 DEF ArmInv, ArmType
<1>4. CASE Index(c) = Watched
  <2>1. \A e \in Copies : pool[e].on => Index(e) # Watched
    BY <1>1, <1>4 DEF ArmInv, Held, Holds
  <2>2. LevelOf(Watched) = 0 /\ OwedOf(Watched) = {}
    BY <2>1, NotDriven
  <2>3. LevelOf(Watched)' = 0 /\ OwedOf(Watched)' = {}
    BY <1>2, <1>3, <1>4, DrivenNext DEF ArmInv
  <2>4. [j \in {Watched} |-> stored[j]]' = [j \in {Watched} |-> stored[j]]
    BY <1>1
  <2> QED BY <2>2, <2>3, <2>4 DEF Study!promised
<1>5. CASE Index(c) # Watched
  BY <1>1, <1>2, <1>3, <1>5, NotLookedAt
<1> QED BY <1>4, <1>5

\* A pool driver's step, at its chunk and seen from the others.
LEMMA PoolImplements ==
  ASSUME ArmInv, ArmInv', NEW c \in Copies, Pool(c)
  PROVE  Study!Next \/ UNCHANGED Study!promised
<1>w. Watched \in Indexes
  BY DEF Indexes
<1>0. /\ pool[c].on /\ Index(c) \in Indexes /\ stored \in [Indexes -> Nat]
      /\ pool \in [Copies -> [on: BOOLEAN, level: Nat, owed: BOOLEAN]]
  BY IndexIn DEF Pool, BeginPass, Store, Abandon, Exits, Fails, ArmInv, ArmType, Owing
<1>1. \A e \in Copies \ {c} : pool'[e] = pool[e] /\ step'[e] = step[e]
  BY <1>0 DEF Pool, BeginPass, Store, Abandon, Exits, Fails, Begins, LeavesChunk, copy, ArmInv, ArmType
<1>2. \A e \in Copies \ {c} : Index(e)' = Index(e)
  BY <1>1 DEF Index
<1>3. \A e \in Copies \ {c} : pool[e].on => Index(e) # Index(c)
  BY <1>0 DEF ArmInv, Held, Holds
<1>4. \A j \in Indexes \ {Index(c)} : stored'[j] = stored[j]
  BY <1>0 DEF Pool, BeginPass, Store, Abandon, Exits, Fails
<1>5. pool'[c].on => Index(c)' = Index(c)
  <2>1. CASE Exits(c)
    BY <1>0, <2>1 DEF Exits, Off
  <2>2. CASE Fails(c)
    <3>1. CASE at[c] = "holding" /\ TriesAgain(c)
      BY <2>2, <3>1 DEF Fails, Index
    <3>2. CASE ~(at[c] = "holding" /\ TriesAgain(c))
      BY <1>0, <2>2, <3>2 DEF Fails, Off
    <3> QED BY <3>1, <3>2
  <2>3. CASE BeginPass(c) \/ Store(c) \/ Abandon(c)
    BY <2>3 DEF BeginPass, Store, Abandon, copy, Index
  <2> QED BY <2>1, <2>2, <2>3 DEF Pool
<1>6. CASE Index(c) # Watched
  <2>1. stored'[Watched] = stored[Watched]
    BY <1>w, <1>4, <1>6
  <2>2. ~(pool[c].on /\ Index(c) = Watched) /\ ~(pool'[c].on /\ Index(c)' = Watched)
    BY <1>5, <1>6
  <2> QED BY <1>1, <1>2, <2>1, <2>2, NotLookedAt
<1>7. CASE Index(c) = Watched
  <2>0. LevelOf(Watched) = pool[c].level /\ OwedOf(Watched) = IF pool[c].owed THEN {Watched} ELSE {}
    BY <1>0, <1>7, Driven DEF ArmInv
  <2> DEFINE kept == [j \in {Watched} |-> stored[j]]
  <2>1. CASE BeginPass(c)
    <3>1. /\ ~pool[c].owed /\ pool[c].level < Repeats /\ UNCHANGED <<step, stored>>
          /\ pool'[c].on /\ pool'[c].level = pool[c].level + 1
          /\ pool'[c].owed <=> stored[Watched] < pool[c].level + 1
      BY <1>0, <1>7, <2>1 DEF BeginPass, copy
    <3>2. LevelOf(Watched)' = pool[c].level + 1
          /\ OwedOf(Watched)' = IF stored[Watched] < pool[c].level + 1 THEN {Watched} ELSE {}
      BY <1>5, <1>7, <3>1, DrivenNext DEF ArmInv
    <3>3. OwedOf(Watched)' = {e \in {Watched} : kept[e] < LevelOf(Watched) + 1}
      BY <2>0, <3>2
    <3>4. kept' = kept
      BY <3>1
    <3> QED BY <2>0, <3>1, <3>2, <3>3, <3>4 DEF Study!Next, Study!NextPass
  <2>2. CASE Store(c)
    <3>1. /\ pool[c].owed /\ step' = step /\ stored' = [stored EXCEPT ![Watched] = stored[Watched] + 1]
          /\ pool'[c].on /\ pool'[c].level = pool[c].level /\ ~pool'[c].owed
      BY <1>0, <1>7, <2>2 DEF Store, copy
    <3>2. LevelOf(Watched)' = LevelOf(Watched) /\ OwedOf(Watched) = {Watched} /\ OwedOf(Watched)' = {}
      BY <1>5, <1>7, <2>0, <3>1, DrivenNext DEF ArmInv
    <3>3. kept' = [kept EXCEPT ![Watched] = kept[Watched] + 1]
      BY <1>w, <1>0, <1>7, <3>1
    <3>4. Study!StoreRun(Watched)
      BY <3>2, <3>3 DEF Study!StoreRun
    <3> QED BY <3>4 DEF Study!Next
  <2>3. CASE Abandon(c)
    <3>1. /\ pool[c].owed /\ UNCHANGED <<step, stored>>
          /\ pool'[c].on /\ pool'[c].level = pool[c].level /\ ~pool'[c].owed
      BY <1>0, <1>7, <2>3 DEF Abandon, copy
    <3>2. LevelOf(Watched)' = LevelOf(Watched) /\ OwedOf(Watched) = {Watched} /\ OwedOf(Watched)' = {}
      BY <1>5, <1>7, <2>0, <3>1, DrivenNext DEF ArmInv
    <3>3. kept' = kept
      BY <3>1
    <3>4. Study!GiveUpOn(Watched)
      BY <3>2, <3>3 DEF Study!GiveUpOn
    <3> QED BY <3>4 DEF Study!Next
  <2>4. CASE Exits(c) \/ Fails(c)
    <3>1. stored' = stored
      BY <2>4 DEF Exits, Fails
    <3>2. CASE pool'[c].on
      <4>1. pool'[c] = Fresh
        BY <1>0, <2>4, <3>2 DEF Exits, Fails, Begins, Off
      <4>2. LevelOf(Watched)' = 0 /\ OwedOf(Watched)' = {}
        BY <1>5, <1>7, <3>2, <4>1, DrivenNext DEF ArmInv, Fresh
      <4> QED BY <3>1, <4>2, StartsOver
    <3>3. CASE ~pool'[c].on
      <4>1. \A e \in Copies : pool'[e].on => Index(e)' # Watched
        BY <1>1, <1>2, <1>3, <1>7, <3>3
      <4>2. LevelOf(Watched)' = 0 /\ OwedOf(Watched)' = {}
        BY <4>1, NotDrivenNext
      <4> QED BY <3>1, <4>2, StartsOver
    <3> QED BY <3>2, <3>3
  <2> QED BY <2>1, <2>2, <2>3, <2>4 DEF Pool
<1> QED BY <1>6, <1>7

LEMMA StepImplements ==
  ASSUME CarefulClear, ArmInv, ArmInv', [Next]_vars
  PROVE  [Study!Next]_(Study!promised)
<1>1. CASE \E c \in Copies : Start(c) \/ Script(c) \/ Kill(c)
  BY <1>1, ScriptStutters, ClaimStutters DEF Script
<1>2. CASE \E c \in Copies : Pool(c)
  BY <1>2, PoolImplements
<1>3. CASE Clear \/ UNCHANGED vars
  <2>1. UNCHANGED <<step, pool, stored>>
    BY <1>3 DEF Clear, vars, copy
  <2>2. \A c \in Copies : Index(c)' = Index(c)
    BY <2>1 DEF Index
  <2> QED BY <2>1, <2>2, NotLookedAt
<1> QED BY <1>1, <1>2, <1>3 DEF Next

LEMMA InitImplements == ASSUME Init PROVE Study!Init
<1>1. LevelOf(Watched) = 0 /\ OwedOf(Watched) = {}
  BY NotDriven DEF Init, Off
<1>2. Watched \in Indexes
  BY DEF Indexes
<1> QED BY <1>1, <1>2 DEF Init, Study!Init

\* What copies do to a chunk between them, killed at any point and started again, is
\* what one pool driver promises to do with it: whichever chunk it is.
THEOREM EveryChunkAsPromised == ASSUME CarefulClear PROVE Spec => ChunkAsPromised
<1>1. Init => ArmInv /\ Study!Init
  BY InitArm, InitImplements
<1>2. ArmInv /\ [Next]_vars => ArmInv'
  BY StepArm
<1>3. ArmInv /\ ArmInv' /\ [Next]_vars => [Study!Next]_(Study!promised)
  BY StepImplements
<1> QED BY <1>1, <1>2, <1>3, PTL DEF Spec, Study!Spec, ChunkAsPromised

=============================================================================
