------------------------ MODULE DaemonProofs ------------------------
(***************************************************************************)
(* Proofs for any set of process IDs, of sightings, of packets and of       *)
(* channels and regions, any hash and any cipher that CipherAssumption and  *)
(* MacAssumption allow.  One daemon lives: the invariant follows the lock,  *)
(* held exactly by the processes that exist; at most one of these is not    *)
(* the parent of a fork on its way out, and from the moment it has recorded *)
(* its process ID the lock file is its own.  A restart shows the same nodes: *)
(* the table and every mirror are what the sightings written, or heard, say *)
(* of each key.  A daemon with a radio is such a daemon, and every packet   *)
(* heard, cut at any byte, is read right: the payload and the preamble      *)
(* before it are placed byte by byte, and each field's reader is shown to   *)
(* find what the sender put there.                                          *)
(***************************************************************************)
EXTENDS DaemonRadio, TLAPS, FiniteSetTheorems, SequenceTheorems, WellFoundedInduction

Early == {"locked", "emptied", "detaching", "forked", "cleared", "ready"}
Phases == {"none", "parent"} \cup Early \cup Working

\* Whoever has got past flock and is not merely waiting to be gone.
Active(p) == phase[p] \notin {"none", "parent"}
Recorded(p) == phase[p] \in {"detaching", "ready"} \cup Working

Types == phase \in [Pids -> Phases]
Holding == holders = {p \in Pids : phase[p] # "none"}
Single == \A p, q \in Pids : Active(p) /\ Active(q) => p = q
Owned ==
    /\ \A p \in Pids : Recorded(p) => lockFile = p
    /\ \A p \in Pids : phase[p] = "serving" => socket = p

Inv == Types /\ Holding /\ Single /\ Owned

\* Initially no process exists (main.rs: nothing has been started).
LEMMA InitInv == Init => Inv
BY DEF Init, Inv, Types, Phases, Early, Holding, Single, Active, Owned, Recorded, Working

\* A process that gets the lock finds no other one (lock.rs: acquire).
LEMMA StartInv ==
    ASSUME Inv, NEW p \in Pids, NEW detached \in BOOLEAN, Start(p, detached)
    PROVE  Inv'
<1>1. phase' = [phase EXCEPT ![p] = "locked"] /\ UNCHANGED <<lockFile, socket>>
  BY DEF Start, files
<1>2. \A q \in Pids : phase[q] = "none"
  BY DEF Start, Locks, Inv, Holding
<1>3. Types'
  BY <1>1 DEF Inv, Types, Phases, Early
<1>4. Holding'
  BY <1>1 DEF Start, Inv, Types, Holding
<1>5. Single'
  BY <1>1, <1>2 DEF Inv, Types, Single, Active
<1>6. Owned'
  BY <1>1, <1>2 DEF Inv, Types, Owned, Recorded, Working
<1> QED  BY <1>3, <1>4, <1>5, <1>6 DEF Inv

\* Emptying the lock file takes the process ID of no other process away: the
\* one that empties it is the only active one (lock.rs: write_current_pid).
LEMMA EmptyLockFileInv ==
    ASSUME Inv, NEW p \in Pids, EmptyLockFile(p)
    PROVE  Inv'
<1>1. /\ phase[p] \in {"locked", "forked"}
      /\ phase' = [phase EXCEPT ![p] = IF @ = "locked" THEN "emptied" ELSE "cleared"]
      /\ UNCHANGED <<holders, socket>>
  BY DEF EmptyLockFile
<1>2. \A q \in Pids \ {p} : ~ Active(q)
  BY <1>1 DEF Inv, Single, Active
<1>3. phase'[p] \in {"emptied", "cleared"} /\ \A q \in Pids \ {p} : phase'[q] = phase[q]
  BY <1>1 DEF Inv, Types
<1>4. Types'
  BY <1>1 DEF Inv, Types, Phases, Early
<1>5. Holding'
  BY <1>1, <1>3 DEF Inv, Holding
<1>6. Single'
  BY <1>2, <1>3 DEF Single, Active
<1>7. Owned'
  BY <1>2, <1>3 DEF Owned, Recorded, Active, Working
<1> QED  BY <1>4, <1>5, <1>6, <1>7 DEF Inv

\* Once recorded the process ID is that of the only active process.
LEMMA RecordPidInv ==
    ASSUME Inv, NEW p \in Pids, RecordPid(p)
    PROVE  Inv'
<1>1. /\ phase[p] \in {"emptied", "cleared"} /\ lockFile' = p
      /\ phase' = [phase EXCEPT ![p] =
                      IF @ = "emptied" /\ p \in background THEN "detaching" ELSE "ready"]
      /\ UNCHANGED <<holders, socket>>
  BY DEF RecordPid
<1>2. \A q \in Pids \ {p} : ~ Active(q)
  BY <1>1 DEF Inv, Single, Active
<1>3. phase'[p] \in {"detaching", "ready"} /\ \A q \in Pids \ {p} : phase'[q] = phase[q]
  BY <1>1 DEF Inv, Types
<1>4. Types'
  BY <1>1 DEF Inv, Types, Phases, Early
<1>5. Holding'
  BY <1>1, <1>3 DEF Inv, Holding
<1>6. Single'
  BY <1>2, <1>3 DEF Single, Active
<1>7. Owned'
  BY <1>1, <1>2, <1>3 DEF Owned, Recorded, Active, Working
<1> QED  BY <1>4, <1>5, <1>6, <1>7 DEF Inv

\* The child of the fork has the lock and takes the parent's place
\* (main.rs: run_in_background).
LEMMA ForkInv ==
    ASSUME Inv, NEW p \in Pids, NEW q \in Pids, Fork(p, q)
    PROVE  Inv'
<1>1. /\ phase[p] = "detaching" /\ phase[q] = "none"
      /\ phase' = [phase EXCEPT ![p] = "parent", ![q] = "forked"]
      /\ holders' = holders \cup {q}
      /\ UNCHANGED <<lockFile, socket>>
  BY DEF Fork, files
<1>2. \A r \in Pids \ {p} : ~ Active(r)
  BY <1>1 DEF Inv, Single, Active
<1>3. phase'[p] = "parent" /\ phase'[q] = "forked"
        /\ \A r \in Pids \ {p, q} : phase'[r] = phase[r]
  BY <1>1 DEF Inv, Types
<1>4. Types'
  BY <1>1 DEF Inv, Types, Phases, Early
<1>5. Holding'
  BY <1>1, <1>3 DEF Inv, Holding
<1>6. Single'
  BY <1>2, <1>3 DEF Single, Active
<1>7. Owned'
  BY <1>2, <1>3 DEF Owned, Recorded, Active, Working
<1> QED  BY <1>4, <1>5, <1>6, <1>7 DEF Inv

\* What a process does from the open table to the removal of its socket file
\* leaves the lock alone (main.rs: run; server.rs: run).
LEMMA WorkInv ==
    ASSUME Inv, NEW p \in Pids, OpenStore(p) \/ Bind(p) \/ Stop(p) \/ RemoveSocket(p)
    PROVE  Inv'
<1>1. /\ phase[p] \in {"ready"} \cup Working
      /\ \E x \in Working : phase' = [phase EXCEPT ![p] = x]
      /\ UNCHANGED <<holders, lockFile>>
  BY DEF OpenStore, Bind, Stop, RemoveSocket, files, Working
<1>2. \A q \in Pids \ {p} : ~ Active(q)
  BY <1>1 DEF Inv, Single, Active, Working
<1>3. phase'[p] \in Working /\ \A q \in Pids \ {p} : phase'[q] = phase[q]
  BY <1>1 DEF Inv, Types
<1>4. Types'
  BY <1>1 DEF Inv, Types, Phases
<1>5. Holding'
  BY <1>1, <1>3 DEF Inv, Holding, Working
<1>6. Single'
  BY <1>2, <1>3 DEF Single, Active
<1>7. phase'[p] = "serving" => socket' = p
  BY DEF Inv, Types, Owned, OpenStore, Bind, Stop, RemoveSocket, files
<1>8. Owned'
  BY <1>1, <1>2, <1>3, <1>7 DEF Inv, Owned, Recorded, Active, Working
<1> QED  BY <1>4, <1>5, <1>6, <1>8 DEF Inv

\* The lock goes with the process, and so does what it promised.
LEMMA ExitInv ==
    ASSUME Inv, NEW p \in Pids, Exit(p)
    PROVE  Inv'
<1>1. /\ phase' = [phase EXCEPT ![p] = "none"]
      /\ holders' = holders \ {p}
      /\ UNCHANGED <<lockFile, socket>>
  BY DEF Exit, files
<1>2. phase'[p] = "none" /\ \A q \in Pids \ {p} : phase'[q] = phase[q]
  BY <1>1 DEF Inv, Types
<1>3. Types'
  BY <1>1 DEF Inv, Types, Phases
<1>4. Holding'
  BY <1>1, <1>2 DEF Inv, Holding
<1>5. Single'
  BY <1>2 DEF Inv, Single, Active
<1>6. Owned'
  BY <1>1, <1>2 DEF Inv, Owned, Recorded, Working
<1> QED  BY <1>3, <1>4, <1>5, <1>6 DEF Inv

\* The invariant looks at these four variables only.
LEMMA OtherInv ==
    ASSUME Inv, UNCHANGED <<phase, holders, lockFile, socket>>
    PROVE  Inv'
BY DEF Inv, Types, Holding, Single, Active, Owned, Recorded

LEMMA NextInv == Inv /\ [Next]_vars => Inv'
<1> SUFFICES ASSUME Inv, [Next]_vars PROVE Inv'
  OBVIOUS
<1>1. CASE UNCHANGED vars
  BY <1>1, OtherInv DEF vars, files, processes
<1>2. ASSUME NEW p \in Pids, Live(p) PROVE Inv'
  <2>1. ASSUME NEW detached \in BOOLEAN, Start(p, detached) PROVE Inv'
    BY <2>1, StartInv
  <2>2. CASE Refused(p)
    BY <2>2, OtherInv DEF Refused, processes, files
  <2>3. CASE EmptyLockFile(p)
    BY <2>3, EmptyLockFileInv
  <2>4. CASE RecordPid(p)
    BY <2>4, RecordPidInv
  <2>5. ASSUME NEW q \in Pids, Fork(p, q) PROVE Inv'
    BY <2>5, ForkInv
  <2>6. CASE OpenStore(p) \/ Bind(p) \/ Stop(p) \/ RemoveSocket(p)
    BY <2>6, WorkInv
  <2>7. CASE Exit(p)
    BY <2>7, ExitInv
  <2> QED  BY <1>2, <2>1, <2>2, <2>3, <2>4, <2>5, <2>6, <2>7 DEF Live
<1>3. ASSUME NEW p \in Pids, Hear(p) PROVE Inv'
  <2>1. ASSUME NEW s \in Sightings, WriteSighting(p, s) PROVE Inv'
    BY <2>1, OtherInv DEF WriteSighting
  <2>2. CASE MirrorSighting(p)
    BY <2>2, OtherInv DEF MirrorSighting, files
  <2> QED  BY <1>3, <2>1, <2>2 DEF Hear
<1> QED  BY <1>1, <1>2, <1>3 DEF Next

\* The lock is held exactly by the processes that exist, one of which is active
\* (lock.rs: SingleInstanceLock).
THEOREM LockFollowed == Spec => []Inv
<1> QED  BY InitInv, NextInv, PTL DEF Spec

\* One daemon lives, the lock file names it, and while it serves the socket file
\* is the one it bound, whatever processes are started, refused, forked or killed
\* beside it (lock.rs: acquire, write_current_pid; main.rs: run).
THEOREM OneDaemonLives == Spec => []OneDaemon
<1>1. Inv => OneDaemon
  BY DEF Inv, Single, Active, Owned, Recorded, OneDaemon, Running, Working
<1> QED  BY <1>1, LockFollowed, PTL

-----------------------------------------------------------------------------
(* The first and the last of a set of positions.                           *)

LEMMA HasMin ==
    ASSUME NEW T \in SUBSET Nat, T # {}
    PROVE  \E m \in T : \A i \in T : m <= i
<1> DEFINE R == OpToRel(<, Nat)
<1>1. IsWellFoundedOn(R, Nat)
  BY NatLessThanWellFounded
<1>2. \A x, y \in Nat : x < y => <<x, y>> \in R
  BY DEF OpToRel
<1> HIDE DEF R
<1>3. PICK x \in T : \A y \in T : ~ (<<y, x>> \in R)
  BY <1>1, WFMin
<1>4. ASSUME NEW y \in T PROVE x <= y
  <2>1. ~ (y < x)
    BY <1>2, <1>3
  <2> QED  BY <2>1
<1> QED  BY <1>4

LEMMA HasMax ==
    ASSUME NEW n \in Nat, NEW S \in SUBSET (1..n), S # {}
    PROVE  \E m \in S : \A i \in S : i <= m
<1> DEFINE T == {n - i : i \in S}
<1>1. T \in SUBSET Nat
  <2>1. \A i \in S : n - i \in Nat
    OBVIOUS
  <2> QED  BY <2>1
<1>2. T # {} /\ (\A i \in S : n - i \in T) /\ \A t \in T : \E i \in S : t = n - i
  OBVIOUS
<1> HIDE DEF T
<1>3. PICK m \in T : \A i \in T : m <= i
  BY <1>1, <1>2, HasMin
<1>4. PICK k \in S : m = n - k
  BY <1>2
<1>5. ASSUME NEW i \in S PROVE i <= k
  <2>1. m <= n - i
    BY <1>2, <1>3
  <2> QED  BY <1>4, <2>1
<1> QED  BY <1>5

LEMMA Ends ==
    ASSUME NEW n \in Nat, NEW S \in SUBSET (1..n), S # {}
    PROVE  /\ Max(S) \in S /\ \A i \in S : i <= Max(S)
           /\ Min(S) \in S /\ \A i \in S : Min(S) <= i
<1>1. \E m \in S : \A i \in S : m >= i
  BY HasMax
<1>2. Max(S) \in S /\ \A i \in S : Max(S) >= i
  BY <1>1 DEF Max
<1>3. \E m \in S : \A i \in S : m <= i
  <2>1. S \in SUBSET Nat
    OBVIOUS
  <2> QED  BY <2>1, HasMin
<1>4. Min(S) \in S /\ \A i \in S : Min(S) <= i
  BY <1>3 DEF Min
<1> QED  BY <1>2, <1>4

\* A position after all of them.
LEMMA EndsGrow ==
    ASSUME NEW n \in Nat \ {0}, NEW S \in SUBSET (1..n - 1)
    PROVE  /\ Max(S \cup {n}) = n
           /\ Min(S \cup {n}) = IF S = {} THEN n ELSE Min(S)
           /\ IsFiniteSet(S) /\ Cardinality(S) \in Nat
           /\ Cardinality(S \cup {n}) = Cardinality(S) + 1
           /\ S = {} => Cardinality(S) = 0
<1> DEFINE T == S \cup {n}
<1>1. T \in SUBSET (1..n) /\ T # {} /\ n \in T /\ S \subseteq T /\ n \notin S
  OBVIOUS
<1>2. Max(T) \in T /\ n <= Max(T) /\ Min(T) \in T /\ \A i \in T : Min(T) <= i
  BY <1>1, Ends
<1>3. Max(T) = n
  <2>1. Max(T) \in 1..n
    BY <1>1, <1>2
  <2> QED  BY <1>2, <2>1
<1>4. ASSUME S # {} PROVE Min(T) = Min(S)
  <2>1. n - 1 \in Nat
    OBVIOUS
  <2>2. Min(S) \in S /\ \A i \in S : Min(S) <= i
    BY <1>4, <2>1, Ends
  <2>3. Min(T) <= Min(S)
    BY <1>1, <1>2, <2>2
  <2>4. Min(S) \in Nat /\ Min(S) < n /\ Min(T) \in Nat
    <3>1. \A i \in S : i \in Nat /\ i < n
      OBVIOUS
    <3>2. Min(T) \in 1..n
      BY <1>1, <1>2
    <3>3. Min(S) \in Nat /\ Min(S) < n
      BY <2>2, <3>1
    <3>4. Min(T) \in Nat
      BY <3>2
    <3> QED  BY <3>3, <3>4
  <2>5. Min(T) \in S
    BY <1>2, <2>3, <2>4
  <2>6. Min(S) <= Min(T)
    BY <2>2, <2>5
  <2> QED  BY <2>3, <2>4, <2>6
<1>5. S = {} => Min(T) = n
  BY <1>2
<1>6. IsFiniteSet(1..n - 1)
  BY FS_Interval
<1>7. IsFiniteSet(S)
  BY <1>6, FS_Subset
<1>8. Cardinality(S) \in Nat /\ Cardinality(T) = Cardinality(S) + 1
  BY <1>1, <1>7, FS_AddElement, FS_CardinalityType
<1>9. S = {} => Cardinality(S) = 0
  BY FS_EmptySet
<1> QED  BY <1>3, <1>4, <1>5, <1>7, <1>8, <1>9

-----------------------------------------------------------------------------
(* What one more sighting says.                                            *)

Mine(l, k, I) == {i \in I : l[i].key = k}
Placed(l, k, I) == {i \in Mine(l, k, I) : l[i].pos # NoPosition}

LEMMA SaysOf ==
    ASSUME NEW l, NEW k, NEW I
    PROVE  Says(l, k, I) =
             [name |-> l[Max(Mine(l, k, I))].name, type |-> l[Max(Mine(l, k, I))].type,
              pos |-> IF Placed(l, k, I) = {} THEN NoPosition ELSE l[Max(Placed(l, k, I))].pos,
              signal |-> l[Max(Mine(l, k, I))].signal, first |-> Min(Mine(l, k, I)),
              last |-> Max(Mine(l, k, I)), count |-> Cardinality(Mine(l, k, I))]
BY DEF Says, Mine, Placed

\* The positions in I come before n, and the list m agrees with l on them.
Extends(l, m, I, n) ==
    n \in Nat \ {0} /\ I \in SUBSET (1..n - 1) /\ \A i \in I : m[i] = l[i]

\* The same sightings in a longer list.
LEMMA SaysSame ==
    ASSUME NEW l, NEW m, NEW I, NEW n, Extends(l, m, I, n), NEW k, Mine(l, k, I) # {}
    PROVE  Says(m, k, I) = Says(l, k, I)
<1>1. n - 1 \in Nat /\ I \in SUBSET (1..n - 1) /\ \A i \in I : m[i] = l[i]
  BY DEF Extends
<1>2. /\ Mine(m, k, I) = Mine(l, k, I) /\ Mine(l, k, I) \in SUBSET (1..n - 1)
      /\ Mine(l, k, I) \subseteq I
  BY <1>1 DEF Mine
<1>3. /\ Placed(m, k, I) = Placed(l, k, I) /\ Placed(l, k, I) \in SUBSET (1..n - 1)
      /\ Placed(l, k, I) \subseteq I
  BY <1>1, <1>2 DEF Placed
<1>4. Max(Mine(l, k, I)) \in I
  BY <1>1, <1>2, Ends
<1>5. Placed(l, k, I) # {} => Max(Placed(l, k, I)) \in I
  BY <1>1, <1>3, Ends
<1> QED  BY <1>1, <1>2, <1>3, <1>4, <1>5, SaysOf

\* One more, of the key k or of another.
LEMMA SaysMore ==
    ASSUME NEW l, NEW m, NEW I, NEW n, Extends(l, m, I, n), NEW k, NEW J, J = I \cup {n}
    PROVE  /\ m[n].key # k => /\ Mine(m, k, J) = Mine(l, k, I)
                              /\ Mine(l, k, I) # {} => Says(m, k, J) = Says(l, k, I)
           /\ m[n].key = k =>
                Says(m, k, J) = IF Mine(l, k, I) = {} THEN InsertRow(m[n], n)
                                ELSE UpdateRow(Says(l, k, I), m[n], n)
<1>1. n \in Nat \ {0} /\ n - 1 \in Nat /\ I \in SUBSET (1..n - 1) /\ \A i \in I : m[i] = l[i]
  <2>1. n \in Nat \ {0} /\ I \in SUBSET (1..n - 1) /\ \A i \in I : m[i] = l[i]
    BY DEF Extends
  <2>2. n - 1 \in Nat
    BY <2>1
  <2> QED  BY <2>1, <2>2
<1>2. /\ Mine(m, k, I) = Mine(l, k, I) /\ Placed(m, k, I) = Placed(l, k, I)
      /\ Mine(l, k, I) \in SUBSET (1..n - 1) /\ Placed(l, k, I) \in SUBSET (1..n - 1)
      /\ Placed(l, k, I) \subseteq Mine(l, k, I) /\ Mine(l, k, I) \subseteq I
  <2>1. Mine(m, k, I) = Mine(l, k, I) /\ Mine(l, k, I) \subseteq I
    BY <1>1 DEF Mine
  <2>2. Placed(m, k, I) = Placed(l, k, I) /\ Placed(l, k, I) \subseteq Mine(l, k, I)
    BY <1>1, <2>1 DEF Mine, Placed
  <2> QED  BY <1>1, <2>1, <2>2
<1>3. ASSUME m[n].key # k
      PROVE  /\ Mine(m, k, J) = Mine(l, k, I)
             /\ Mine(l, k, I) # {} => Says(m, k, J) = Says(l, k, I)
  <2>1. Mine(m, k, J) = Mine(m, k, I)
    BY <1>3 DEF Mine
  <2>2. Placed(m, k, J) = Placed(m, k, I)
    BY <2>1 DEF Placed
  <2>3. Says(m, k, J) = Says(m, k, I)
    BY <2>1, <2>2, SaysOf
  <2> QED  BY <1>2, <2>1, <2>3, SaysSame
<1>4. ASSUME m[n].key = k
      PROVE  Says(m, k, J) = IF Mine(l, k, I) = {} THEN InsertRow(m[n], n)
                             ELSE UpdateRow(Says(l, k, I), m[n], n)
  <2>1. Mine(m, k, J) = Mine(l, k, I) \cup {n}
    BY <1>2, <1>4 DEF Mine
  <2>2. Placed(m, k, J) = IF m[n].pos = NoPosition THEN Placed(l, k, I)
                          ELSE Placed(l, k, I) \cup {n}
    <3>1. Placed(m, k, J) = {i \in Mine(l, k, I) \cup {n} : m[i].pos # NoPosition}
      BY <2>1 DEF Placed
    <3>2. Placed(l, k, I) = {i \in Mine(l, k, I) : m[i].pos # NoPosition}
      BY <1>2 DEF Placed
    <3> QED  BY <3>1, <3>2
  <2>3. /\ Max(Mine(m, k, J)) = n
        /\ Min(Mine(m, k, J)) = IF Mine(l, k, I) = {} THEN n ELSE Min(Mine(l, k, I))
        /\ Cardinality(Mine(m, k, J)) = Cardinality(Mine(l, k, I)) + 1
        /\ Mine(l, k, I) = {} => Cardinality(Mine(l, k, I)) = 0
    <3>1. PICK S \in SUBSET (1..n - 1) : S = Mine(l, k, I)
      BY <1>2
    <3>2. /\ Max(S \cup {n}) = n /\ Min(S \cup {n}) = IF S = {} THEN n ELSE Min(S)
          /\ Cardinality(S \cup {n}) = Cardinality(S) + 1 /\ (S = {} => Cardinality(S) = 0)
      BY <1>1, EndsGrow
    <3> QED  BY <2>1, <3>1, <3>2
  <2>4. m[n].pos # NoPosition => Max(Placed(m, k, J)) = n
    BY <1>1, <1>2, <2>2, EndsGrow
  <2>5. Placed(l, k, I) # {} => m[Max(Placed(l, k, I))] = l[Max(Placed(l, k, I))]
    <3>1. ASSUME Placed(l, k, I) # {} PROVE Max(Placed(l, k, I)) \in I
      BY <1>1, <1>2, <3>1, Ends
    <3> QED  BY <1>1, <3>1
  <2> DEFINE oldPos == IF Placed(l, k, I) = {} THEN NoPosition ELSE l[Max(Placed(l, k, I))].pos
             newPos == IF Placed(m, k, J) = {} THEN NoPosition ELSE m[Max(Placed(m, k, J))].pos
  <2>6. newPos = Coalesce(m[n].pos, oldPos)
    BY <2>2, <2>4, <2>5 DEF Coalesce
  <2>7. Says(m, k, J) =
          [name |-> m[n].name, type |-> m[n].type, pos |-> newPos, signal |-> m[n].signal,
           first |-> IF Mine(l, k, I) = {} THEN n ELSE Min(Mine(l, k, I)), last |-> n,
           count |-> Cardinality(Mine(l, k, I)) + 1]
    BY <2>3, SaysOf
  <2>8. CASE Mine(l, k, I) = {}
    <3>1. oldPos = NoPosition
      BY <1>2, <2>8
    <3>2. newPos = m[n].pos
      BY <2>6, <3>1 DEF Coalesce
    <3> QED  BY <2>3, <2>7, <2>8, <3>2 DEF InsertRow
  <2>9. CASE Mine(l, k, I) # {}
    <3>1. /\ Says(l, k, I).pos = oldPos /\ Says(l, k, I).first = Min(Mine(l, k, I))
          /\ Says(l, k, I).count = Cardinality(Mine(l, k, I))
      BY SaysOf
    <3> QED  BY <2>6, <2>7, <2>9, <3>1 DEF UpdateRow
  <2> QED  BY <2>8, <2>9
<1> QED  BY <1>3, <1>4

-----------------------------------------------------------------------------
(* The table, the mirrors and the announcements.                           *)

\* What a sighting is recorded as.
Recording(s, w) == [key |-> s.key, name |-> s.name, type |-> s.type, pos |-> s.pos,
                    signal |-> s.signal, written |-> w]
Recordings == {Recording(s, w) : s \in Sightings, w \in BOOLEAN}

\* The sightings the mirror of p has, all that count but one still pending.
Mirrored(p) == {i \in SeenBy(p) : pending[p] = NoSighting \/ i # Len(log)}

TableSays ==
    /\ DOMAIN table = {log[i].key : i \in Written}
    /\ \A k \in DOMAIN table : table[k] = Says(log, k, Written)
MirrorSays(p) ==
    /\ DOMAIN mirror[p] = {PrefixOf(log[i].key) : i \in Mirrored(p)}
    /\ \A k \in Keys : Alone(k) /\ PrefixOf(k) \in DOMAIN mirror[p] =>
          mirror[p][PrefixOf(k)] = Shown(k, Says(log, k, Mirrored(p)))

\* A pending sighting is the last of the log, and the process has it from nobody.
PendingLast(p) ==
    /\ phase[p] \in Working /\ opened[p] < Len(log)
    /\ \E w \in BOOLEAN : log[Len(log)] = Recording(pending[p], w)

\* A key is announced at most once for each sighting of it that was mirrored, and at
\* most once more than its writes failed.
Heeded(k) == {i \in DOMAIN log : log[i].key = k /\
                 (i # Len(log) \/ \A p \in Pids : pending[p] = NoSighting)}
Failed(k) == {i \in DOMAIN log : log[i].key = k /\ ~ log[i].written}

StoreTypes ==
    /\ log \in Seq(Recordings)
    /\ mirror = [p \in Pids |-> mirror[p]]
    /\ pending \in [Pids -> Sightings \cup {NoSighting}]
    /\ opened \in [Pids -> Nat] /\ \A p \in Pids : opened[p] <= Len(log)
    /\ announced \in [Keys -> Nat]
Mirrors ==
    /\ \A p \in Pids : pending[p] # NoSighting => PendingLast(p)
    /\ \A p \in Running : MirrorSays(p)
Announcements ==
    \A k \in Keys : /\ announced[k] <= Cardinality(Heeded(k))
                    /\ announced[k] <= 1 + Cardinality(Failed(k))

StoreInv == StoreTypes /\ TableSays /\ Mirrors /\ Announcements

LEMMA LogFacts ==
    ASSUME StoreTypes
    PROVE  /\ Len(log) \in Nat /\ DOMAIN log = 1..Len(log)
           /\ \A i \in DOMAIN log : /\ log[i] \in Recordings /\ log[i].key \in Keys
                                    /\ log[i].written \in BOOLEAN
<1>1. Len(log) \in Nat /\ DOMAIN log = 1..Len(log) /\ \A i \in DOMAIN log : log[i] \in Recordings
  BY DEF StoreTypes
<1>2. \A e \in Recordings : e.key \in Keys /\ e.written \in BOOLEAN
  BY DEF Recordings, Recording, Keys
<1> QED  BY <1>1, <1>2

\* A key with a prefix of its own is the only one with it.
LEMMA AloneKey ==
    ASSUME NEW k, Alone(k), NEW e \in Keys, PrefixOf(e) = PrefixOf(k)
    PROVE  e = k
BY DEF Alone, Keys

\* Where a mirror has an entry with such a prefix there is a sighting of the key.
LEMMA MirrorHas ==
    ASSUME StoreTypes, NEW S \in SUBSET DOMAIN log, NEW k, Alone(k),
           PrefixOf(k) \in {PrefixOf(log[i].key) : i \in S}
    PROVE  Mine(log, k, S) # {}
<1>1. PICK i \in S : PrefixOf(log[i].key) = PrefixOf(k)
  OBVIOUS
<1>2. log[i].key = k
  BY <1>1, LogFacts, AloneKey
<1> QED  BY <1>2 DEF Mine

LEMMA RunningOne ==
    ASSUME Inv, NEW p \in Running, NEW q \in Running
    PROVE  p = q
BY DEF Inv, Single, Active, Running, Working

\* Who has a sighting pending runs, alone.
LEMMA NobodyElse ==
    ASSUME Inv, StoreInv, NEW p \in Running, pending[p] = NoSighting
    PROVE  \A q \in Pids : pending[q] = NoSighting
<1>1. \A q \in Pids : pending[q] # NoSighting => q \in Running
  BY DEF StoreInv, Mirrors, PendingLast, Running
<1> QED  BY <1>1, RunningOne

LEMMA CountFacts ==
    ASSUME StoreTypes, NEW k
    PROVE  /\ IsFiniteSet(Heeded(k)) /\ Cardinality(Heeded(k)) \in Nat
           /\ IsFiniteSet(Failed(k)) /\ Cardinality(Failed(k)) \in Nat
           /\ Heeded(k) \subseteq 1..Len(log) /\ Failed(k) \subseteq 1..Len(log)
<1>1. Len(log) \in Nat /\ DOMAIN log = 1..Len(log)
  BY LogFacts
<1>2. IsFiniteSet(1..Len(log))
  BY <1>1, FS_Interval
<1>3. Heeded(k) \subseteq 1..Len(log) /\ Failed(k) \subseteq 1..Len(log)
  BY <1>1 DEF Heeded, Failed
<1>4. IsFiniteSet(Heeded(k)) /\ IsFiniteSet(Failed(k))
  BY <1>2, <1>3, FS_Subset
<1> QED  BY <1>3, <1>4, FS_CardinalityType

\* What the lock and the socket do leaves the table and the mirrors.
LEMMA StoreKept ==
    ASSUME StoreInv, UNCHANGED Heard, Running' = Running
    PROVE  StoreInv'
<1>1. UNCHANGED <<table, mirror, pending, announced, log, opened>>
  BY DEF Heard
<1>2. StoreTypes'
  BY <1>1 DEF StoreInv, StoreTypes
<1>3. Written' = Written /\ \A p : SeenBy(p)' = SeenBy(p) /\ Mirrored(p)' = Mirrored(p)
  BY <1>1 DEF Written, SeenBy, Mirrored
<1>4. TableSays'
  BY <1>1, <1>3 DEF StoreInv, TableSays
<1>5. \A p \in Pids : PendingLast(p) => PendingLast(p)'
  BY <1>1 DEF PendingLast, Running
<1>6. \A p : MirrorSays(p) => MirrorSays(p)'
  BY <1>1, <1>3 DEF MirrorSays
<1>7. Mirrors'
  BY <1>1, <1>5, <1>6 DEF StoreInv, Mirrors
<1>8. Announcements'
  BY <1>1 DEF StoreInv, Announcements, Heeded, Failed
<1> QED  BY <1>2, <1>4, <1>7, <1>8 DEF StoreInv

\* A process that opens the table has what its rows say (repeater_db.rs: load_all).
LEMMA OpenStep ==
    ASSUME Inv, StoreInv, NEW p \in Pids, OpenStore(p)
    PROVE  StoreInv'
<1>1. /\ phase[p] = "ready" /\ phase' = [phase EXCEPT ![p] = "open"]
      /\ opened' = [opened EXCEPT ![p] = Len(log)]
      /\ UNCHANGED <<table, pending, announced, log>>
  BY DEF OpenStore, files
<1>2. PICK m \in Loads(table) : mirror' = [mirror EXCEPT ![p] = m]
  BY DEF OpenStore
<1>3. /\ StoreTypes /\ TableSays /\ Mirrors /\ Announcements /\ Len(log) \in Nat
      /\ DOMAIN log = 1..Len(log)
  BY LogFacts DEF StoreInv
<1>4. StoreTypes'
  <2>1. mirror' = [q \in Pids |-> mirror'[q]]
    BY <1>2, <1>3 DEF StoreTypes
  <2>2. pending' \in [Pids -> Sightings \cup {NoSighting}]
    BY <1>1, <1>3 DEF StoreTypes
  <2>3. opened' \in [Pids -> Nat] /\ \A q \in Pids : opened'[q] <= Len(log)
    BY <1>1, <1>3 DEF StoreTypes
  <2> QED  BY <1>1, <1>3, <2>1, <2>2, <2>3 DEF StoreTypes
<1>5. Running' = {p}
  <2>1. \A q \in Pids : phase[q] \in Working => FALSE
    BY <1>1 DEF Inv, Single, Active, Working
  <2> QED  BY <1>1, <2>1 DEF Running, Inv, Types, Working
<1>6. \A q \in Pids : pending[q] = NoSighting
  <2>1. \A q \in Pids : phase[q] \notin Working
    BY <1>1 DEF Inv, Single, Active, Working
  <2> QED  BY <1>3, <2>1 DEF Mirrors, PendingLast
<1>7. Mirrored(p)' = Written
  <2>1. opened'[p] = Len(log) /\ pending'[p] = NoSighting
    BY <1>1, <1>3, <1>6 DEF StoreTypes
  <2> QED  BY <1>1, <1>3, <2>1 DEF Mirrored, SeenBy, Written
<1>8. TableSays'
  BY <1>1, <1>3 DEF TableSays, Written
<1>9. mirror'[p] = m
  BY <1>2, <1>3 DEF StoreTypes
<1>10. MirrorSays(p)'
  <2> DEFINE prefixes == {PrefixOf(k) : k \in DOMAIN table}
  <2>1. PICK pick \in [prefixes -> DOMAIN table] :
          /\ \A x \in prefixes : PrefixOf(pick[x]) = x
          /\ m = [x \in prefixes |-> Shown(pick[x], table[pick[x]])]
    BY <1>2 DEF Loads
  <2>2. DOMAIN m = {PrefixOf(log[i].key) : i \in Written}
    BY <1>3, <2>1 DEF TableSays
  <2>3. ASSUME NEW k \in Keys, Alone(k), PrefixOf(k) \in DOMAIN m
        PROVE  m[PrefixOf(k)] = Shown(k, Says(log, k, Written))
    <3>1. PrefixOf(k) \in prefixes
      BY <2>1, <2>3
    <3>2. pick[PrefixOf(k)] \in DOMAIN table /\ PrefixOf(pick[PrefixOf(k)]) = PrefixOf(k)
      BY <2>1, <3>1
    <3>3. DOMAIN table \subseteq Keys
      BY <1>3, LogFacts DEF TableSays, Written
    <3>4. pick[PrefixOf(k)] = k
      BY <2>3, <3>2, <3>3, AloneKey
    <3> QED  BY <1>3, <2>1, <3>1, <3>2, <3>4 DEF TableSays
  <2> QED  BY <1>1, <1>7, <1>9, <2>2, <2>3 DEF MirrorSays
<1>11. Mirrors'
  BY <1>1, <1>5, <1>6, <1>10 DEF Mirrors
<1>12. Announcements'
  BY <1>1, <1>3 DEF Announcements, Heeded, Failed
<1> QED  BY <1>4, <1>8, <1>11, <1>12 DEF StoreInv

\* What dies with a process is its mirror and what it had not mirrored.
LEMMA ExitStep ==
    ASSUME Inv, StoreInv, NEW p \in Pids, Exit(p)
    PROVE  StoreInv'
<1>1. /\ phase' = [phase EXCEPT ![p] = "none"] /\ mirror' = [mirror EXCEPT ![p] = <<>>]
      /\ pending' = [pending EXCEPT ![p] = NoSighting] /\ opened' = [opened EXCEPT ![p] = 0]
      /\ UNCHANGED <<table, announced, log>>
  BY DEF Exit, files
<1>2. /\ StoreTypes /\ TableSays /\ Mirrors /\ Announcements /\ Len(log) \in Nat
  BY LogFacts DEF StoreInv
<1>3. StoreTypes'
  <2>1. mirror' = [q \in Pids |-> mirror'[q]]
    BY <1>1, <1>2 DEF StoreTypes
  <2>2. pending' \in [Pids -> Sightings \cup {NoSighting}]
    BY <1>1, <1>2 DEF StoreTypes
  <2>3. opened' \in [Pids -> Nat] /\ \A q \in Pids : opened'[q] <= Len(log)
    BY <1>1, <1>2 DEF StoreTypes
  <2> QED  BY <1>1, <1>2, <2>1, <2>2, <2>3 DEF StoreTypes
<1>4. TableSays'
  BY <1>1, <1>2 DEF TableSays, Written
<1>5. \A q \in Pids : q # p => /\ phase'[q] = phase[q] /\ mirror'[q] = mirror[q]
                               /\ pending'[q] = pending[q] /\ opened'[q] = opened[q]
  BY <1>1, <1>2 DEF StoreTypes, Inv, Types
<1>6. phase'[p] = "none" /\ pending'[p] = NoSighting
  BY <1>1, <1>2 DEF StoreTypes, Inv, Types
<1>7. Mirrors'
  <2>1. ASSUME NEW q \in Pids, pending'[q] # NoSighting PROVE PendingLast(q)'
    <3>1. q # p
      BY <1>6, <2>1
    <3>2. PendingLast(q)
      BY <1>2, <1>5, <2>1, <3>1 DEF Mirrors
    <3> QED  BY <1>1, <1>5, <3>1, <3>2 DEF PendingLast
  <2>2. ASSUME NEW q \in Running' PROVE MirrorSays(q)'
    <3>1. q \in Pids /\ q # p
      BY <1>6, <2>2 DEF Running, Working
    <3>2. q \in Running
      BY <1>5, <2>2, <3>1 DEF Running
    <3>3. MirrorSays(q)
      BY <1>2, <3>2 DEF Mirrors
    <3>4. Mirrored(q)' = Mirrored(q)
      BY <1>1, <1>5, <3>1 DEF Mirrored, SeenBy
    <3> QED  BY <1>1, <1>5, <3>1, <3>3, <3>4 DEF MirrorSays
  <2> QED  BY <2>1, <2>2 DEF Mirrors
<1>8. ASSUME NEW k \in Keys
      PROVE  /\ announced'[k] <= Cardinality(Heeded(k))' /\ announced'[k] <= 1 + Cardinality(Failed(k))'
  <2>1. Failed(k)' = Failed(k)
    BY <1>1 DEF Failed
  <2>2. Heeded(k) \subseteq Heeded(k)'
    BY <1>1, <1>5, <1>6 DEF Heeded
  <2>3. IsFiniteSet(Heeded(k)')
    <3>1. DOMAIN log = 1..Len(log)
      BY <1>2, LogFacts
    <3>2. Heeded(k)' \subseteq DOMAIN log
      BY <1>1 DEF Heeded
    <3>3. IsFiniteSet(1..Len(log))
      BY <1>2, FS_Interval
    <3> QED  BY <3>1, <3>2, <3>3, FS_Subset
  <2>4. /\ Cardinality(Heeded(k)) <= Cardinality(Heeded(k)')
        /\ Cardinality(Heeded(k)) \in Nat /\ Cardinality(Heeded(k)') \in Nat
    BY <1>2, <2>2, <2>3, CountFacts, FS_Subset, FS_CardinalityType
  <2>5. announced[k] \in Nat
    BY <1>2 DEF StoreTypes
  <2> QED  BY <1>1, <1>2, <2>1, <2>4, <2>5 DEF Announcements
<1> QED  BY <1>3, <1>4, <1>7, <1>8 DEF StoreInv, Announcements

\* A sighting is written: the table says it, the mirror not yet.
LEMMA WriteStep ==
    ASSUME Inv, StoreInv, NEW p \in Pids, NEW s \in Sightings, WriteSighting(p, s)
    PROVE  StoreInv'
<1> DEFINE n == Len(log) + 1
<1>1. /\ phase[p] \in Working /\ pending[p] = NoSighting
      /\ pending' = [pending EXCEPT ![p] = s] /\ UNCHANGED <<phase, mirror, announced, opened>>
  BY DEF WriteSighting
<1>2. PICK w \in BOOLEAN : /\ log' = Append(log, Recording(s, w))
                           /\ table' = IF w THEN Upsert(table, s, n) ELSE table
  BY DEF WriteSighting, Recording
<1>3. /\ StoreTypes /\ TableSays /\ Mirrors /\ Announcements /\ Len(log) \in Nat
      /\ DOMAIN log = 1..Len(log)
  BY LogFacts DEF StoreInv
<1>4. /\ Recording(s, w) \in Recordings /\ s # NoSighting /\ s.key \in Keys
      /\ Recording(s, w).key = s.key /\ Recording(s, w).written = w
  BY SightingsAssumption DEF Recordings, Recording, Keys
<1>5. /\ n \in Nat \ {0} /\ Len(log) = n - 1 /\ Len(log') = n /\ log'[n] = Recording(s, w)
      /\ DOMAIN log' = 1..n /\ log' \in Seq(Recordings)
      /\ \A i \in 1..n - 1 : log'[i] = log[i]
  BY <1>2, <1>3, <1>4 DEF StoreTypes
<1> HIDE DEF n
<1>6. pending'[p] = s /\ \A q \in Pids : q # p => pending'[q] = NoSighting
  <2>1. p \in Running
    BY <1>1 DEF Running
  <2>2. \A q \in Pids : pending[q] = NoSighting
    BY <1>1, <2>1, NobodyElse
  <2> QED  BY <1>1, <1>3, <2>2 DEF StoreTypes
<1>7. StoreTypes'
  <2>1. pending' \in [Pids -> Sightings \cup {NoSighting}]
    BY <1>1, <1>3 DEF StoreTypes
  <2>2. mirror' = [q \in Pids |-> mirror'[q]] /\ opened' \in [Pids -> Nat]
          /\ announced' \in [Keys -> Nat]
    BY <1>1, <1>3 DEF StoreTypes
  <2>3. \A q \in Pids : opened'[q] <= Len(log')
    BY <1>1, <1>3, <1>5 DEF StoreTypes
  <2> QED  BY <1>5, <2>1, <2>2, <2>3 DEF StoreTypes
<1>8. Written' = (IF w THEN Written \cup {n} ELSE Written) /\ Written \subseteq 1..n - 1
  <2>1. Written \subseteq 1..n - 1
    BY <1>3, <1>5 DEF Written
  <2>2. \A i \in 1..n : i \in Written' <=> (IF i = n THEN w ELSE i \in Written)
    BY <1>3, <1>4, <1>5 DEF Written
  <2>3. Written' \subseteq 1..n
    BY <1>5 DEF Written
  <2>4. n \in 1..n /\ n \notin Written /\ Written \subseteq 1..n
    BY <1>5, <2>1
  <2>5. CASE w
    BY <2>1, <2>2, <2>3, <2>4, <2>5
  <2>6. CASE ~ w
    BY <2>1, <2>2, <2>3, <2>4, <2>6
  <2> QED  BY <2>5, <2>6
<1>9. Extends(log, log', Written, n)
  BY <1>5, <1>8 DEF Extends
<1>10. TableSays'
  <2>1. /\ DOMAIN table = {log[i].key : i \in Written}
        /\ \A k \in DOMAIN table : table[k] = Says(log, k, Written) /\ Mine(log, k, Written) # {}
    BY <1>3 DEF TableSays, Mine
  <2>2. CASE ~ w
    <3>1. \A i \in Written : log'[i] = log[i]
      BY <1>5, <1>8
    <3>2. table' = table /\ Written' = Written
      BY <1>2, <1>8, <2>2
    <3>3. \A k \in DOMAIN table : table[k] = Says(log', k, Written)
      BY <1>9, <2>1, SaysSame
    <3> QED  BY <2>1, <3>1, <3>2, <3>3 DEF TableSays
  <2>3. CASE w
    <3>1. table' = Upsert(table, s, n) /\ Written' = Written \cup {n}
      BY <1>2, <1>8, <2>3
    <3>2. DOMAIN table' = {log'[i].key : i \in Written'}
      <4>1. DOMAIN table' = DOMAIN table \cup {s.key}
        BY <3>1 DEF Upsert
      <4>2. \A i \in Written : log'[i].key = log[i].key
        BY <1>5, <1>8
      <4> QED  BY <1>4, <1>5, <2>1, <3>1, <4>1, <4>2
    <3>3. ASSUME NEW k \in DOMAIN table, k # s.key PROVE table'[k] = Says(log', k, Written')
      <4>1. table'[k] = table[k]
        BY <3>1, <3>3 DEF Upsert
      <4> QED  BY <1>4, <1>5, <1>9, <2>1, <3>1, <3>3, <4>1, SaysMore
    <3>4. /\ \A row : UpdateRow(row, Recording(s, w), n) = UpdateRow(row, s, n)
          /\ InsertRow(Recording(s, w), n) = InsertRow(s, n)
      BY DEF UpdateRow, InsertRow, Recording
    <3>5. table'[s.key] = Says(log', s.key, Written')
      <4>1. table'[s.key] = IF s.key \in DOMAIN table THEN UpdateRow(table[s.key], s, n)
                            ELSE InsertRow(s, n)
        BY <3>1 DEF Upsert
      <4>2. s.key \notin DOMAIN table => Mine(log, s.key, Written) = {}
        BY <2>1 DEF Mine
      <4>3. Says(log', s.key, Written') =
              IF Mine(log, s.key, Written) = {} THEN InsertRow(log'[n], n)
              ELSE UpdateRow(Says(log, s.key, Written), log'[n], n)
        BY <1>4, <1>5, <1>9, <3>1, SaysMore
      <4> QED  BY <1>5, <2>1, <3>4, <4>1, <4>2, <4>3
    <3>6. DOMAIN table' = DOMAIN table \cup {s.key}
      BY <3>1 DEF Upsert
    <3> QED  BY <3>2, <3>3, <3>5, <3>6 DEF TableSays
  <2> QED  BY <2>2, <2>3
<1>11. Mirrors'
  <2>1. PendingLast(p)'
    <3>1. opened'[p] < Len(log')
      BY <1>1, <1>3, <1>5 DEF StoreTypes
    <3> QED  BY <1>1, <1>5, <1>6, <3>1 DEF PendingLast
  <2>2. ASSUME NEW q \in Running' PROVE q = p
    BY <1>1, <2>2, RunningOne DEF Running
  <2>3. Mirrored(p)' = Mirrored(p) /\ Mirrored(p) \subseteq 1..n - 1
    <3>1. Mirrored(p) = SeenBy(p) /\ SeenBy(p) \subseteq 1..n - 1
      BY <1>1, <1>3, <1>5 DEF Mirrored, SeenBy
    <3>2. \A i \in 1..n - 1 : i \in SeenBy(p)' <=> i \in SeenBy(p)
      BY <1>1, <1>3, <1>5 DEF SeenBy
    <3>3. SeenBy(p)' \subseteq 1..n
      BY <1>5 DEF SeenBy
    <3>4. Mirrored(p)' = SeenBy(p)' \ {n}
      BY <1>4, <1>5, <1>6 DEF Mirrored
    <3> QED  BY <1>5, <3>1, <3>2, <3>3, <3>4
  <2>4. Extends(log, log', Mirrored(p), n)
    BY <1>5, <2>3 DEF Extends
  <2>5. MirrorSays(p)
    BY <1>1, <1>3 DEF Mirrors, Running
  <2>6. {PrefixOf(log'[i].key) : i \in Mirrored(p)} = {PrefixOf(log[i].key) : i \in Mirrored(p)}
    BY <2>4 DEF Extends
  <2>7. ASSUME NEW k \in Keys, Alone(k), PrefixOf(k) \in DOMAIN mirror[p]
        PROVE  mirror[p][PrefixOf(k)] = Shown(k, Says(log', k, Mirrored(p)))
    <3>1. Mine(log, k, Mirrored(p)) # {}
      BY <1>3, <1>5, <2>3, <2>5, <2>7, MirrorHas DEF MirrorSays
    <3>2. Says(log', k, Mirrored(p)) = Says(log, k, Mirrored(p))
      BY <2>4, <3>1, SaysSame
    <3> QED  BY <2>5, <2>7, <3>2 DEF MirrorSays
  <2>8. MirrorSays(p)'
    BY <1>1, <2>3, <2>5, <2>6, <2>7 DEF MirrorSays
  <2> QED  BY <1>6, <2>1, <2>2, <2>8 DEF Mirrors
<1>12. ASSUME NEW k \in Keys
       PROVE  /\ announced'[k] <= Cardinality(Heeded(k)') /\ announced'[k] <= 1 + Cardinality(Failed(k)')
  <2>1. Heeded(k) \subseteq Heeded(k)' /\ Failed(k) \subseteq Failed(k)'
    <3>1. /\ Heeded(k)' = {i \in 1..n : log'[i].key = k /\ (i # n \/ \A q \in Pids : pending'[q] = NoSighting)}
          /\ Failed(k)' = {i \in 1..n : log'[i].key = k /\ ~ log'[i].written}
      BY <1>5 DEF Heeded, Failed
    <3>2. Heeded(k) \subseteq 1..n - 1 /\ Failed(k) \subseteq 1..n - 1
      BY <1>3, <1>5, CountFacts
    <3>3. /\ \A i \in Heeded(k) : i # n /\ i \in 1..n /\ log'[i].key = k
          /\ \A i \in Failed(k) : i \in 1..n /\ log'[i].key = k /\ ~ log'[i].written
      <4>1. \A i \in 1..n - 1 : i # n /\ i \in 1..n
        BY <1>5
      <4>2. /\ \A i \in Heeded(k) : log[i].key = k
            /\ \A i \in Failed(k) : log[i].key = k /\ ~ log[i].written
        BY DEF Heeded, Failed
      <4> QED  BY <1>5, <3>2, <4>1, <4>2
    <3> QED  BY <3>1, <3>3
  <2>2. IsFiniteSet(Heeded(k)') /\ IsFiniteSet(Failed(k)')
    <3>1. Heeded(k)' \subseteq 1..n /\ Failed(k)' \subseteq 1..n
      BY <1>5 DEF Heeded, Failed
    <3>2. IsFiniteSet(1..n)
      <4>1. 1 \in Int /\ n \in Int
        BY <1>5
      <4> QED  BY <4>1, FS_Interval
    <3> QED  BY <3>1, <3>2, FS_Subset
  <2>3. /\ Cardinality(Heeded(k)) <= Cardinality(Heeded(k)')
        /\ Cardinality(Heeded(k)) \in Nat /\ Cardinality(Heeded(k)') \in Nat
        /\ Cardinality(Failed(k)) <= Cardinality(Failed(k)')
        /\ Cardinality(Failed(k)) \in Nat /\ Cardinality(Failed(k)') \in Nat
    BY <1>3, <2>1, <2>2, CountFacts, FS_Subset, FS_CardinalityType
  <2>4. announced[k] \in Nat
    BY <1>3 DEF StoreTypes
  <2> QED  BY <1>1, <1>3, <2>3, <2>4 DEF Announcements
<1>13. Announcements'
  BY <1>12 DEF Announcements
<1> QED  BY <1>7, <1>10, <1>11, <1>13 DEF StoreInv

\* The mirror follows the table, and a node new to it is announced.
LEMMA MirrorStep ==
    ASSUME Inv, StoreInv, NEW p \in Pids, MirrorSighting(p)
    PROVE  StoreInv'
<1> DEFINE s == pending[p]
           n == Len(log)
           x == PrefixOf(s.key)
           S == Mirrored(p)
<1>1. /\ phase[p] \in Working /\ s # NoSighting
      /\ mirror' = [mirror EXCEPT ![p] = Merged(@, s, n)]
      /\ pending' = [pending EXCEPT ![p] = NoSighting]
      /\ UNCHANGED <<phase, table, log, opened>>
      /\ \/ announced' = announced
         \/ x \notin DOMAIN mirror[p] /\ announced' = [announced EXCEPT ![s.key] = @ + 1]
  BY DEF MirrorSighting, files
<1>2. /\ StoreTypes /\ TableSays /\ Mirrors /\ Announcements /\ n \in Nat
      /\ DOMAIN log = 1..n /\ s \in Sightings /\ s.key \in Keys
  BY <1>1, LogFacts DEF StoreInv, StoreTypes, Keys
<1>3. PICK w \in BOOLEAN : log[n] = Recording(s, w)
  BY <1>1, <1>2 DEF Mirrors, PendingLast
<1>4. n \in Nat \ {0} /\ n - 1 \in Nat /\ opened[p] < n /\ opened[p] \in Nat /\ n \in DOMAIN log
  <2>1. opened[p] < n /\ opened[p] \in Nat
    BY <1>1, <1>2 DEF Mirrors, PendingLast, StoreTypes
  <2> QED  BY <1>2, <2>1
<1>5. pending'[p] = NoSighting /\ \A q \in Pids : pending'[q] = NoSighting
  <2>1. \A q \in Pids : q # p => pending[q] = NoSighting
    <3>1. \A q \in Pids : pending[q] # NoSighting => q \in Running
      BY <1>2 DEF Mirrors, PendingLast, Running
    <3>2. p \in Running
      BY <1>1 DEF Running
    <3> QED  BY <3>1, <3>2, RunningOne
  <2> QED  BY <1>1, <1>2, <2>1 DEF StoreTypes
<1>6. /\ log[n].key = s.key /\ \A row : UpdateRow(row, log[n], n) = UpdateRow(row, s, n)
      /\ InsertRow(log[n], n) = InsertRow(s, n)
  BY <1>3 DEF UpdateRow, InsertRow, Recording
<1>7. S \subseteq 1..n - 1 /\ Mirrored(p)' = S \cup {n} /\ S \subseteq DOMAIN log
  <2>1. S = SeenBy(p) \ {n} /\ SeenBy(p) \subseteq DOMAIN log /\ SeenBy(p)' = SeenBy(p)
    BY <1>1 DEF Mirrored, SeenBy
  <2>2. n \in SeenBy(p)
    BY <1>4 DEF SeenBy
  <2>3. Mirrored(p)' = SeenBy(p)'
    BY <1>5 DEF Mirrored
  <2>4. S \subseteq 1..n - 1
    BY <1>2, <2>1
  <2> QED  BY <2>1, <2>2, <2>3, <2>4
<1>8. DOMAIN mirror[p] = {PrefixOf(log[i].key) : i \in S} /\ MirrorSays(p)
  BY <1>1, <1>2 DEF Mirrors, Running, MirrorSays
<1>9. StoreTypes'
  <2>1. pending' \in [Pids -> Sightings \cup {NoSighting}]
    BY <1>1, <1>2 DEF StoreTypes
  <2>2. mirror' = [q \in Pids |-> mirror'[q]]
    BY <1>1, <1>2 DEF StoreTypes
  <2>3. announced' \in [Keys -> Nat]
    BY <1>1, <1>2 DEF StoreTypes
  <2> QED  BY <1>1, <1>2, <2>1, <2>2, <2>3 DEF StoreTypes
<1>10. TableSays'
  BY <1>1, <1>2 DEF TableSays, Written
<1>11. Extends(log, log, S, n)
  BY <1>4, <1>7 DEF Extends
<1>12. mirror'[p] = Merged(mirror[p], s, n)
  BY <1>1, <1>2 DEF StoreTypes
<1> HIDE DEF s, n, x, S
<1>13. MirrorSays(p)'
  <2> DEFINE fresh == [key |-> s.key, name |-> s.name, type |-> s.type, pos |-> s.pos,
                       signal |-> s.signal, last |-> n]
  <2>1. /\ DOMAIN mirror'[p] = DOMAIN mirror[p] \cup {x}
        /\ \A y \in DOMAIN mirror[p] : y # x => mirror'[p][y] = mirror[p][y]
        /\ mirror'[p][x] = IF x \in DOMAIN mirror[p]
                           THEN [fresh EXCEPT !.pos = Coalesce(s.pos, mirror[p][x].pos)]
                           ELSE fresh
    BY <1>12 DEF Merged, x
  <2>2. DOMAIN mirror'[p] = {PrefixOf(log[i].key) : i \in S \cup {n}}
    BY <1>6, <1>8, <2>1 DEF x
  <2>3. ASSUME NEW k \in Keys, Alone(k), PrefixOf(k) \in DOMAIN mirror'[p]
        PROVE  mirror'[p][PrefixOf(k)] = Shown(k, Says(log, k, S \cup {n}))
    <3>1. PrefixOf(k) \in DOMAIN mirror[p] =>
            Mine(log, k, S) # {} /\ mirror[p][PrefixOf(k)] = Shown(k, Says(log, k, S))
      BY <1>2, <1>7, <1>8, <2>3, MirrorHas DEF MirrorSays, S
    <3>2. CASE PrefixOf(k) # x
      <4>1. s.key # k
        BY <3>2 DEF x
      <4>2. PrefixOf(k) \in DOMAIN mirror[p]
        BY <2>1, <2>3, <3>2
      <4>3. Says(log, k, S \cup {n}) = Says(log, k, S)
        BY <1>6, <1>11, <3>1, <4>1, <4>2, SaysMore
      <4> QED  BY <2>1, <3>1, <3>2, <4>2, <4>3
    <3>3. CASE PrefixOf(k) = x
      <4>1. s.key = k
        BY <1>2, <2>3, <3>3, AloneKey DEF x
      <4>2. Says(log, k, S \cup {n}) = IF Mine(log, k, S) = {} THEN InsertRow(s, n)
                                       ELSE UpdateRow(Says(log, k, S), s, n)
        BY <1>6, <1>11, <4>1, SaysMore
      <4>3. CASE x \in DOMAIN mirror[p]
        <5>1. Mine(log, k, S) # {} /\ mirror[p][x] = Shown(k, Says(log, k, S))
          BY <3>1, <3>3, <4>3
        <5>2. mirror[p][x].pos = Says(log, k, S).pos
          BY <5>1 DEF Shown
        <5> QED  BY <2>1, <3>3, <4>1, <4>2, <4>3, <5>1, <5>2 DEF Shown, UpdateRow
      <4>4. CASE x \notin DOMAIN mirror[p]
        <5>1. Mine(log, k, S) = {}
          BY <1>8, <3>3, <4>4 DEF Mine
        <5> QED  BY <2>1, <3>3, <4>1, <4>2, <4>4, <5>1 DEF Shown, InsertRow
      <4> QED  BY <4>3, <4>4
    <3> QED  BY <3>2, <3>3
  <2> QED  BY <1>1, <1>7, <2>2, <2>3 DEF MirrorSays
<1>14. Mirrors'
  <2>1. ASSUME NEW q \in Running' PROVE q = p
    BY <1>1, <2>1, RunningOne DEF Running
  <2> QED  BY <1>5, <1>13, <2>1 DEF Mirrors
<1>15. ASSUME NEW k \in Keys
       PROVE  /\ announced'[k] <= Cardinality(Heeded(k)') /\ announced'[k] <= 1 + Cardinality(Failed(k)')
  <2>1. /\ Failed(k)' = Failed(k)
        /\ Heeded(k)' = IF s.key = k THEN Heeded(k) \cup {n} ELSE Heeded(k)
        /\ n \notin Heeded(k)
    <3>1. Failed(k)' = Failed(k)
      BY <1>1 DEF Failed
    <3>2. Heeded(k)' = {i \in DOMAIN log : log[i].key = k}
      BY <1>1, <1>5 DEF Heeded
    <3>3. Heeded(k) = {i \in DOMAIN log : log[i].key = k /\ i # n}
      BY <1>1 DEF Heeded, n, s
    <3> QED  BY <1>4, <1>6, <3>1, <3>2, <3>3
  <2>2. /\ IsFiniteSet(Heeded(k)) /\ IsFiniteSet(Failed(k))
        /\ Cardinality(Heeded(k)) \in Nat /\ Cardinality(Failed(k)) \in Nat
    BY <1>2, CountFacts
  <2>3. announced[k] \in Nat /\ announced[k] <= Cardinality(Heeded(k))
          /\ announced[k] <= 1 + Cardinality(Failed(k))
    BY <1>2 DEF StoreTypes, Announcements
  <2>4. Cardinality(Heeded(k) \cup {n}) = Cardinality(Heeded(k)) + 1
    BY <2>1, <2>2, FS_AddElement
  <2>5. CASE announced'[k] = announced[k]
    BY <2>1, <2>2, <2>3, <2>4, <2>5
  <2>6. CASE s.key = k /\ x \notin DOMAIN mirror[p] /\ announced'[k] = announced[k] + 1
    <3>1. Heeded(k) \subseteq Failed(k)
      <4>1. SUFFICES ASSUME NEW i \in Heeded(k) PROVE i \in Failed(k)
        OBVIOUS
      <4>2. i \in DOMAIN log /\ log[i].key = k /\ i # n
        BY <2>1, <4>1 DEF Heeded
      <4>3. i \notin S
        BY <1>8, <2>6, <4>2 DEF x
      <4> QED  BY <4>2, <4>3 DEF Failed, S, Mirrored, SeenBy, n
    <3>2. Cardinality(Heeded(k)) <= Cardinality(Failed(k))
      BY <2>2, <3>1, FS_Subset
    <3> QED  BY <2>1, <2>2, <2>3, <2>4, <2>6, <3>2
  <2>7. announced'[k] = announced[k] \/
          (s.key = k /\ x \notin DOMAIN mirror[p] /\ announced'[k] = announced[k] + 1)
    BY <1>1, <1>2 DEF StoreTypes
  <2> QED  BY <2>5, <2>6, <2>7
<1> QED  BY <1>9, <1>10, <1>14, <1>15 DEF StoreInv, Announcements

\* Every step of every process.
LEMMA StoreStep ==
    ASSUME Inv, StoreInv, [Next]_vars
    PROVE  StoreInv'
<1>1. CASE UNCHANGED vars
  BY <1>1, StoreKept DEF vars, files, processes, Heard, Running
<1>2. ASSUME NEW p \in Pids, NEW q \in Pids, Live(p), ~ OpenStore(p), ~ Exit(p) PROVE StoreInv'
  <2>1. UNCHANGED Heard
    BY <1>2 DEF Live, Start, Refused, EmptyLockFile, RecordPid, Fork, Bind, Stop, RemoveSocket,
                Heard, files, processes
  <2>2. \A r \in Pids : phase'[r] \in Working <=> phase[r] \in Working
    <3>1. \/ UNCHANGED phase
          \/ \E old, new : phase[p] = old /\ (old \in Working <=> new \in Working)
                /\ phase' = [phase EXCEPT ![p] = new]
          \/ \E r \in Pids : phase[p] \notin Working /\ phase[r] \notin Working
                /\ phase' = [phase EXCEPT ![p] = "parent", ![r] = "forked"]
      BY <1>2 DEF Live, Start, Refused, EmptyLockFile, RecordPid, Fork, Bind, Stop, RemoveSocket,
                  Working, processes
    <3> QED  BY <3>1 DEF Inv, Types, Working
  <2>3. Running' = Running
    BY <2>2 DEF Running
  <2> QED  BY <2>1, <2>3, StoreKept
<1>3. ASSUME NEW p \in Pids, OpenStore(p) PROVE StoreInv'
  BY <1>3, OpenStep
<1>4. ASSUME NEW p \in Pids, Exit(p) PROVE StoreInv'
  BY <1>4, ExitStep
<1>5. ASSUME NEW p \in Pids, Hear(p) PROVE StoreInv'
  BY <1>5, WriteStep, MirrorStep DEF Hear
<1> QED  BY <1>1, <1>2, <1>3, <1>4, <1>5 DEF Next

\* At every moment, after any restarts, crashes and failed writes, the table and the
\* mirror of the daemon that runs hold what the sightings say, and no node is announced
\* more than once and once more for each of its writes that failed (repeater_db.rs
\* upsert and load_all, state.rs upsert_discovered_node).
THEOREM TheTableSurvives == Spec => []RestartShowsTheSame
<1>1. Init => StoreInv
  <2> SUFFICES ASSUME Init PROVE StoreInv
    OBVIOUS
  <2>1. /\ log = <<>> /\ table = <<>> /\ phase = [p \in Pids |-> "none"]
        /\ mirror = [p \in Pids |-> <<>>] /\ pending = [p \in Pids |-> NoSighting]
        /\ announced = [k \in Keys |-> 0] /\ opened = [p \in Pids |-> 0]
    BY DEF Init
  <2>2. Len(log) = 0 /\ DOMAIN log = {} /\ DOMAIN table = {} /\ Written = {} /\ Running = {}
    BY <2>1 DEF Written, Running, Working
  <2>3. StoreTypes
    BY <2>1 DEF StoreTypes
  <2>4. TableSays /\ Mirrors
    BY <2>1, <2>2 DEF TableSays, Mirrors
  <2>5. \A k : Heeded(k) = {} /\ Failed(k) = {}
    BY <2>2 DEF Heeded, Failed
  <2>6. Announcements
    <3>1. \A k \in Keys : Cardinality(Heeded(k)) = 0 /\ Cardinality(Failed(k)) = 0
      BY <2>5, FS_EmptySet
    <3> QED  BY <2>1, <3>1 DEF Announcements
  <2> QED  BY <2>3, <2>4, <2>6 DEF StoreInv
<1>2. Inv /\ StoreInv /\ [Next]_vars => StoreInv'
  BY StoreStep
<1>3. StoreInv => RestartShowsTheSame
  <2> SUFFICES ASSUME StoreInv PROVE RestartShowsTheSame
    OBVIOUS
  <2>1. ASSUME NEW p \in Running, pending[p] = NoSighting
        PROVE  MirrorSays(p) /\ Mirrored(p) = SeenBy(p)
    BY <2>1 DEF StoreInv, Mirrors, Mirrored, SeenBy
  <2>2. \A k \in Keys : announced[k] <= 1 + Cardinality(Failed(k))
    BY DEF StoreInv, Announcements
  <2>3. TableSays
    BY DEF StoreInv
  <2> QED  BY <2>1, <2>2, <2>3 DEF RestartShowsTheSame, TableSays, MirrorSays, Failed
<1> QED  BY <1>1, <1>2, <1>3, LockFollowed, PTL DEF Spec

-----------------------------------------------------------------------------
(* What a packet is made of.                                               *)


\* w is s and then t.
Made(w, s, t) ==
    /\ w \in Seq(Int) /\ Len(w) = Len(s) + Len(t)
    /\ \A i \in 1..Len(s) : w[i] = s[i]
    /\ \A i \in 1..Len(t) : w[Len(s) + i] = t[i]

LEMMA JoinFacts ==
    ASSUME NEW s \in Seq(Int), NEW t \in Seq(Int)
    PROVE  Made(s \o t, s, t)
<1> DEFINE w == s \o t
<1>1. /\ w \in Seq(Int) /\ Len(w) = Len(s) + Len(t)
      /\ \A i \in 1..Len(s) + Len(t) : w[i] = IF i <= Len(s) THEN s[i] ELSE t[i - Len(s)]
  BY ConcatProperties
<1>2. Len(s) \in Nat /\ Len(t) \in Nat
  OBVIOUS
<1> HIDE DEF w
<1>3. ASSUME NEW i \in 1..Len(s) PROVE w[i] = s[i]
  <2>1. i \in 1..Len(s) + Len(t) /\ i <= Len(s)
    BY <1>2
  <2> QED  BY <1>1, <2>1
<1>4. ASSUME NEW i \in 1..Len(t) PROVE w[Len(s) + i] = t[i]
  <2>1. /\ Len(s) + i \in 1..Len(s) + Len(t) /\ ~ (Len(s) + i <= Len(s))
        /\ Len(s) + i - Len(s) = i
    BY <1>2
  <2> QED  BY <1>1, <2>1
<1> QED  BY <1>1, <1>3, <1>4 DEF Made, w

\* A first part and the rest.
LEMMA FirstFacts ==
    ASSUME NEW s \in Seq(Int), NEW n \in 0..Len(s)
    PROVE  /\ FirstBytes(s, n) \in Seq(Int) /\ Len(FirstBytes(s, n)) = n
           /\ \A i \in 1..n : FirstBytes(s, n)[i] = s[i]
<1>1. Len(s) \in Nat /\ n \in Nat /\ \A i \in 1..n : i \in 1..Len(s) /\ s[i] \in Int /\ 1 + i - 1 = i
  OBVIOUS
<1>2. /\ SubSeq(s, 1, n) \in Seq(Int)
      /\ Len(SubSeq(s, 1, n)) = IF 1 <= n THEN n - 1 + 1 ELSE 0
      /\ \A i \in 1..n - 1 + 1 : SubSeq(s, 1, n)[i] = s[1 + i - 1]
  BY <1>1, SubSeqProperties
<1>3. n - 1 + 1 = n /\ (~ (1 <= n) => n = 0)
  BY <1>1
<1> QED  BY <1>1, <1>2, <1>3 DEF FirstBytes

LEMMA PartFacts ==
    ASSUME NEW s \in Seq(Int), NEW a \in Nat, NEW b \in Nat, a <= b, b <= Len(s)
    PROVE  /\ SubSeq(s, a + 1, b) \in Seq(Int) /\ Len(SubSeq(s, a + 1, b)) = b - a
           /\ \A i \in 1..b - a : SubSeq(s, a + 1, b)[i] = s[a + i]
<1>1. Len(s) \in Nat /\ \A i \in a + 1..b : s[i] \in Int
  OBVIOUS
<1>2. /\ SubSeq(s, a + 1, b) \in Seq(Int)
      /\ Len(SubSeq(s, a + 1, b)) = IF a + 1 <= b THEN b - (a + 1) + 1 ELSE 0
      /\ \A i \in 1..b - (a + 1) + 1 : SubSeq(s, a + 1, b)[i] = s[a + 1 + i - 1]
  BY <1>1, SubSeqProperties
<1>3. b - (a + 1) + 1 = b - a /\ (~ (a + 1 <= b) => b - a = 0) /\ \A i \in 1..b - a : a + 1 + i - 1 = a + i
  OBVIOUS
<1> QED  BY <1>2, <1>3

\* The first part of a sequence in two parts.
LEMMA FirstOfMade ==
    ASSUME NEW s \in Seq(Int), NEW t \in Seq(Int), NEW w, Made(w, s, t), NEW n \in 0..Len(w)
    PROVE  /\ n <= Len(s) => FirstBytes(w, n) = FirstBytes(s, n)
           /\ Len(s) <= n => /\ n - Len(s) \in 0..Len(t)
                             /\ FirstBytes(w, n) = s \o FirstBytes(t, n - Len(s))
<1> DEFINE v == FirstBytes(w, n)
<1>1. Len(s) \in Nat /\ Len(t) \in Nat /\ Len(w) = Len(s) + Len(t) /\ w \in Seq(Int) /\ n \in Nat
  BY DEF Made
<1>2. v \in Seq(Int) /\ Len(v) = n /\ \A i \in 1..n : v[i] = w[i]
  BY <1>1, FirstFacts
<1>3. ASSUME n <= Len(s) PROVE v = FirstBytes(s, n)
  <2> DEFINE u == FirstBytes(s, n)
  <2>1. n \in 0..Len(s)
    BY <1>1, <1>3
  <2>2. u \in Seq(Int) /\ Len(u) = n /\ \A i \in 1..n : u[i] = s[i]
    BY <2>1, FirstFacts
  <2>3. \A i \in 1..n : i \in 1..Len(s)
    BY <1>1, <1>3
  <2>4. \A i \in 1..n : v[i] = u[i]
    <3> HIDE DEF u, v
    <3> QED  BY <1>2, <2>2, <2>3 DEF Made
  <2> HIDE DEF u, v
  <2>5. v = u
    BY <1>2, <2>2, <2>4, SeqEqual
  <2> QED  BY <2>5 DEF u
<1>4. ASSUME Len(s) <= n PROVE n - Len(s) \in 0..Len(t) /\ v = s \o FirstBytes(t, n - Len(s))
  <2> DEFINE l == n - Len(s)
             u == FirstBytes(t, l)
             x == s \o u
  <2>1. l \in 0..Len(t) /\ l \in Nat /\ n = Len(s) + l
    BY <1>1, <1>4
  <2> HIDE DEF l
  <2>2. u \in Seq(Int) /\ Len(u) = l /\ \A i \in 1..l : u[i] = t[i]
    BY <2>1, FirstFacts
  <2> HIDE DEF u
  <2>3. Made(x, s, u)
    BY <2>2, JoinFacts
  <2> HIDE DEF x, v
  <2>4. ASSUME NEW i \in 1..n PROVE v[i] = x[i]
    <3>1. CASE i <= Len(s)
      <4>1. i \in 1..Len(s)
        BY <1>1, <3>1
      <4> QED  BY <1>2, <2>3, <4>1 DEF Made
    <3>2. CASE ~ (i <= Len(s))
      <4>1. PICK j \in 1..l : i = Len(s) + j
        <5>1. i - Len(s) \in 1..l /\ i = Len(s) + (i - Len(s))
          BY <1>1, <2>1, <3>2
        <5> QED  BY <5>1
      <4>2. j \in 1..Len(t) /\ j \in 1..Len(u)
        BY <1>1, <2>1, <2>2
      <4> QED  BY <1>2, <2>2, <2>3, <4>1, <4>2 DEF Made
    <3> QED  BY <3>1, <3>2
  <2>5. x \in Seq(Int) /\ Len(x) = n
    BY <2>1, <2>2, <2>3 DEF Made
  <2>6. v = x
    BY <1>2, <2>4, <2>5, SeqEqual
  <2> QED  BY <2>1, <2>6 DEF l, u, x
<1> QED  BY <1>3, <1>4 DEF v

-----------------------------------------------------------------------------
(* The header.                                                             *)

PathByte(m) == (m.path_hash_size - 1) * 64 + (Len(m.path) \div m.path_hash_size)

LEMMA HeaderFacts ==
    ASSUME NEW m, Framed(m)
    PROVE  /\ HeaderByte(m) \in 0..255 /\ HeaderByte(m) % 4 = m.route_type
           /\ (HeaderByte(m) \div 4) % 16 = m.payload_type
           /\ HeaderByte(m) \div 64 = m.payload_version
<1> DEFINE v == m.payload_version
           t == m.payload_type
           r == m.route_type
           b == v * 64 + t * 4 + r
<1>1. v \in 0..3 /\ t \in 0..15 /\ r \in 0..3
  BY DEF Framed
<1>2. HeaderByte(m) = (v * 64 + (t % 16) * 4 + (r % 4)) % 256
  BY DEF HeaderByte
<1> HIDE DEF v, t, r
<1>3. t % 16 = t /\ r % 4 = r
  BY <1>1
<1>4. b \in 0..255 /\ b % 256 = b
  BY <1>1
<1>5. HeaderByte(m) = b
  BY <1>2, <1>3, <1>4
<1>6. b % 4 = r
  BY <1>1
<1>7. (b \div 4) % 16 = t
  <2>1. b \div 4 = v * 16 + t
    BY <1>1
  <2> HIDE DEF b
  <2> QED  BY <1>1, <2>1
<1>8. b \div 64 = v
  BY <1>1
<1> QED  BY <1>4, <1>5, <1>6, <1>7, <1>8 DEF v, t, r

\* The path's length in hashes and the size of a hash share a byte.
LEMMA PathByteFacts ==
    ASSUME NEW m, Framed(m)
    PROVE  /\ PathByte(m) \in 0..255
           /\ PathByte(m) % 64 = Len(m.path) \div m.path_hash_size
           /\ PathByte(m) \div 64 + 1 = m.path_hash_size
           /\ (PathByte(m) % 64) * (PathByte(m) \div 64 + 1) = Len(m.path)
           /\ Len(m.path) \div m.path_hash_size \in 0..63
<1> DEFINE z == m.path_hash_size
           l == Len(m.path)
<1>1. PICK h \in 0..63 : z \in 1..4 /\ l = h * z
  BY DEF Framed
<1>2. PathByte(m) = (z - 1) * 64 + (l \div z)
  BY DEF PathByte
<1> HIDE DEF z, l
<1>3. l \div z = h
  <2>1. CASE z = 1
    BY <1>1, <2>1
  <2>2. CASE z = 2
    BY <1>1, <2>2
  <2>3. CASE z = 3
    BY <1>1, <2>3
  <2>4. CASE z = 4
    BY <1>1, <2>4
  <2> QED  BY <1>1, <2>1, <2>2, <2>3, <2>4
<1>4. PathByte(m) = (z - 1) * 64 + h
  BY <1>2, <1>3
<1>5. PathByte(m) % 64 = h /\ PathByte(m) \div 64 = z - 1 /\ PathByte(m) \in 0..255
  BY <1>1, <1>4
<1>6. PathByte(m) \div 64 + 1 = z
  BY <1>1, <1>5
<1> QED  BY <1>1, <1>3, <1>5, <1>6 DEF z, l

\* What comes before the payload.
Preamble(m) == <<HeaderByte(m)>> \o m.codes \o <<PathByte(m)>> \o m.path
PreambleSize(m) == 2 + Len(m.codes) + Len(m.path)

LEMMA PreambleFacts ==
    ASSUME NEW m, Framed(m)
    PROVE  /\ Preamble(m) \in Seq(Int) /\ Len(Preamble(m)) = PreambleSize(m)
           /\ Len(m.codes) \in Nat /\ Len(m.path) \in Nat /\ PreambleSize(m) \in Nat
           /\ Preamble(m)[1] = HeaderByte(m)
           /\ \A i \in 1..Len(m.codes) : Preamble(m)[1 + i] = m.codes[i]
           /\ Preamble(m)[2 + Len(m.codes)] = PathByte(m)
           /\ \A i \in 1..Len(m.path) : Preamble(m)[2 + Len(m.codes) + i] = m.path[i]
<1> DEFINE h == <<HeaderByte(m)>>
           b == <<PathByte(m)>>
           a1 == h \o m.codes
           a2 == a1 \o b
           a3 == a2 \o m.path
           c == Len(m.codes)
<1>1. h \in Seq(Int) /\ b \in Seq(Int) /\ Len(h) = 1 /\ Len(b) = 1 /\ h[1] = HeaderByte(m) /\ b[1] = PathByte(m)
  <2> HIDE DEF h, b, a1, a2, a3, c
  <2>1. HeaderByte(m) \in Int /\ PathByte(m) \in Int
    <3>1. HeaderByte(m) \in 0..255
      BY HeaderFacts
    <3>2. PathByte(m) \in 0..255
      BY PathByteFacts
    <3> QED  BY <3>1, <3>2
  <2>2. \A x \in Int : <<x>> \in Seq(Int) /\ Len(<<x>>) = 1 /\ <<x>>[1] = x
    OBVIOUS
  <2> QED  BY <2>1, <2>2 DEF h, b
<1>2. m.codes \in Seq(Int) /\ m.path \in Seq(Int) /\ c \in Nat /\ Len(m.path) \in Nat
  <2>1. m.codes \in Seq(0..255) /\ m.path \in Seq(0..255)
    BY DEF Framed, Byte
  <2>2. \A s \in Seq(0..255) : s \in Seq(Int)
    <3>1. 0..255 \subseteq Int
      OBVIOUS
    <3> QED  BY <3>1, SeqMonotonic
  <2>3. \A s \in Seq(Int) : Len(s) \in Nat
    BY LenProperties
  <2> QED  BY <2>1, <2>2, <2>3
<1>3. Preamble(m) = a3
  BY DEF Preamble
<1> HIDE DEF h, b
<1>4. Made(a1, h, m.codes)
  BY <1>1, <1>2, JoinFacts
<1> HIDE DEF a1
<1>5. Made(a2, a1, b)
  BY <1>1, <1>4, JoinFacts DEF Made
<1> HIDE DEF a2
<1>6. Made(a3, a2, m.path)
  BY <1>2, <1>5, JoinFacts DEF Made
<1> HIDE DEF a3
<1>7. Len(a1) = 1 + c /\ Len(a2) = 2 + c /\ Len(a3) = 2 + c + Len(m.path)
  <2>1. Len(a1) = 1 + c
    BY <1>1, <1>4 DEF Made
  <2>2. Len(a2) = 2 + c
    BY <1>1, <1>2, <1>5, <2>1 DEF Made
  <2>3. Len(a3) = 2 + c + Len(m.path)
    BY <1>2, <1>6, <2>2 DEF Made
  <2> QED  BY <2>1, <2>2, <2>3
<1>8. a3[1] = HeaderByte(m)
  <2>1. 1 \in 1..Len(h) /\ 1 \in 1..Len(a1) /\ 1 \in 1..Len(a2)
    BY <1>1, <1>2, <1>7
  <2> QED  BY <1>1, <1>4, <1>5, <1>6, <2>1 DEF Made
<1>9. ASSUME NEW i \in 1..c PROVE a3[1 + i] = m.codes[i]
  <2>1. 1 + i \in 1..Len(a1) /\ 1 + i \in 1..Len(a2) /\ i \in 1..Len(m.codes)
    BY <1>2, <1>7
  <2>2. a1[1 + i] = m.codes[i]
    BY <1>1, <1>4, <2>1 DEF Made
  <2> QED  BY <1>5, <1>6, <2>1, <2>2 DEF Made
<1>10. a3[2 + c] = PathByte(m)
  <2>1. 2 + c \in 1..Len(a2) /\ 1 \in 1..Len(b) /\ Len(a1) + 1 = 2 + c
    BY <1>1, <1>2, <1>7
  <2>2. a2[2 + c] = b[1]
    BY <1>5, <2>1 DEF Made
  <2> QED  BY <1>1, <1>6, <2>1, <2>2 DEF Made
<1>11. ASSUME NEW i \in 1..Len(m.path) PROVE a3[2 + c + i] = m.path[i]
  BY <1>6, <1>7 DEF Made
<1>12. a3 \in Seq(Int)
  BY <1>6 DEF Made
<1>13. PreambleSize(m) = 2 + c + Len(m.path) /\ PreambleSize(m) \in Nat
  <2>1. PreambleSize(m) = 2 + c + Len(m.path)
    BY DEF PreambleSize
  <2>2. c \in Nat /\ Len(m.path) \in Nat
    BY <1>2
  <2>3. \A x, y \in Nat : 2 + x + y \in Nat
    OBVIOUS
  <2> HIDE DEF c
  <2> QED  BY <2>1, <2>2, <2>3
<1> HIDE DEF c
<1> QED  BY <1>2, <1>3, <1>7, <1>8, <1>9, <1>10, <1>11, <1>12, <1>13 DEF c

-----------------------------------------------------------------------------
(* What the daemon does on a radio is what a daemon may do.                 *)

\* A reception either leaves the node's store alone or is the sighting of one node.
LEMMA ReceptionIsAHearing ==
    ASSUME NEW p \in Pids, Receive(p)
    PROVE  Hear(p) \/ UNCHANGED vars
<1>1. ASSUME NEW m \in Messages, NEW n \in 0..Len(Transmitted(m)), NEW at, NEW whole,
             ReceivePacket(p, m, FirstBytes(Transmitted(m), n), whole, at)
      PROVE  Hear(p) \/ UNCHANGED vars
  <2> DEFINE node == ExtractDiscoveredNode(Parse(FirstBytes(Transmitted(m), n)))
  <2>1. IF (IF node = None THEN FALSE ELSE Kept(node[1].type))
        THEN WriteSighting(p, node[1]) ELSE UNCHANGED vars
    BY <1>1 DEF ReceivePacket
  <2>2. node # None /\ Kept(node[1].type) => node[1] \in Sightings
    BY HeardAssumption
  <2> HIDE DEF node
  <2> QED  BY <2>1, <2>2 DEF Hear
<1>2. ASSUME NEW sensors, NEW bytes, NEW whole, ReceiveTelemetry(p, sensors, bytes, whole)
      PROVE  UNCHANGED vars
  BY <1>2 DEF ReceiveTelemetry
<1>3. ASSUME NEW rs, NEW text, NEW whole, ReceiveRegions(p, rs, text, whole)
      PROVE  UNCHANGED vars
  BY <1>3 DEF ReceiveRegions
<1>4. \/ \E m \in Messages, at \in Times : \E bytes \in {Transmitted(m)} :
          \E n \in 0..Len(bytes) : \E raw \in {FirstBytes(bytes, n)} :
             ReceivePacket(p, m, raw, n = Len(bytes), at)
      \/ \E sensors, bytes, whole : ReceiveTelemetry(p, sensors, bytes, whole)
      \/ \E rs, text, whole : ReceiveRegions(p, rs, text, whole)
  <2>1. CASE \E sensors \in Telemetries :
          \E bytes \in {FlattenSeq([i \in DOMAIN sensors |-> Encoded(sensors[i])])} :
          \/ \E n \in 0..Len(bytes) : \E raw \in {FirstBytes(bytes, n)} :
                ReceiveTelemetry(p, sensors, raw, n = Len(bytes))
          \/ \E padding \in Paddings : \E raw \in {bytes \o [i \in 1..padding |-> 0]} :
                ReceiveTelemetry(p, sensors, raw, TRUE)
    BY <2>1
  <2>2. CASE \E rs \in Hierarchies, eol \in {<<NL>>, <<CR, NL>>} :
          \E text \in {RegionText(rs, eol)} : \E n \in 0..Len(text) :
              \E cut \in {FirstBytes(text, n)} : ReceiveRegions(p, rs, cut, n = Len(text))
    BY <2>2
  <2> QED  BY <2>1, <2>2 DEF Receive
<1> QED  BY <1>1, <1>2, <1>3, <1>4

\* Hence the daemon with its radio is one of the daemons the sightings of the store are
\* about: a packet heard, whole or cut, is a sighting of a node or nothing to the store
\* (mesh_task::run, handle_discovered_node).
THEOREM RadioIsADaemon == RadioSpec => Spec
<1>1. RadioInit => Init
  BY DEF RadioInit
<1>2. [RadioNext]_radioVars => [Next]_vars
  <2>1. ASSUME NEW p \in Pids, Receive(p) \/ Proceed(p) PROVE Next \/ UNCHANGED vars
    <3>1. CASE Receive(p)
      BY <3>1, ReceptionIsAHearing DEF Next
    <3>2. CASE Proceed(p)
      BY <3>2 DEF Proceed, Next, Hear
    <3> QED  BY <2>1, <3>1, <3>2
  <2>2. UNCHANGED radioVars => UNCHANGED vars
    BY DEF radioVars
  <2> QED  BY <2>1, <2>2 DEF RadioNext
<1> QED  BY <1>1, <1>2, PTL DEF RadioSpec, Spec

\* With a radio, too, one daemon runs, and one that starts shows every node whose row
\* was written (run_daemon, AppState::new).
THEOREM RadioKeepsTheDaemon == RadioSpec => [](OneDaemon /\ RestartShowsTheSame)
BY RadioIsADaemon, OneDaemonLives, TheTableSurvives, PTL

-----------------------------------------------------------------------------
(* Parsing.                                                                *)

LEMMA SliceIs ==
    ASSUME NEW w \in Seq(Int), NEW s \in Seq(Int), NEW a \in Nat, NEW b \in Nat,
           b = a + Len(s), b <= Len(w), \A i \in 1..Len(s) : w[a + i] = s[i]
    PROVE  SubSeq(w, a + 1, b) = s
<1>1. Len(s) \in Nat
  BY LenProperties
<1>2. a <= b /\ b - a = Len(s)
  BY <1>1
<1>3. /\ SubSeq(w, a + 1, b) \in Seq(Int) /\ Len(SubSeq(w, a + 1, b)) = Len(s)
      /\ \A i \in 1..Len(s) : SubSeq(w, a + 1, b)[i] = w[a + i]
  BY <1>2, PartFacts
<1> QED  BY <1>3, SeqEqual

LEMMA WholeFacts ==
    ASSUME NEW s \in Seq(Int)
    PROVE  FirstBytes(s, Len(s)) = s
<1>1. Len(s) \in Nat
  BY LenProperties
<1>2. Len(s) \in 0..Len(s)
  BY <1>1
<1>3. /\ FirstBytes(s, Len(s)) \in Seq(Int) /\ Len(FirstBytes(s, Len(s))) = Len(s)
      /\ \A i \in 1..Len(s) : FirstBytes(s, Len(s))[i] = s[i]
  BY <1>2, FirstFacts
<1> QED  BY <1>3, SeqEqual

LEMMA TransmissionFacts ==
    ASSUME NEW m, Framed(m), Payload(m) \in Seq(Int)
    PROVE  /\ Made(Transmitted(m), Preamble(m), Payload(m))
           /\ Len(Transmitted(m)) = PreambleSize(m) + Len(Payload(m))
           /\ Transmitted(m) \in Seq(Int) /\ Len(Payload(m)) \in Nat
<1>1. Preamble(m) \in Seq(Int) /\ Len(Preamble(m)) = PreambleSize(m)
  BY PreambleFacts
<1>2. Transmitted(m) = Preamble(m) \o Payload(m)
  BY DEF Transmitted, Preamble, PathByte
<1>3. Len(Payload(m)) \in Nat
  BY LenProperties
<1> QED  BY <1>1, <1>2, <1>3, JoinFacts DEF Made

\* What a header says.
HeaderOf(m) ==
    [route_type |-> m.route_type, payload_type |-> m.payload_type,
     payload_version |-> m.payload_version,
     path_len |-> Len(m.path) \div m.path_hash_size, path_hash_size |-> m.path_hash_size,
     path |-> m.path, transport_code |-> m.codes]

\* A packet cut in its header says nothing, any other its header and what is left of
\* the payload.
LEMMA ParseFacts ==
    ASSUME NEW m, Framed(m), Payload(m) \in Seq(Int), NEW n \in 0..Len(Transmitted(m)), NEW raw,
           raw = FirstBytes(Transmitted(m), n), NEW q, q = FirstBytes(Payload(m), n - PreambleSize(m))
    PROVE  /\ raw \in Seq(Int) /\ Len(raw) = n
           /\ n < PreambleSize(m) => Parse(raw).header = None
           /\ PreambleSize(m) <= n =>
                /\ n - PreambleSize(m) \in 0..Len(Payload(m))
                /\ raw = Preamble(m) \o q
                /\ Parse(raw) = [header |-> <<HeaderOf(m)>>, payload |-> q,
                                 advertisement |-> ParseAdvert(m.payload_type, q)]
<1> DEFINE w == Transmitted(m)
           h == Preamble(m)
           z == PreambleSize(m)
           c == Len(m.codes)
           l == Len(m.path)
           codes == IF raw[1] % 4 \in {TransportFlood, TransportDirect} THEN TransportCodeSize ELSE 0
<1>1. /\ Made(w, h, Payload(m)) /\ w \in Seq(Int) /\ n \in Nat /\ Len(w) \in Nat
      /\ n <= Len(w)
  BY TransmissionFacts, LenProperties
<1>2. /\ h \in Seq(Int) /\ Len(h) = z /\ c \in Nat /\ Len(m.path) \in Nat
      /\ h[1] = HeaderByte(m) /\ h[2 + c] = PathByte(m)
      /\ \A i \in 1..Len(m.path) : h[2 + c + i] = m.path[i]
      /\ \A i \in 1..c : h[1 + i] = m.codes[i]
  BY PreambleFacts
<1>3. z = 2 + c + l /\ z \in Nat /\ c = Len(m.codes) /\ l = Len(m.path)
  BY PreambleFacts DEF PreambleSize
<1>4. raw \in Seq(Int) /\ Len(raw) = n /\ \A i \in 1..n : raw[i] = w[i]
  BY <1>1, FirstFacts
<1>5. m.path \in Seq(Int) /\ m.codes \in Seq(Int)
  <2>1. m.path \in Seq(0..255) /\ m.codes \in Seq(0..255) /\ 0..255 \subseteq Int
    BY DEF Framed, Byte
  <2> QED  BY <2>1, SeqMonotonic
<1> HIDE DEF w, h, z, c, l
<1>0. n \in Nat /\ c \in Nat /\ l \in Nat /\ z = 2 + c + l
  BY <1>1, <1>2, <1>3
<1>6. \A i \in 1..z : i <= n => raw[i] = h[i]
  <2>1. \A i \in 1..z : i <= n => i \in 1..n
    BY <1>0
  <2> QED  BY <1>1, <1>2, <1>4, <2>1 DEF Made
<1>7. n >= 1 => raw[1] = HeaderByte(m)
  <2>1. 1 \in 1..z /\ (n >= 1 => 1 <= n)
    BY <1>0
  <2> QED  BY <1>2, <1>6, <2>1
<1>8. n >= 2 + c => raw[2 + c] = PathByte(m)
  <2>1. 2 + c \in 1..z /\ (n >= 2 + c => 2 + c <= n)
    BY <1>0
  <2> QED  BY <1>2, <1>6, <2>1
<1>9. n >= 1 => codes = c
  <2> SUFFICES ASSUME n >= 1 PROVE codes = c
    OBVIOUS
  <2>1. raw[1] % 4 = m.route_type
    BY <1>7, HeaderFacts
  <2>2. c = IF m.route_type \in {TransportFlood, TransportDirect} THEN TransportCodeSize ELSE 0
    BY DEF Framed, c
  <2> QED  BY <2>1, <2>2
<1> HIDE DEF codes
<1> DEFINE pathByte == raw[2 + codes]
           size == (pathByte \div 64) + 1
           start == 2 + codes + (pathByte % 64) * size
<1>10. n >= 2 + c => pathByte = PathByte(m) /\ start = z
  <2> SUFFICES ASSUME n >= 2 + c PROVE pathByte = PathByte(m) /\ start = z
    OBVIOUS
  <2>0. n >= 1
    BY <1>0
  <2>1. codes = c /\ pathByte = PathByte(m)
    BY <1>8, <1>9, <2>0
  <2> HIDE DEF pathByte
  <2>2. (PathByte(m) % 64) * (PathByte(m) \div 64 + 1) = Len(m.path)
    BY PathByteFacts
  <2>3. start = 2 + c + l
    BY <1>3, <2>1, <2>2
  <2> QED  BY <1>3, <2>1, <2>3
<1>11. ASSUME n < z PROVE Parse(raw).header = None
  <2> DEFINE nothing == [header |-> None, payload |-> <<>>, advertisement |-> None]
  <2>1. CASE n = 0
    <3>1. raw = <<>>
      BY <1>4, <2>1, EmptySeq
    <3>2. Parse(raw) = nothing
      BY <3>1 DEF Parse
    <3> QED  BY <3>2
  <2>2. CASE n # 0
    <3>1. codes = c /\ (n < 2 + c \/ n < start)
      <4>1. CASE n < 2 + c
        <5>1. n >= 1
          BY <1>0, <2>2
        <5> QED  BY <1>9, <4>1, <5>1
      <4>2. CASE n >= 2 + c
        <5>1. n >= 1
          BY <1>0, <2>2
        <5>2. start = z /\ codes = c
          BY <1>9, <1>10, <4>2, <5>1
        <5> HIDE DEF start
        <5> QED  BY <1>11, <5>2
      <4> QED  BY <1>0, <4>1, <4>2
    <3>2. Parse(raw) = nothing
      BY <1>4, <3>1 DEF Parse, codes, start, size, pathByte
    <3> QED  BY <3>2
  <2> QED  BY <2>1, <2>2
<1>12. ASSUME z <= n
       PROVE  /\ n - z \in 0..Len(Payload(m)) /\ raw = h \o q
              /\ Parse(raw) = [header |-> <<HeaderOf(m)>>, payload |-> q,
                               advertisement |-> ParseAdvert(m.payload_type, q)]
  <2>1. n - z \in 0..Len(Payload(m)) /\ raw = h \o q
    <3>1. n \in 0..Len(w)
      BY DEF w
    <3>2. raw = FirstBytes(w, n) /\ q = FirstBytes(Payload(m), n - z)
      BY DEF w, z
    <3>3. Len(h) <= n
      BY <1>2, <1>12
    <3>4. /\ n - Len(h) \in 0..Len(Payload(m))
          /\ FirstBytes(w, n) = h \o FirstBytes(Payload(m), n - Len(h))
      <4>1. h \in Seq(Int) /\ Payload(m) \in Seq(Int) /\ Made(w, h, Payload(m))
        BY <1>1, <1>2
      <4> QED  BY <3>1, <3>3, <4>1, FirstOfMade
    <3> QED  BY <1>2, <3>2, <3>4
  <2>2. q \in Seq(Int) /\ Len(q) = n - z
    BY <2>1, FirstFacts DEF z
  <2>3. Made(raw, h, q)
    BY <1>2, <2>1, <2>2, JoinFacts
  <2>4. n >= 1 /\ n >= 2 + c /\ n # 0
    BY <1>0, <1>12
  <2>5. codes = c /\ pathByte = PathByte(m) /\ start = z /\ raw[1] = HeaderByte(m)
    BY <1>7, <1>9, <1>10, <2>4
  <2>6. From(raw, z) = q
    <3>1. Len(raw) = z + Len(q) /\ Len(raw) <= Len(raw) /\ Len(raw) \in Nat
      BY <1>2, <1>4, <2>3 DEF Made
    <3>2. \A i \in 1..Len(q) : raw[z + i] = q[i]
      BY <1>2, <2>3 DEF Made
    <3>3. raw \in Seq(Int) /\ q \in Seq(Int) /\ z \in Nat
      BY <1>3, <1>4, <2>2
    <3>4. SubSeq(raw, z + 1, Len(raw)) = q
      BY <3>1, <3>2, <3>3, SliceIs
    <3> QED  BY <3>4 DEF From
  <2>7. SubSeq(raw, 3 + c, z) = m.path
    <3>1. 3 + c = (2 + c) + 1 /\ 2 + c \in Nat
      BY <1>0
    <3>4. z = (2 + c) + Len(m.path) /\ z <= Len(raw)
      BY <1>3, <1>4, <1>12
    <3>2. ASSUME NEW i \in 1..Len(m.path) PROVE raw[(2 + c) + i] = m.path[i]
      <4>1. i \in 1..l
        BY <1>3
      <4>2. (2 + c) + i \in 1..z /\ (2 + c) + i <= n
        BY <1>0, <1>12, <4>1
      <4> QED  BY <1>2, <1>6, <4>2
    <3>3. SubSeq(raw, (2 + c) + 1, z) = m.path
      BY <1>3, <1>4, <1>5, <3>1, <3>2, <3>4, SliceIs
    <3> QED  BY <3>1, <3>3
  <2>8. SubSeq(raw, 2, 1 + c) = m.codes
    <3>1. 1 + c \in Nat /\ 1 + c <= n
      BY <1>0, <2>4
    <3>4. 1 + c <= Len(raw) /\ 1 + c = 1 + Len(m.codes) /\ 1 \in Nat
      BY <1>3, <1>4, <3>1
    <3>2. ASSUME NEW i \in 1..Len(m.codes) PROVE raw[1 + i] = m.codes[i]
      <4>1. i \in 1..c
        BY <1>3
      <4>2. 1 + i \in 1..z /\ 1 + i <= n
        BY <1>0, <2>4, <4>1
      <4> QED  BY <1>2, <1>6, <4>1, <4>2
    <3>3. SubSeq(raw, 1 + 1, 1 + c) = m.codes
      BY <1>4, <1>5, <3>1, <3>2, <3>4, SliceIs
    <3>5. 1 + 1 = 2
      OBVIOUS
    <3> QED  BY <3>3, <3>5
  <2>9. /\ raw[1] % 4 = m.route_type /\ (raw[1] \div 4) % 16 = m.payload_type
        /\ raw[1] \div 64 = m.payload_version
    BY <2>5, HeaderFacts
  <2>10. /\ pathByte % 64 = Len(m.path) \div m.path_hash_size
         /\ size = m.path_hash_size
    BY <2>5, PathByteFacts
  <2>11. raw # <<>> /\ ~ (Len(raw) < 2 + codes) /\ ~ (Len(raw) < start)
    <3>1. raw # <<>>
      BY <1>4, <2>4, EmptySeq
    <3>2. ~ (n < 2 + c) /\ ~ (n < z)
      BY <1>0, <1>12
    <3> QED  BY <1>4, <2>5, <3>1, <3>2
  <2>12. Parse(raw) = [header |-> <<[route_type |-> raw[1] % 4,
                            payload_type |-> (raw[1] \div 4) % 16,
                            payload_version |-> raw[1] \div 64,
                            path_len |-> pathByte % 64,
                            path_hash_size |-> size,
                            path |-> SubSeq(raw, 3 + codes, start),
                            transport_code |-> SubSeq(raw, 2, 1 + codes)]>>,
              payload |-> From(raw, start),
              advertisement |-> ParseAdvert((raw[1] \div 4) % 16, From(raw, start))]
    BY <2>11 DEF Parse, codes, start, size, pathByte
  <2> HIDE DEF pathByte, size, start
  <2>13. Parse(raw) = [header |-> <<[route_type |-> m.route_type,
                            payload_type |-> m.payload_type,
                            payload_version |-> m.payload_version,
                            path_len |-> Len(m.path) \div m.path_hash_size,
                            path_hash_size |-> m.path_hash_size,
                            path |-> m.path,
                            transport_code |-> m.codes]>>,
              payload |-> q, advertisement |-> ParseAdvert(m.payload_type, q)]
    BY <2>5, <2>6, <2>7, <2>8, <2>9, <2>10, <2>12
  <2> QED  BY <2>1, <2>13 DEF HeaderOf
<1> QED  BY <1>4, <1>11, <1>12 DEF z, h

-----------------------------------------------------------------------------
(* Entries.                                                                *)

\* What an entry holds of a packet whose header is whole, with the part q of its payload.
InfoOf(m, q) ==
    LET hashes == ExtractDestSrcHashes(m.payload_type, m.payload_version, q)
    IN  [route_type |-> m.route_type, payload_type |-> m.payload_type,
         payload_version |-> m.payload_version,
         hops |-> Len(m.path) \div m.path_hash_size, path_hash_size |-> m.path_hash_size,
         path |-> m.path, transport_code |-> m.codes,
         dest |-> hashes.dest, src |-> hashes.src,
         channel |-> ExtractChannelHash(m.payload_type, m.payload_version, q),
         sender |-> ExtractAnonReqSender(m.payload_type, m.payload_version, q),
         advert |-> ParseAdvert(m.payload_type, q),
         control |-> DecodeControlPayload(m.payload_type, m.payload_version, q)]

IsEntry(e, id, at, event) == e = Keyed(BuildPacketLogEntry(id, at, event))

LEMMA NoEntry ==
    ASSUME NEW id, NEW at, NEW event, NEW e, IsEntry(e, id, at, event), event.header = None
    PROVE  e.header = None
BY DEF IsEntry, Keyed, BuildPacketLogEntry

LEMMA EntryFacts ==
    ASSUME NEW m, NEW q, NEW id, NEW at, NEW event, NEW e, IsEntry(e, id, at, event)
    PROVE  event = [header |-> <<HeaderOf(m)>>, payload |-> q,
                    advertisement |-> ParseAdvert(m.payload_type, q)]
                => e.header = <<InfoOf(m, q)>> /\ e.payload = q /\ e.header # None
<1>1. e.header = BuildPacketLogEntry(id, at, event).header /\ e.payload = event.payload
  <2>1. e.payload = BuildPacketLogEntry(id, at, event).payload
    BY DEF Keyed, IsEntry
  <2>2. BuildPacketLogEntry(id, at, event).payload = event.payload
    BY DEF BuildPacketLogEntry
  <2> QED  BY <2>1, <2>2 DEF Keyed, IsEntry
<1>2. ASSUME event = [header |-> <<HeaderOf(m)>>, payload |-> q,
                      advertisement |-> ParseAdvert(m.payload_type, q)]
      PROVE  e.header = <<InfoOf(m, q)>> /\ e.payload = q /\ e.header # None
  <2> DEFINE x == HeaderOf(m)
  <2>1. event.header = <<x>> /\ event.payload = q
          /\ event.advertisement = ParseAdvert(m.payload_type, q)
    BY <1>2
  <2>2. /\ x.route_type = m.route_type /\ x.payload_type = m.payload_type
        /\ x.payload_version = m.payload_version
        /\ x.path_len = Len(m.path) \div m.path_hash_size
        /\ x.path_hash_size = m.path_hash_size
        /\ x.path = m.path /\ x.transport_code = m.codes
    BY DEF HeaderOf
  <2> HIDE DEF x
  <2>3. event.header # None /\ event.header[1] = x
    <3>1. \A y : <<y>> # None /\ <<y>>[1] = y
      BY DEF None
    <3> QED  BY <2>1, <3>1
  <2>4. BuildPacketLogEntry(id, at, event).header
          = LET t == x.payload_type  v == x.payload_version
                hashes == ExtractDestSrcHashes(t, v, q)
            IN  <<[route_type |-> x.route_type, payload_type |-> t, payload_version |-> v,
                   hops |-> x.path_len, path_hash_size |-> x.path_hash_size,
                   path |-> x.path, transport_code |-> x.transport_code,
                   dest |-> hashes.dest, src |-> hashes.src,
                   channel |-> ExtractChannelHash(t, v, q),
                   sender |-> ExtractAnonReqSender(t, v, q),
                   advert |-> ParseAdvert(m.payload_type, q),
                   control |-> DecodeControlPayload(t, v, q)]>>
    BY <2>1, <2>3 DEF BuildPacketLogEntry
  <2>5. BuildPacketLogEntry(id, at, event).header = <<InfoOf(m, q)>>
    BY <2>2, <2>4 DEF InfoOf
  <2>6. \A y : <<y>> # None
    BY DEF None
  <2> QED  BY <1>1, <2>1, <2>5, <2>6
<1> QED  BY <1>2

LEMMA InfoFacts ==
    ASSUME NEW m, NEW q, NEW h, h = InfoOf(m, q)
    PROVE  LET hashes == ExtractDestSrcHashes(m.payload_type, m.payload_version, q)
           IN  /\ h.route_type = m.route_type /\ h.payload_type = m.payload_type
               /\ h.payload_version = m.payload_version
               /\ h.hops = Len(m.path) \div m.path_hash_size
               /\ h.path_hash_size = m.path_hash_size
               /\ h.path = m.path /\ h.transport_code = m.codes
               /\ h.dest = hashes.dest /\ h.src = hashes.src
               /\ h.channel = ExtractChannelHash(m.payload_type, m.payload_version, q)
               /\ h.sender = ExtractAnonReqSender(m.payload_type, m.payload_version, q)
               /\ h.advert = ParseAdvert(m.payload_type, q)
               /\ h.control = DecodeControlPayload(m.payload_type, m.payload_version, q)
BY DEF InfoOf

\* The entry's parts, put together again, are the packet.
LEMMA Reconstructed ==
    ASSUME NEW m, Framed(m), NEW q, NEW e, e.header = <<InfoOf(m, q)>>, e.payload = q
    PROVE  ReconstructRawPacket(e) = Preamble(m) \o q
<1> DEFINE h == e.header[1]
           below == IF h.path_hash_size = 0 THEN 0 ELSE h.path_hash_size - 1
           b == ((below * 64) % 256) + (h.hops % 64)
<1>1. h = InfoOf(m, q) /\ e.header # None
  <2>1. \A y : <<y>> # None /\ <<y>>[1] = y
    BY DEF None
  <2> QED  BY <2>1
<1> HIDE DEF h
<1>2. /\ h.route_type = m.route_type /\ h.payload_type = m.payload_type
      /\ h.payload_version = m.payload_version
      /\ h.hops = Len(m.path) \div m.path_hash_size
      /\ h.path_hash_size = m.path_hash_size
      /\ h.path = m.path /\ h.transport_code = m.codes
  BY <1>1, InfoFacts
<1>3. HeaderByte(h) = HeaderByte(m)
  BY <1>2 DEF HeaderByte
<1>4. b = PathByte(m)
  <2> DEFINE k == Len(m.path) \div m.path_hash_size
             z == m.path_hash_size
  <2>1. k \in 0..63 /\ z \in 1..4 /\ PathByte(m) = (z - 1) * 64 + k
    <3>1. k \in 0..63
      BY PathByteFacts
    <3> QED  BY <3>1 DEF Framed, PathByte
  <2>2. below = z - 1 /\ h.hops = k
    <3> HIDE DEF k
    <3>1. z # 0
      BY <2>1
    <3> QED  BY <1>2, <3>1 DEF k
  <2> HIDE DEF below, k, z
  <2>3. b = (((z - 1) * 64) % 256) + (k % 64)
    BY <2>2
  <2>4. k % 64 = k /\ ((z - 1) * 64) % 256 = (z - 1) * 64
    BY <2>1
  <2> QED  BY <2>1, <2>3, <2>4
<1> HIDE DEF b
<1>5. ReconstructRawPacket(e)
        = <<HeaderByte(h)>> \o h.transport_code \o <<b>> \o h.path \o e.payload
  BY <1>1 DEF ReconstructRawPacket, h, b
<1> QED  BY <1>2, <1>3, <1>4, <1>5 DEF Preamble

\* What is published of it is its own length, bytes and route.
LEMMA Published ==
    ASSUME NEW m, Framed(m), NEW q \in Seq(Int), NEW e, e.header = <<InfoOf(m, q)>>,
           e.payload = q, NEW raw, raw = Preamble(m) \o q
    PROVE  PublishedAsHeard(e, m, raw)
<1> DEFINE h == e.header[1]
           codes == IF h.transport_code = None THEN 0 ELSE TransportCodeSize
           route == IF h.route_type \in {Direct, TransportDirect} THEN None ELSE <<h.hops>>
           capture == PacketTraficJson(e)[1]
<1>1. h = InfoOf(m, q) /\ e.header # None
  <2>1. \A y : <<y>> # None /\ <<y>>[1] = y
    BY DEF None
  <2> QED  BY <2>1
<1> HIDE DEF h
<1>2. /\ h.route_type = m.route_type
      /\ h.hops = Len(m.path) \div m.path_hash_size
      /\ h.path = m.path /\ h.transport_code = m.codes
  BY <1>1, InfoFacts
<1>3. ReconstructRawPacket(e) = raw
  BY Reconstructed
<1>4. codes = Len(m.codes) /\ Len(m.codes) \in Nat /\ Len(m.path) \in Nat /\ Len(q) \in Nat
  <2>1. m.codes \in Seq(Byte) /\ Len(m.codes) \in {0, TransportCodeSize}
    BY DEF Framed
  <2>2. m.codes = None <=> Len(m.codes) = 0
    <3>1. Len(<<>>) = 0 /\ (m.codes # <<>> => Len(m.codes) \in Nat \ {0})
      BY <2>1, EmptySeq
    <3> QED  BY <3>1 DEF None
  <2>3. codes = Len(m.codes)
    BY <1>2, <2>1, <2>2
  <2>4. Len(m.codes) \in Nat /\ Len(m.path) \in Nat
    BY PreambleFacts
  <2> QED  BY <2>3, <2>4, LenProperties
<1>5. capture = [len |-> 1 + codes + 1 + Len(h.path) + Len(e.payload),
                 packet_type |-> h.payload_type, route |-> route,
                 payload_len |-> Len(e.payload),
                 raw |-> UpTo(ReconstructRawPacket(e), PublishedSize)]
  BY <1>1 DEF PacketTraficJson, h
<1> HIDE DEF codes, route
<1>6. /\ capture.len = 1 + codes + 1 + Len(h.path) + Len(e.payload)
      /\ capture.route = route
      /\ capture.raw = UpTo(ReconstructRawPacket(e), PublishedSize)
  <2> HIDE DEF capture
  <2> QED  BY <1>5
<1> HIDE DEF capture
<1>7. Len(raw) = PreambleSize(m) + Len(q)
  <2>1. Preamble(m) \in Seq(Int) /\ Len(Preamble(m)) = PreambleSize(m)
    BY PreambleFacts
  <2> QED  BY <2>1, JoinFacts DEF Made
<1>8. capture.len = Len(raw)
  <2> DEFINE c == Len(m.codes)
             l == Len(m.path)
             k == Len(q)
  <2>1. capture.len = 1 + c + 1 + l + k
    BY <1>2, <1>4, <1>6
  <2>2. c \in Nat /\ l \in Nat /\ k \in Nat
    BY <1>4
  <2>3. PreambleSize(m) = 2 + c + l
    BY DEF PreambleSize
  <2> HIDE DEF c, l, k
  <2>4. 1 + c + 1 + l + k = 2 + c + l + k
    BY <2>2
  <2> QED  BY <1>7, <2>1, <2>3, <2>4 DEF k
<1>9. capture.route = IF m.route_type \in {Direct, TransportDirect} THEN None
                      ELSE <<Len(m.path) \div m.path_hash_size>>
  BY <1>2, <1>6 DEF route
<1>10. capture.raw = UpTo(raw, PublishedSize)
  BY <1>3, <1>6
<1>11. RawJson(e) = raw
  BY <1>3 DEF RawJson
<1> QED  BY <1>8, <1>9, <1>10, <1>11 DEF PublishedAsHeard, capture

-----------------------------------------------------------------------------
(* Numbers on the air.                                                     *)

LEMMA SomeSizes ==
    /\ PUB_KEY_SIZE \in Nat /\ PUB_KEY_SIZE >= 1 /\ ShortKeySize \in Nat /\ ShortKeySize >= 1
    /\ ShortKeySize < PUB_KEY_SIZE
    /\ CIPHER_MAC_SIZE \in Nat /\ CIPHER_MAC_SIZE >= 1
    /\ CIPHER_KEY_SIZE \in Nat /\ CIPHER_KEY_SIZE >= 1
    /\ WordSize \in Nat /\ WordSize >= 2
<1>1. /\ PUB_KEY_SIZE \in Nat \ {0} /\ ShortKeySize \in Nat \ {0}
      /\ CIPHER_MAC_SIZE \in Nat \ {0} /\ CIPHER_KEY_SIZE \in Nat \ {0}
      /\ WordSize \in Nat \ {0, 1} /\ ShortKeySize < PUB_KEY_SIZE
  BY SizesAssumption
<1> QED  BY <1>1

IsShifted(f, n, w) == f = [k \in 0..w |-> IF k = 0 THEN n ELSE f[k - 1] \div 256]

LEMMA ShiftedExist ==
    ASSUME NEW n \in Nat, NEW Z
    PROVE  \E f : IsShifted(f, Z, n)
<1> DEFINE G(v, k) == v \div 256
           Is(f, m) == f = [k \in 0..m |-> IF k = 0 THEN Z ELSE G(f[k - 1], k)]
           T == {k \in Nat : ~\E f : Is(f, k)}
<1>0. \A f, m : IsShifted(f, Z, m) <=> Is(f, m)
  BY DEF IsShifted
<1> HIDE DEF G
<1>1. SUFFICES ASSUME T # {} PROVE FALSE
  <2>1. n \notin T => \E f : Is(f, n)
    OBVIOUS
  <2> HIDE DEF T, Is
  <2> QED  BY <1>0, <2>1
<1>2. PICK k \in T : \A i \in T : k <= i
  <2>1. T \in SUBSET Nat
    OBVIOUS
  <2> HIDE DEF T
  <2> QED  BY <1>1, <2>1, HasMin
<1>3. CASE k = 0
  <2> DEFINE f == [m \in 0..0 |-> Z]
  <2>1. Is(f, 0)
    OBVIOUS
  <2> QED  BY <1>3, <2>1
<1>4. CASE k # 0
  <2>1. k - 1 \in Nat /\ k \in Nat /\ k - 1 \notin T
    <3>1. k \in Nat
      BY <1>2
    <3> HIDE DEF T
    <3>2. k - 1 \in Nat /\ ~ (k <= k - 1)
      BY <1>4, <3>1
    <3> QED  BY <1>2, <3>1, <3>2
  <2>2. PICK f : Is(f, k - 1)
    BY <2>1
  <2>3. \A m \in 0..k - 1 : f[m] = IF m = 0 THEN Z ELSE G(f[m - 1], m)
    BY <2>2
  <2> DEFINE g == [m \in 0..k |-> IF m = k THEN G(f[k - 1], k) ELSE f[m]]
  <2>4. ASSUME NEW m \in 0..k PROVE g[m] = IF m = 0 THEN Z ELSE G(g[m - 1], m)
    <3>1. CASE m = k
      <4>1. g[m] = G(f[k - 1], k) /\ g[m - 1] = f[k - 1]
        BY <2>1, <3>1
      <4> QED  BY <1>4, <3>1, <4>1
    <3>2. CASE m # k
      <4>1. m \in 0..k - 1 /\ g[m] = f[m]
        BY <2>1, <3>2
      <4>2. m # 0 => g[m - 1] = f[m - 1]
        BY <2>1, <3>2
      <4> QED  BY <2>3, <4>1, <4>2
    <3> QED  BY <3>1, <3>2
  <2>5. g = [m \in 0..k |-> g[m]]
    OBVIOUS
  <2> HIDE DEF g
  <2>6. Is(g, k)
    BY <2>4, <2>5
  <2> QED  BY <1>2, <2>6
<1> QED  BY <1>3, <1>4

\* A number without its lowest bytes, one byte at a time.
LEMMA ShiftedFacts ==
    ASSUME NEW n \in Nat
    PROVE  /\ Shifted(n)[0] = n
           /\ \A k \in 1..WordSize : Shifted(n)[k] = Shifted(n)[k - 1] \div 256
           /\ \A k \in 0..WordSize : Shifted(n)[k] \in Nat
<1> DEFINE f == CHOOSE f : f = [k \in 0..WordSize |-> IF k = 0 THEN n ELSE f[k - 1] \div 256]
           T == {k \in 0..WordSize : f[k] \notin Nat}
<1>1. Shifted(n) = f
  BY DEF Shifted
<1>2. IsShifted(f, n, WordSize)
  <2> DEFINE Is(g) == g = [k \in 0..WordSize |-> IF k = 0 THEN n ELSE g[k - 1] \div 256]
  <2>1. \A g : IsShifted(g, n, WordSize) <=> Is(g)
    BY DEF IsShifted
  <2>2. f = CHOOSE g : Is(g)
    OBVIOUS
  <2>3. WordSize \in Nat
    BY SomeSizes
  <2> HIDE DEF f, Is
  <2> QED  BY <2>1, <2>2, <2>3, ShiftedExist
<1> HIDE DEF f
<1>3. WordSize \in Nat
  BY SomeSizes
<1>4. \A k \in 0..WordSize : f[k] = IF k = 0 THEN n ELSE f[k - 1] \div 256
  BY <1>2 DEF IsShifted
<1>5. f[0] = n /\ \A k \in 1..WordSize : f[k] = f[k - 1] \div 256
  BY <1>3, <1>4
<1>6. T = {}
  <2> SUFFICES ASSUME T # {} PROVE FALSE
    OBVIOUS
  <2>1. PICK k \in T : \A j \in T : k <= j
    <3>1. T \in SUBSET Nat
      OBVIOUS
    <3> HIDE DEF T
    <3> QED  BY <3>1, HasMin
  <2>2. k # 0
    BY <1>5
  <2>3. k \in 1..WordSize /\ k - 1 \in 0..WordSize /\ k - 1 \notin T
    BY <1>3, <2>1, <2>2
  <2>4. f[k - 1] \in Nat /\ f[k] = f[k - 1] \div 256
    BY <1>5, <2>3
  <2>5. \A x \in Nat : x \div 256 \in Nat
    OBVIOUS
  <2> QED  BY <2>4, <2>5
<1> QED  BY <1>1, <1>5, <1>6

IsValue(f, bytes, w) ==
    f = [k \in 0..w |-> IF k = 0 THEN 0 ELSE bytes[Len(bytes) + 1 - k] + 256 * f[k - 1]]

LEMMA ValueExists ==
    ASSUME NEW n \in Nat, NEW Z
    PROVE  \E f : IsValue(f, Z, n)
<1> DEFINE G(v, k) == Z[Len(Z) + 1 - k] + 256 * v
           Is(f, m) == f = [k \in 0..m |-> IF k = 0 THEN 0 ELSE G(f[k - 1], k)]
           T == {k \in Nat : ~\E f : Is(f, k)}
<1>0. \A f, m : IsValue(f, Z, m) <=> Is(f, m)
  BY DEF IsValue
<1> HIDE DEF G
<1>1. SUFFICES ASSUME T # {} PROVE FALSE
  <2>1. n \notin T => \E f : Is(f, n)
    OBVIOUS
  <2> HIDE DEF T, Is
  <2> QED  BY <1>0, <2>1
<1>2. PICK k \in T : \A i \in T : k <= i
  <2>1. T \in SUBSET Nat
    OBVIOUS
  <2> HIDE DEF T
  <2> QED  BY <1>1, <2>1, HasMin
<1>3. CASE k = 0
  <2> DEFINE f == [m \in 0..0 |-> 0]
  <2>1. Is(f, 0)
    OBVIOUS
  <2> QED  BY <1>3, <2>1
<1>4. CASE k # 0
  <2>1. k - 1 \in Nat /\ k \in Nat /\ k - 1 \notin T
    <3>1. k \in Nat
      BY <1>2
    <3> HIDE DEF T
    <3>2. k - 1 \in Nat /\ ~ (k <= k - 1)
      BY <1>4, <3>1
    <3> QED  BY <1>2, <3>1, <3>2
  <2>2. PICK f : Is(f, k - 1)
    BY <2>1
  <2>3. \A m \in 0..k - 1 : f[m] = IF m = 0 THEN 0 ELSE G(f[m - 1], m)
    BY <2>2
  <2> DEFINE g == [m \in 0..k |-> IF m = k THEN G(f[k - 1], k) ELSE f[m]]
  <2>4. ASSUME NEW m \in 0..k PROVE g[m] = IF m = 0 THEN 0 ELSE G(g[m - 1], m)
    <3>1. CASE m = k
      <4>1. g[m] = G(f[k - 1], k) /\ g[m - 1] = f[k - 1]
        BY <2>1, <3>1
      <4> QED  BY <1>4, <3>1, <4>1
    <3>2. CASE m # k
      <4>1. m \in 0..k - 1 /\ g[m] = f[m]
        BY <2>1, <3>2
      <4>2. m # 0 => g[m - 1] = f[m - 1]
        BY <2>1, <3>2
      <4> QED  BY <2>3, <4>1, <4>2
    <3> QED  BY <3>1, <3>2
  <2>5. g = [m \in 0..k |-> g[m]]
    OBVIOUS
  <2> HIDE DEF g
  <2>6. Is(g, k)
    BY <2>4, <2>5
  <2> QED  BY <1>2, <2>6
<1> QED  BY <1>3, <1>4

\* A number's bytes tell it, when it has no more of them.
LEMMA LittleEndian ==
    ASSUME NEW n \in Nat
    PROVE  /\ ToLittleEndian(n) \in Seq(Byte) /\ Len(ToLittleEndian(n)) = WordSize
           /\ Shifted(n)[WordSize] = 0 => from_le_bytes(ToLittleEndian(n)) = n
<1> DEFINE b == ToLittleEndian(n)
           s == Shifted(n)
<1>1. WordSize \in Nat /\ WordSize >= 2
  BY SomeSizes
<1>2. /\ s[0] = n
      /\ \A k \in 1..WordSize : s[k] = s[k - 1] \div 256
      /\ \A k \in 0..WordSize : s[k] \in Nat
  BY ShiftedFacts
<1> HIDE DEF s
<1>3. b = [i \in 1..WordSize |-> s[i - 1] % 256]
  BY DEF ToLittleEndian, s
<1>4. \A i \in 1..WordSize : s[i - 1] \in Nat /\ s[i - 1] % 256 \in 0..255 /\ i - 1 \in 0..WordSize
  <2>1. \A i \in 1..WordSize : i - 1 \in 0..WordSize
    BY <1>1
  <2>2. \A x \in Nat : x % 256 \in 0..255
    OBVIOUS
  <2> QED  BY <1>2, <2>1, <2>2
<1>5. b \in Seq(Byte) /\ Len(b) = WordSize /\ \A i \in 1..WordSize : b[i] = s[i - 1] % 256
  <2>1. b \in [1..WordSize -> 0..255]
    <3> DEFINE e(i) == s[i - 1] % 256
    <3>1. \A i \in 1..WordSize : e(i) \in 0..255
      BY <1>4
    <3>2. b = [i \in 1..WordSize |-> e(i)]
      BY <1>3
    <3> HIDE DEF e, b
    <3> QED  BY <3>1, <3>2
  <2>2. b \in Seq(0..255) /\ Len(b) = WordSize
    BY <1>1, <2>1
  <2> QED  BY <1>3, <2>2 DEF Byte
<1>6. ASSUME s[WordSize] = 0 PROVE from_le_bytes(b) = n
  <2> DEFINE L == Len(b)
             f == CHOOSE f : f = [k \in 0..L |-> IF k = 0 THEN 0 ELSE b[L + 1 - k] + 256 * f[k - 1]]
             T == {k \in 0..WordSize : f[k] # s[WordSize - k]}
  <2>1. from_le_bytes(b) = f[L]
    BY DEF from_le_bytes
  <2> HIDE DEF b
  <2>2. IsValue(f, b, L)
    <3> DEFINE Is(g) == g = [k \in 0..L |-> IF k = 0 THEN 0 ELSE b[L + 1 - k] + 256 * g[k - 1]]
    <3>1. \A g : IsValue(g, b, L) <=> Is(g)
      BY DEF IsValue
    <3>2. f = CHOOSE g : Is(g)
      OBVIOUS
    <3>3. L \in Nat
      BY <1>1, <1>5
    <3> HIDE DEF f, Is
    <3> QED  BY <3>1, <3>2, <3>3, ValueExists
  <2> HIDE DEF f
  <2>3. L = WordSize
    BY <1>5
  <2>4. \A k \in 0..WordSize : f[k] = IF k = 0 THEN 0 ELSE b[WordSize + 1 - k] + 256 * f[k - 1]
    BY <2>2, <2>3 DEF IsValue
  <2> HIDE DEF L
  <2>5. f[0] = 0 /\ \A k \in 1..WordSize : f[k] = b[WordSize + 1 - k] + 256 * f[k - 1]
    BY <1>1, <2>4
  <2>6. T = {}
    <3> SUFFICES ASSUME T # {} PROVE FALSE
      OBVIOUS
    <3>1. PICK k \in T : \A j \in T : k <= j
      <4>1. T \in SUBSET Nat
        OBVIOUS
      <4> HIDE DEF T
      <4> QED  BY <4>1, HasMin
    <3>2. k # 0
      BY <1>1, <1>6, <2>5
    <3>3. k \in 1..WordSize /\ k - 1 \in 0..WordSize /\ k - 1 \notin T
      BY <1>1, <3>1, <3>2
    <3>4. f[k - 1] = s[WordSize - (k - 1)] /\ f[k] = b[WordSize + 1 - k] + 256 * f[k - 1]
      BY <2>5, <3>3
    <3> DEFINE j == WordSize - k
    <3>5. j \in 0..WordSize /\ j + 1 \in 1..WordSize /\ WordSize - (k - 1) = j + 1 /\ WordSize + 1 - k = j + 1 /\ (j + 1) - 1 = j
      BY <1>1, <3>3
    <3>6. s[j + 1] = s[j] \div 256 /\ b[j + 1] = s[j] % 256 /\ s[j] \in Nat
      <4>1. \A i \in 1..WordSize : s[i] = s[i - 1] \div 256 /\ b[i] = s[i - 1] % 256
        BY <1>2, <1>5
      <4> HIDE DEF j
      <4>2. s[j + 1] = s[(j + 1) - 1] \div 256 /\ b[j + 1] = s[(j + 1) - 1] % 256
        BY <3>5, <4>1
      <4> QED  BY <1>2, <3>5, <4>2
    <3>7. f[k] = b[j + 1] + 256 * s[j + 1]
      <4> HIDE DEF j
      <4> QED  BY <3>4, <3>5
    <3> HIDE DEF j
    <3>8. \A x \in Nat : (x % 256) + 256 * (x \div 256) = x
      OBVIOUS
    <3>9. f[k] = s[j]
      BY <3>6, <3>7, <3>8
    <3> QED  BY <3>9 DEF j
  <2>7. WordSize \in 0..WordSize /\ WordSize - WordSize = 0
    BY <1>1
  <2>8. f[WordSize] = s[WordSize - WordSize]
    BY <2>6, <2>7
  <2> QED  BY <1>2, <2>1, <2>3, <2>7, <2>8 DEF L
<1> QED  BY <1>5, <1>6 DEF s

-----------------------------------------------------------------------------
(* Payloads.                                                               *)

LEMMA BytesAreInts ==
    ASSUME NEW s \in Seq(Byte)
    PROVE  s \in Seq(Int) /\ Len(s) \in Nat
<1>1. Byte \subseteq Int
  BY DEF Byte
<1> QED  BY <1>1, SeqMonotonic, LenProperties

LEMMA JoinedBytes ==
    ASSUME NEW s \in Seq(Byte), NEW t \in Seq(Byte)
    PROVE  s \o t \in Seq(Byte) /\ Len(s \o t) = Len(s) + Len(t)
BY ConcatProperties

LEMMA NoBytes ==
    ASSUME NEW s \in Seq(Byte)
    PROVE  /\ Len(s) = 0 => s = <<>>
           /\ s \o <<>> = s /\ <<>> \o s = s
           /\ <<>> \in Seq(Byte) /\ Len(<<>>) = 0
<1>1. <<>> \in Seq(Byte) /\ Len(<<>>) = 0 /\ (s # <<>> => Len(s) \in Nat \ {0})
  BY EmptySeq
<1>2. s \o <<>> = s /\ <<>> \o s = s
  BY ConcatEmptySeq
<1> QED  BY <1>1, <1>2

LEMMA OneByte ==
    ASSUME NEW s \in Seq(Byte), Len(s) = 1
    PROVE  s = <<s[1]>> /\ s[1] \in Byte
<1>1. 1 \in 1..Len(s)
  OBVIOUS
<1>2. s[1] \in Byte
  BY <1>1, ElementOfSeq
<1>3. \A x \in Byte : <<x>> \in Seq(Byte) /\ Len(<<x>>) = 1 /\ <<x>>[1] = x
  OBVIOUS
<1>4. \A i \in 1..Len(s) : s[i] = <<s[1]>>[i]
  <2>1. \A i \in 1..1 : i = 1
    OBVIOUS
  <2> QED  BY <1>2, <1>3, <2>1
<1>5. <<s[1]>> \in Seq(Byte) /\ Len(<<s[1]>>) = Len(s)
  BY <1>2, <1>3
<1>6. s = <<s[1]>>
  BY <1>4, <1>5, SeqEqual
<1> QED  BY <1>2, <1>6

\* A discovery is two bytes, a tag and the rest.
ControlStart(c) ==
    IF c.kind = "DiscoverReq" THEN <<IF c.prefix_only THEN 129 ELSE 128, c.type_filter>>
    ELSE <<144 + c.node_type, c.snr % 256>>
ControlRest(c) ==
    IF c.kind = "DiscoverReq"
    THEN IF c.since = None THEN <<>> ELSE ToLittleEndian(c.since[1]) ELSE c.pubkey

LEMMA ControlForm ==
    ASSUME NEW c, ControlOK(c)
    PROVE  /\ ControlBytes(c) = ControlStart(c) \o c.tag \o ControlRest(c)
           /\ ControlStart(c) \in Seq(Byte) /\ Len(ControlStart(c)) = 2
           /\ c.tag \in Seq(Byte) /\ Len(c.tag) = WordSize
           /\ ControlRest(c) \in Seq(Byte)
           /\ c.kind = "DiscoverReq" =>
                /\ c.prefix_only \in BOOLEAN /\ c.type_filter \in Byte
                /\ c.since = None \/ (c.since = <<c.since[1]>> /\ c.since[1] \in Nat
                                        /\ Shifted(c.since[1])[WordSize] = 0)
                /\ c = [kind |-> "DiscoverReq", prefix_only |-> c.prefix_only,
                        type_filter |-> c.type_filter, tag |-> c.tag, since |-> c.since]
           /\ c.kind # "DiscoverReq" =>
                /\ c.kind = "DiscoverResp" /\ c.node_type \in 0..15 /\ c.snr \in -128..127
                /\ c.pubkey \in Seq(Byte) /\ Len(c.pubkey) \in {ShortKeySize, PUB_KEY_SIZE}
                /\ c = [kind |-> "DiscoverResp", node_type |-> c.node_type, snr |-> c.snr,
                        tag |-> c.tag, pubkey |-> c.pubkey]
<1>0. \A x, y \in Byte : <<x, y>> \in Seq(Byte) /\ Len(<<x, y>>) = 2
  OBVIOUS
<1>1. CASE c.kind = "DiscoverReq"
  <2>1. c \in [kind : {"DiscoverReq"}, prefix_only : BOOLEAN, type_filter : Byte,
               tag : Seq(Byte), since : Seq(Nat)]
    BY <1>1 DEF ControlOK
  <2>2. /\ Len(c.tag) = WordSize
        /\ c.since = None \/ (Len(c.since) = 1 /\ Shifted(c.since[1])[WordSize] = 0)
    BY <1>1 DEF ControlOK
  <2>3. /\ c.prefix_only \in BOOLEAN /\ c.type_filter \in Byte /\ c.tag \in Seq(Byte)
        /\ c.since \in Seq(Nat)
        /\ c = [kind |-> "DiscoverReq", prefix_only |-> c.prefix_only,
                type_filter |-> c.type_filter, tag |-> c.tag, since |-> c.since]
    BY <2>1
  <2>4. c.since = None \/ (c.since = <<c.since[1]>> /\ c.since[1] \in Nat
                             /\ Shifted(c.since[1])[WordSize] = 0)
    <3>1. \A s \in Seq(Nat) : Len(s) = 1 => s = <<s[1]>> /\ s[1] \in Nat
      OBVIOUS
    <3> QED  BY <2>2, <2>3, <3>1
  <2>5. ControlStart(c) \in Seq(Byte) /\ Len(ControlStart(c)) = 2
    <3>1. 128 \in Byte /\ 129 \in Byte
      BY DEF Byte
    <3> QED  BY <1>0, <1>1, <2>3, <3>1 DEF ControlStart
  <2>6. ControlRest(c) \in Seq(Byte)
    <3>1. <<>> \in Seq(Byte)
      BY EmptySeq
    <3>2. CASE c.since = None
      BY <1>1, <3>1, <3>2 DEF ControlRest
    <3>3. CASE c.since # None
      <4>1. ToLittleEndian(c.since[1]) \in Seq(Byte)
        BY <2>4, <3>3, LittleEndian
      <4> QED  BY <1>1, <3>3, <4>1 DEF ControlRest
    <3> QED  BY <3>2, <3>3
  <2>7. ControlBytes(c) = ControlStart(c) \o c.tag \o ControlRest(c)
    BY <1>1 DEF ControlBytes, ControlStart, ControlRest
  <2> QED  BY <1>1, <2>2, <2>3, <2>4, <2>5, <2>6, <2>7
<1>2. CASE c.kind # "DiscoverReq"
  <2>1. c \in [kind : {"DiscoverResp"}, node_type : 0..15, snr : -128..127,
               tag : Seq(Byte), pubkey : Seq(Byte)]
    BY <1>2 DEF ControlOK
  <2>2. Len(c.tag) = WordSize /\ Len(c.pubkey) \in {ShortKeySize, PUB_KEY_SIZE}
    BY <1>2 DEF ControlOK
  <2>3. /\ c.kind = "DiscoverResp" /\ c.node_type \in 0..15 /\ c.snr \in -128..127
        /\ c.tag \in Seq(Byte) /\ c.pubkey \in Seq(Byte)
        /\ c = [kind |-> "DiscoverResp", node_type |-> c.node_type, snr |-> c.snr,
                tag |-> c.tag, pubkey |-> c.pubkey]
    BY <2>1
  <2>4. ControlStart(c) \in Seq(Byte) /\ Len(ControlStart(c)) = 2
    <3>1. \A x \in 0..15 : 144 + x \in 0..255
      OBVIOUS
    <3>2. \A x \in -128..127 : x % 256 \in 0..255
      OBVIOUS
    <3>3. 144 + c.node_type \in Byte /\ c.snr % 256 \in Byte
      BY <2>3, <3>1, <3>2 DEF Byte
    <3> QED  BY <1>0, <1>2, <3>3 DEF ControlStart
  <2>5. ControlRest(c) = c.pubkey
    BY <1>2 DEF ControlRest
  <2>6. ControlBytes(c) = ControlStart(c) \o c.tag \o ControlRest(c)
    BY <2>3, <2>5 DEF ControlBytes, ControlStart
  <2> QED  BY <1>2, <2>2, <2>3, <2>4, <2>5, <2>6
<1> QED  BY <1>1, <1>2

\* An advertisement is a key and three bytes.
LEMMA AdvertForm ==
    ASSUME NEW advert, advert # None, AdvertOK(advert[1])
    PROVE  LET a == advert[1]
           IN  /\ AdvertBytes(advert) = a.key \o <<a.type, a.pos, a.name>>
               /\ a.key \in Seq(Byte) /\ Len(a.key) = PUB_KEY_SIZE
               /\ <<a.type, a.pos, a.name>> \in Seq(Byte) /\ Len(<<a.type, a.pos, a.name>>) = 3
               /\ a = [key |-> a.key, type |-> a.type, pos |-> a.pos, name |-> a.name]
               /\ AdvertBytes(advert) \in Seq(Byte)
<1> DEFINE a == advert[1]
<1>1. a \in [key : Seq(Byte), type : Byte, pos : Byte, name : Byte] /\ Len(a.key) = PUB_KEY_SIZE
  BY DEF AdvertOK
<1>2. AdvertBytes(advert) = a.key \o <<a.type, a.pos, a.name>>
  BY DEF AdvertBytes
<1> HIDE DEF a
<1>3. /\ a.key \in Seq(Byte) /\ a.type \in Byte /\ a.pos \in Byte /\ a.name \in Byte
      /\ a = [key |-> a.key, type |-> a.type, pos |-> a.pos, name |-> a.name]
  BY <1>1
<1>4. \A x, y, z \in Byte : <<x, y, z>> \in Seq(Byte) /\ Len(<<x, y, z>>) = 3
  OBVIOUS
<1>5. <<a.type, a.pos, a.name>> \in Seq(Byte) /\ Len(<<a.type, a.pos, a.name>>) = 3
  BY <1>3, <1>4
<1>6. AdvertBytes(advert) \in Seq(Byte)
  BY <1>2, <1>3, <1>5, JoinedBytes
<1> QED  BY <1>1, <1>2, <1>3, <1>5, <1>6 DEF a

\* What each type of payload is made of.
Addressed == {Req, Response, TextMsg, PathReturn}

Pieces(d, s, c, k, a, o, b) == d \o s \o c \o k \o a \o o \o b

LEMMA SomePieces ==
    ASSUME NEW x \in Seq(Byte), NEW y \in Seq(Byte), NEW z \in Seq(Byte)
    PROVE  /\ Pieces(x, y, <<>>, <<>>, <<>>, <<>>, z) = x \o y \o z
           /\ Pieces(x, <<>>, <<>>, y, <<>>, <<>>, z) = x \o y \o z
           /\ Pieces(<<>>, <<>>, x, <<>>, <<>>, <<>>, z) = x \o z
           /\ Pieces(<<>>, <<>>, <<>>, <<>>, x, <<>>, <<>>) = x
           /\ Pieces(<<>>, <<>>, <<>>, <<>>, <<>>, x, <<>>) = x
           /\ Pieces(<<>>, <<>>, <<>>, <<>>, <<>>, <<>>, z) = z
<1>1. \A s \in Seq(Byte) : s \o <<>> = s /\ <<>> \o s = s
  BY NoBytes
<1>2. x \o y \in Seq(Byte) /\ <<>> \in Seq(Byte)
  BY JoinedBytes, NoBytes
<1>3. Pieces(x, y, <<>>, <<>>, <<>>, <<>>, z) = x \o y \o z
  BY <1>1, <1>2 DEF Pieces
<1>4. Pieces(x, <<>>, <<>>, y, <<>>, <<>>, z) = x \o y \o z
  BY <1>1, <1>2 DEF Pieces
<1>5. Pieces(<<>>, <<>>, x, <<>>, <<>>, <<>>, z) = x \o z
  BY <1>1, <1>2 DEF Pieces
<1>6. Pieces(<<>>, <<>>, <<>>, <<>>, x, <<>>, <<>>) = x
  BY <1>1, <1>2 DEF Pieces
<1>7. Pieces(<<>>, <<>>, <<>>, <<>>, <<>>, x, <<>>) = x
  BY <1>1, <1>2 DEF Pieces
<1>8. Pieces(<<>>, <<>>, <<>>, <<>>, <<>>, <<>>, z) = z
  BY <1>1, <1>2 DEF Pieces
<1> QED  BY <1>3, <1>4, <1>5, <1>6, <1>7, <1>8

\* The bytes of a text on a channel.
LEMMA ChannelForm ==
    ASSUME NEW m \in Messages
    PROVE  /\ m.text = None => ChannelBytes(m) = m.channel
           /\ m.text # None => /\ ChannelBytes(m) = m.channel \o HMAC(m.secret, Cipher(m)) \o Cipher(m)
                               /\ HMAC(m.secret, Cipher(m)) \in Seq(Byte)
                               /\ Len(HMAC(m.secret, Cipher(m))) = CIPHER_MAC_SIZE
                               /\ Cipher(m) \in Seq(Byte)
           /\ ChannelBytes(m) \in Seq(Byte)
<1>1. m.channel \in Seq(Byte)
  BY MessagesAssumption DEF WellFormed, Carries
<1>2. m.text = None => ChannelBytes(m) = m.channel
  BY DEF ChannelBytes
<1>3. ASSUME m.text # None
      PROVE  /\ ChannelBytes(m) = m.channel \o HMAC(m.secret, Cipher(m)) \o Cipher(m)
             /\ HMAC(m.secret, Cipher(m)) \in Seq(Byte)
             /\ Len(HMAC(m.secret, Cipher(m))) = CIPHER_MAC_SIZE
             /\ Cipher(m) \in Seq(Byte)
             /\ ChannelBytes(m) \in Seq(Byte)
  <2>1. /\ HMAC(m.secret, Cipher(m)) \in Seq(Byte) /\ Cipher(m) \in Seq(Byte)
        /\ Len(HMAC(m.secret, Cipher(m))) = CIPHER_MAC_SIZE
    BY <1>3, CipherAssumption
  <2>2. ChannelBytes(m) = m.channel \o HMAC(m.secret, Cipher(m)) \o Cipher(m)
    BY <1>3 DEF ChannelBytes, Cipher
  <2> DEFINE h == HMAC(m.secret, Cipher(m))
             c == Cipher(m)
  <2> HIDE DEF h, c
  <2>3. m.channel \o h \in Seq(Byte)
    BY <1>1, <2>1, JoinedBytes DEF h
  <2>4. m.channel \o h \o c \in Seq(Byte)
    BY <2>1, <2>3, JoinedBytes DEF c
  <2> QED  BY <2>1, <2>2, <2>4 DEF h, c
<1> QED  BY <1>1, <1>2, <1>3

LEMMA Payloads ==
    ASSUME NEW m \in Messages
    PROVE  LET t == m.payload_type
           IN  /\ Framed(m)
               /\ Payload(m) \in Seq(Byte)
               /\ m.dest \in Seq(Byte) /\ m.src \in Seq(Byte) /\ m.channel \in Seq(Byte)
               /\ m.sender \in Seq(Byte) /\ m.body \in Seq(Byte)
               /\ t \in Addressed => /\ Payload(m) = m.dest \o m.src \o m.body
                                    /\ Len(m.dest) = 1 /\ Len(m.src) = 1
               /\ t = AnonReq => /\ Payload(m) = m.dest \o m.sender \o m.body
                                 /\ Len(m.dest) = 1 /\ Len(m.sender) = PUB_KEY_SIZE
               /\ t \in {GroupText, GroupData} => /\ Payload(m) = ChannelBytes(m) \o m.body
                                                  /\ Len(m.channel) = 1
               /\ t = GroupText => Payload(m) = ChannelBytes(m) /\ m.text = <<m.text[1]>>
               /\ t = Advert => /\ Payload(m) = AdvertBytes(m.advert)
                                /\ m.advert = <<m.advert[1]>> /\ AdvertOK(m.advert[1])
               /\ t # Advert => m.advert = None
               /\ t # GroupText => m.text = None
               /\ t = Control => Payload(m) = ControlBytes(m.control)
               /\ t \notin Addressed \cup {AnonReq} => m.dest = None
               /\ t \notin Addressed => m.src = None
               /\ t \notin {GroupText, GroupData} => m.channel = None
               /\ t # AnonReq => m.sender = None
<1> DEFINE t == m.payload_type
           d == m.dest
           s == m.src
           c == ChannelBytes(m)
           k == m.sender
           a == AdvertBytes(m.advert)
           o == ControlBytes(m.control)
           b == m.body
<1>0. Framed(m) /\ WellFormed(m)
  BY MessagesAssumption
<1>1. /\ d \in Seq(Byte) /\ s \in Seq(Byte) /\ m.channel \in Seq(Byte) /\ k \in Seq(Byte)
      /\ b \in Seq(Byte)
  BY <1>0 DEF WellFormed, Carries
<1>2. /\ Len(d) = IF t \in Addressed \cup {AnonReq} THEN 1 ELSE 0
      /\ Len(s) = IF t \in Addressed THEN 1 ELSE 0
      /\ Len(m.channel) = IF t \in {GroupText, GroupData} THEN 1 ELSE 0
      /\ Len(k) = IF t = AnonReq THEN PUB_KEY_SIZE ELSE 0
  <2>1. /\ Carries(m, {Req, Response, TextMsg, PathReturn, AnonReq}, m.dest, 1)
        /\ Carries(m, {Req, Response, TextMsg, PathReturn}, m.src, 1)
        /\ Carries(m, {GroupText, GroupData}, m.channel, 1)
        /\ Carries(m, {AnonReq}, m.sender, PUB_KEY_SIZE)
    BY <1>0 DEF WellFormed
  <2> QED  BY <2>1 DEF Carries, Addressed
<1>3. \A x \in Seq(Byte) : Len(x) = 0 => x = <<>>
  BY NoBytes
<1>4. /\ t \notin Addressed \cup {AnonReq} => d = <<>>
      /\ t \notin Addressed => s = <<>>
      /\ t \notin {GroupText, GroupData} => m.channel = <<>>
      /\ t # AnonReq => k = <<>>
  <2>1. t \notin Addressed \cup {AnonReq} => d = <<>>
    BY <1>1, <1>2, <1>3
  <2>2. t \notin Addressed => s = <<>>
    BY <1>1, <1>2, <1>3
  <2>3. t \notin {GroupText, GroupData} => m.channel = <<>>
    BY <1>1, <1>2, <1>3
  <2>4. t # AnonReq => k = <<>>
    BY <1>1, <1>2, <1>3
  <2> QED  BY <2>1, <2>2, <2>3, <2>4
<1>5. /\ t # GroupText => m.text = None
      /\ t = GroupText => m.text = <<m.text[1]>>
  BY <1>0 DEF WellFormed
<1>6. c \in Seq(Byte) /\ (t \notin {GroupText, GroupData} => c = <<>>)
  BY <1>4, <1>5, ChannelForm
<1>7. a \in Seq(Byte) /\ (t # Advert => a = <<>>)
  <2>1. CASE t = Advert
    <3>1. m.advert # None /\ AdvertOK(m.advert[1])
      <4>1. m.advert = <<m.advert[1]>> /\ AdvertOK(m.advert[1])
        BY <1>0, <2>1 DEF WellFormed
      <4>2. \A y : <<y>> # <<>>
        OBVIOUS
      <4> QED  BY <4>1, <4>2 DEF None
    <3> QED  BY <2>1, <3>1, AdvertForm
  <2>2. CASE t # Advert
    <3>1. m.advert = None
      BY <1>0, <2>2 DEF WellFormed
    <3> QED  BY <3>1, EmptySeq DEF AdvertBytes
  <2> QED  BY <2>1, <2>2
<1>8. o \in Seq(Byte) /\ (t # Control => o = <<>>)
  <2>1. CASE t = Control
    <3>1. ControlOK(m.control)
      BY <1>0, <2>1 DEF WellFormed
    <3> DEFINE x == ControlStart(m.control)
               y == m.control.tag
               z == ControlRest(m.control)
    <3>2. x \in Seq(Byte) /\ y \in Seq(Byte) /\ z \in Seq(Byte) /\ o = x \o y \o z
      BY <3>1, ControlForm
    <3> HIDE DEF x, y, z, o
    <3>3. x \o y \in Seq(Byte)
      BY <3>2, JoinedBytes
    <3>4. x \o y \o z \in Seq(Byte)
      BY <3>2, <3>3, JoinedBytes
    <3> QED  BY <2>1, <3>2, <3>4
  <2>2. CASE t # Control
    <3>1. m.control = NoControl
      BY <1>0, <2>2 DEF WellFormed
    <3> QED  BY <3>1, EmptySeq DEF ControlBytes, NoControl
  <2> QED  BY <2>1, <2>2
<1>9. t \in {GroupText, Advert, Control} => b = <<>>
  BY <1>0 DEF WellFormed, None
<1>10. Payload(m) = Pieces(d, s, c, k, a, o, b)
  BY DEF Payload, Pieces
<1>11. /\ Req = 0 /\ Response = 1 /\ TextMsg = 2 /\ Advert = 4 /\ GroupText = 5 /\ GroupData = 6
       /\ AnonReq = 7 /\ PathReturn = 8 /\ Control = 11
  BY DEF Req, Response, TextMsg, Advert, GroupText, GroupData, AnonReq, PathReturn, Control
<1>12. Addressed = {0, 1, 2, 8}
  BY <1>11 DEF Addressed
<1>13. t \in Nat
  BY <1>0 DEF Framed
<1> HIDE DEF t, d, s, c, k, a, o, b
<1>14. ASSUME t \in Addressed PROVE Payload(m) = d \o s \o b
  <2>1. t # 7 /\ t # 5 /\ t # 6 /\ t # 4 /\ t # 11
    BY <1>12, <1>14
  <2>2. c = <<>> /\ k = <<>> /\ a = <<>> /\ o = <<>>
    BY <1>4, <1>6, <1>7, <1>8, <1>11, <2>1
  <2>3. Payload(m) = Pieces(d, s, <<>>, <<>>, <<>>, <<>>, b)
    BY <1>10, <2>2
  <2>4. \A x, y, z \in Seq(Byte) : Pieces(x, y, <<>>, <<>>, <<>>, <<>>, z) = x \o y \o z
    BY SomePieces
  <2> QED  BY <1>1, <2>3, <2>4
<1>15. ASSUME t = AnonReq PROVE Payload(m) = d \o k \o b
  <2>1. t = 7 /\ t \notin Addressed
    BY <1>11, <1>12, <1>15
  <2>2. s = <<>> /\ c = <<>> /\ a = <<>> /\ o = <<>>
    BY <1>4, <1>6, <1>7, <1>8, <1>11, <2>1
  <2>3. Payload(m) = Pieces(d, <<>>, <<>>, k, <<>>, <<>>, b)
    BY <1>10, <2>2
  <2>4. \A x, y, z \in Seq(Byte) : Pieces(x, <<>>, <<>>, y, <<>>, <<>>, z) = x \o y \o z
    BY SomePieces
  <2> QED  BY <1>1, <2>3, <2>4
<1>16. ASSUME t \in {GroupText, GroupData} PROVE Payload(m) = c \o b
  <2>1. t \in {5, 6} /\ t \notin Addressed /\ t # 7 /\ t # 4 /\ t # 11
    BY <1>11, <1>12, <1>16
  <2>2. d = <<>> /\ s = <<>> /\ k = <<>> /\ a = <<>> /\ o = <<>>
    BY <1>4, <1>7, <1>8, <1>11, <2>1
  <2> QED  BY <1>1, <1>6, <1>10, <2>2, SomePieces
<1>17. ASSUME t = Advert PROVE Payload(m) = a
  <2>1. t = 4 /\ t \notin Addressed
    BY <1>11, <1>12, <1>17
  <2>2. d = <<>> /\ s = <<>> /\ c = <<>> /\ k = <<>> /\ o = <<>> /\ b = <<>>
    BY <1>4, <1>6, <1>8, <1>9, <1>11, <2>1
  <2> QED  BY <1>7, <1>10, <2>2, SomePieces
<1>18. ASSUME t = Control PROVE Payload(m) = o
  <2>1. t = 11 /\ t \notin Addressed
    BY <1>11, <1>12, <1>18
  <2>2. d = <<>> /\ s = <<>> /\ c = <<>> /\ k = <<>> /\ a = <<>> /\ b = <<>>
    BY <1>4, <1>6, <1>7, <1>9, <1>11, <2>1
  <2> QED  BY <1>8, <1>10, <2>2, SomePieces
<1>19. ASSUME t = GroupText PROVE Payload(m) = c
  <2>1. b = <<>> /\ t \in {GroupText, GroupData}
    BY <1>9, <1>19
  <2> QED  BY <1>6, <1>16, <2>1, NoBytes
<1>20. ASSUME t \notin Addressed, t # AnonReq, t \notin {GroupText, GroupData}, t # Advert, t # Control
       PROVE  Payload(m) = b
  <2>1. d = <<>> /\ s = <<>> /\ c = <<>> /\ k = <<>> /\ a = <<>> /\ o = <<>>
    BY <1>4, <1>6, <1>7, <1>8, <1>20
  <2> QED  BY <1>1, <1>10, <2>1, SomePieces
<1>21. Payload(m) \in Seq(Byte)
  <2>1. \A x, y \in Seq(Byte) : x \o y \in Seq(Byte)
    BY JoinedBytes
  <2>2. d \o s \o b \in Seq(Byte) /\ d \o k \o b \in Seq(Byte) /\ c \o b \in Seq(Byte)
    BY <1>1, <1>6, <2>1
  <2> QED  BY <1>1, <1>7, <1>8, <1>14, <1>15, <1>16, <1>17, <1>18, <1>20, <2>2
<1>22. /\ t \in Addressed => Len(d) = 1 /\ Len(s) = 1
       /\ t = AnonReq => Len(d) = 1 /\ Len(k) = PUB_KEY_SIZE
       /\ t \in {GroupText, GroupData} => Len(m.channel) = 1
  BY <1>2
<1>23. /\ t \notin Addressed \cup {AnonReq} => d = None
       /\ t \notin Addressed => s = None
       /\ t \notin {GroupText, GroupData} => m.channel = None
       /\ t # AnonReq => k = None
  BY <1>4 DEF None
<1>24. /\ t = Advert => m.advert = <<m.advert[1]>> /\ AdvertOK(m.advert[1])
       /\ t # Advert => m.advert = None
  BY <1>0 DEF WellFormed, t
<1> QED  BY <1>0, <1>1, <1>5, <1>14, <1>15, <1>16, <1>17, <1>18, <1>19, <1>21, <1>22, <1>23, <1>24
         DEF t, d, s, c, k, a, o, b

-----------------------------------------------------------------------------
(* Addresses, channel and sender.                                          *)

InThree(w, s, t, u) ==
    /\ Len(w) = Len(s) + Len(t) + Len(u)
    /\ Len(s) \in Nat /\ Len(t) \in Nat /\ Len(u) \in Nat
    /\ \A i \in 1..Len(s) : w[i] = s[i]
    /\ \A i \in 1..Len(t) : w[Len(s) + i] = t[i]

LEMMA ThreeParts ==
    ASSUME NEW s \in Seq(Byte), NEW t \in Seq(Byte), NEW u \in Seq(Byte)
    PROVE  InThree(s \o t \o u, s, t, u)
<1> DEFINE v == s \o t
           w == v \o u
<1>1. s \in Seq(Int) /\ t \in Seq(Int) /\ u \in Seq(Int) /\ Len(s) \in Nat /\ Len(t) \in Nat /\ Len(u) \in Nat
  BY BytesAreInts
<1>2. Made(v, s, t)
  BY <1>1, JoinFacts
<1> HIDE DEF v
<1>3. v \in Seq(Int) /\ Len(v) = Len(s) + Len(t)
  BY <1>2 DEF Made
<1>4. Made(w, v, u)
  BY <1>1, <1>3, JoinFacts
<1> HIDE DEF w
<1>5. Len(w) = Len(s) + Len(t) + Len(u)
  BY <1>3, <1>4 DEF Made
<1>6. ASSUME NEW i \in 1..Len(s) PROVE w[i] = s[i]
  <2>1. i \in 1..Len(v)
    BY <1>1, <1>3
  <2> QED  BY <1>2, <1>4, <2>1 DEF Made
<1>7. ASSUME NEW i \in 1..Len(t) PROVE w[Len(s) + i] = t[i]
  <2>1. Len(s) + i \in 1..Len(v)
    BY <1>1, <1>3
  <2> QED  BY <1>2, <1>4, <2>1 DEF Made
<1> QED  BY <1>1, <1>5, <1>6, <1>7 DEF InThree, v, w

LEMMA TypeNumbers ==
    /\ Req = 0 /\ Response = 1 /\ TextMsg = 2 /\ Advert = 4 /\ GroupText = 5 /\ GroupData = 6
    /\ AnonReq = 7 /\ PathReturn = 8 /\ Control = 11 /\ Addressed = {0, 1, 2, 8}
BY DEF Req, Response, TextMsg, Advert, GroupText, GroupData, AnonReq, PathReturn, Control, Addressed

\* The first bytes of a payload.
Begins(m, k, q) ==
    /\ k \in 0..Len(Payload(m)) /\ q = FirstBytes(Payload(m), k)

LEMMA BeginFacts ==
    ASSUME NEW m \in Messages, NEW k, NEW q, Begins(m, k, q)
    PROVE  /\ Payload(m) \in Seq(Byte) /\ Payload(m) \in Seq(Int) /\ Len(Payload(m)) \in Nat
           /\ q \in Seq(Int) /\ Len(q) = k /\ k \in Nat /\ k <= Len(Payload(m))
           /\ \A i \in 1..k : q[i] = Payload(m)[i]
<1>1. Payload(m) \in Seq(Byte)
  BY Payloads
<1>2. Payload(m) \in Seq(Int) /\ Len(Payload(m)) \in Nat
  BY <1>1, BytesAreInts
<1>3. k \in 0..Len(Payload(m)) /\ q = FirstBytes(Payload(m), k)
  BY DEF Begins
<1>4. /\ q \in Seq(Int) /\ Len(q) = k /\ \A i \in 1..k : q[i] = Payload(m)[i]
  BY <1>2, <1>3, FirstFacts
<1>5. k \in Nat /\ k <= Len(Payload(m))
  BY <1>2, <1>3
<1> QED  BY <1>1, <1>2, <1>4, <1>5

LEMMA AddressesRead ==
    ASSUME NEW m \in Messages, NEW k, NEW q, Begins(m, k, q), NEW hashes,
           hashes = ExtractDestSrcHashes(m.payload_type, m.payload_version, q),
           NEW whole, whole = (k = Len(Payload(m)) /\ m.payload_version = 0)
    PROVE  Read(hashes.dest, m.dest, whole) /\ Read(hashes.src, m.src, whole)
<1> DEFINE t == m.payload_type
           nothing == [dest |-> None, src |-> None]
<1>1. /\ Len(q) = k /\ k \in Nat /\ k <= Len(Payload(m)) /\ Len(Payload(m)) \in Nat
      /\ \A i \in 1..k : q[i] = Payload(m)[i]
  BY BeginFacts
<1>2. nothing.dest = None /\ nothing.src = None
  OBVIOUS
<1>3. ASSUME m.payload_version = 0, t \in Addressed PROVE Read(hashes.dest, m.dest, whole) /\ Read(hashes.src, m.src, whole)
  <2>1. /\ Payload(m) = m.dest \o m.src \o m.body /\ Len(m.dest) = 1 /\ Len(m.src) = 1
        /\ m.dest \in Seq(Byte) /\ m.src \in Seq(Byte) /\ m.body \in Seq(Byte)
    BY <1>3, Payloads
  <2>2. /\ Len(Payload(m)) = 1 + 1 + Len(m.body) /\ Len(m.body) \in Nat
        /\ \A i \in 1..1 : Payload(m)[i] = m.dest[i]
        /\ \A i \in 1..1 : Payload(m)[1 + i] = m.src[i]
    <3> DEFINE w == Payload(m)
    <3>1. InThree(w, m.dest, m.src, m.body)
      BY <2>1, ThreeParts
    <3> HIDE DEF w
    <3> QED  BY <2>1, <3>1 DEF InThree, w
  <2>3. m.dest = <<m.dest[1]>> /\ m.src = <<m.src[1]>>
    BY <2>1, OneByte
  <2>4. Payload(m)[1] = m.dest[1] /\ Payload(m)[2] = m.src[1]
    <3>1. 1 \in 1..1 /\ 1 + 1 = 2
      OBVIOUS
    <3> QED  BY <2>2, <3>1
  <2>5. t \in {Req, Response, TextMsg, PathReturn} /\ t # AnonReq
    BY <1>3, TypeNumbers DEF Addressed
  <2> HIDE DEF t
  <2>6. CASE k >= 2
    <3>1. 1 \in 1..k /\ 2 \in 1..k
      BY <1>1, <2>6
    <3>2. q[1] = m.dest[1] /\ q[2] = m.src[1]
      BY <1>1, <2>4, <3>1
    <3>3. hashes = [dest |-> <<q[1]>>, src |-> <<q[2]>>]
      BY <1>1, <1>3, <2>5, <2>6 DEF ExtractDestSrcHashes, t
    <3>4. hashes.dest = <<q[1]>> /\ hashes.src = <<q[2]>>
      BY <3>3
    <3> QED  BY <2>3, <3>2, <3>4 DEF Read
  <2>7. CASE ~ (k >= 2)
    <3>1. hashes = nothing
      BY <1>1, <1>3, <2>5, <2>7 DEF ExtractDestSrcHashes, t
    <3>2. ~ whole
      <4>1. k # 1 + 1 + Len(m.body)
        BY <1>1, <2>2, <2>7
      <4> QED  BY <2>2, <4>1
    <3>3. hashes.dest = None /\ hashes.src = None
      BY <1>2, <3>1
    <3> QED  BY <3>2, <3>3 DEF Read
  <2> QED  BY <2>6, <2>7
<1>4. ASSUME m.payload_version = 0, t = AnonReq PROVE Read(hashes.dest, m.dest, whole) /\ Read(hashes.src, m.src, whole)
  <2>1. /\ Payload(m) = m.dest \o m.sender \o m.body /\ Len(m.dest) = 1
        /\ m.dest \in Seq(Byte) /\ m.sender \in Seq(Byte) /\ m.body \in Seq(Byte)
    BY <1>4, Payloads
  <2>2. /\ Len(Payload(m)) = 1 + Len(m.sender) + Len(m.body) /\ Len(m.body) \in Nat
        /\ Len(m.sender) \in Nat
        /\ \A i \in 1..1 : Payload(m)[i] = m.dest[i]
    <3> DEFINE w == Payload(m)
    <3>1. InThree(w, m.dest, m.sender, m.body)
      BY <2>1, ThreeParts
    <3> HIDE DEF w
    <3> QED  BY <2>1, <3>1 DEF InThree, w
  <2>3. m.dest = <<m.dest[1]>>
    BY <2>1, OneByte
  <2>4. Payload(m)[1] = m.dest[1]
    <3>1. 1 \in 1..1
      OBVIOUS
    <3> QED  BY <2>2, <3>1
  <2>5. t \notin {Req, Response, TextMsg, PathReturn} /\ t \notin Addressed
    BY <1>4, TypeNumbers
  <2>6. m.src = None
    BY <2>5, Payloads
  <2> HIDE DEF t
  <2>7. CASE k >= 1
    <3>1. 1 \in 1..k
      BY <1>1, <2>7
    <3>2. q[1] = m.dest[1]
      BY <1>1, <2>4, <3>1
    <3>3. hashes = [dest |-> <<q[1]>>, src |-> None]
      BY <1>1, <1>4, <2>5, <2>7 DEF ExtractDestSrcHashes, t
    <3>4. hashes.dest = <<q[1]>> /\ hashes.src = None
      BY <3>3
    <3> QED  BY <2>3, <2>6, <3>2, <3>4 DEF Read
  <2>8. CASE ~ (k >= 1)
    <3>1. hashes = nothing
      BY <1>1, <1>4, <2>5, <2>8 DEF ExtractDestSrcHashes, t
    <3>2. ~ whole
      <4>0. k \in Nat /\ Len(m.sender) \in Nat /\ Len(m.body) \in Nat
        BY <1>1, <2>2
      <4>1. \A l, x, y \in Nat : ~ (l >= 1) => l # 1 + x + y
        OBVIOUS
      <4>2. k # 1 + Len(m.sender) + Len(m.body)
        BY <4>0, <4>1, <2>8
      <4> QED  BY <2>2, <4>2
    <3>3. hashes.dest = None /\ hashes.src = None
      BY <1>2, <3>1
    <3> QED  BY <3>2, <3>3 DEF Read
  <2> QED  BY <2>7, <2>8
<1>5. ASSUME m.payload_version = 0, t \notin Addressed \cup {AnonReq}
      PROVE  Read(hashes.dest, m.dest, whole) /\ Read(hashes.src, m.src, whole)
  <2>1. m.dest = None /\ m.src = None
    BY <1>5, Payloads
  <2>2. hashes = nothing
    BY <1>5 DEF ExtractDestSrcHashes, Addressed
  <2>3. hashes.dest = None /\ hashes.src = None
    BY <1>2, <2>2
  <2> QED  BY <2>1, <2>3 DEF Read
<1>6. ASSUME m.payload_version # 0
      PROVE  Read(hashes.dest, m.dest, whole) /\ Read(hashes.src, m.src, whole)
  <2>1. hashes = nothing
    BY <1>6 DEF ExtractDestSrcHashes
  <2>2. hashes.dest = None /\ hashes.src = None
    BY <1>2, <2>1
  <2> QED  BY <1>6, <2>2 DEF Read
<1> QED  BY <1>3, <1>4, <1>5, <1>6

LEMMA ChannelRead ==
    ASSUME NEW m \in Messages, NEW k, NEW q, Begins(m, k, q), NEW channel,
           channel = ExtractChannelHash(m.payload_type, m.payload_version, q),
           NEW whole, whole = (k = Len(Payload(m)) /\ m.payload_version = 0)
    PROVE  Read(channel, m.channel, whole)
<1> DEFINE t == m.payload_type
<1>1. /\ Len(q) = k /\ k \in Nat /\ k <= Len(Payload(m)) /\ Len(Payload(m)) \in Nat
      /\ \A i \in 1..k : q[i] = Payload(m)[i]
  BY BeginFacts
<1>2. ASSUME m.payload_version = 0, t \in {GroupText, GroupData} PROVE Read(channel, m.channel, whole)
  <2>1. /\ Payload(m) = ChannelBytes(m) \o m.body /\ Len(m.channel) = 1
        /\ m.channel \in Seq(Byte) /\ m.body \in Seq(Byte)
    BY <1>2, Payloads
  <2>2. PICK u \in Seq(Byte) : ChannelBytes(m) = m.channel \o u
    <3>1. CASE m.text = None
      <4>1. ChannelBytes(m) = m.channel \o <<>> /\ <<>> \in Seq(Byte)
        BY <2>1, <3>1, ChannelForm, NoBytes
      <4> QED  BY <4>1
    <3>2. CASE m.text # None
      <4> DEFINE h == HMAC(m.secret, Cipher(m))
                 c == Cipher(m)
      <4>1. /\ ChannelBytes(m) = m.channel \o h \o c /\ h \in Seq(Byte) /\ c \in Seq(Byte)
        BY <3>2, ChannelForm
      <4> HIDE DEF h, c
      <4>2. \A x, y, z \in Seq(Byte) : (x \o y) \o z = x \o (y \o z)
        BY ConcatAssociative
      <4>3. ChannelBytes(m) = m.channel \o (h \o c) /\ h \o c \in Seq(Byte)
        BY <2>1, <4>1, <4>2, JoinedBytes
      <4> QED  BY <4>3
    <3> QED  BY <3>1, <3>2
  <2>3. /\ Len(Payload(m)) = 1 + Len(u) + Len(m.body) /\ Len(u) \in Nat /\ Len(m.body) \in Nat
        /\ \A i \in 1..1 : Payload(m)[i] = m.channel[i]
    <3> DEFINE w == Payload(m)
    <3>1. w = m.channel \o u \o m.body
      BY <2>1, <2>2
    <3> HIDE DEF w
    <3>2. InThree(w, m.channel, u, m.body)
      BY <2>1, <3>1, ThreeParts
    <3> QED  BY <2>1, <3>2 DEF InThree, w
  <2>4. m.channel = <<m.channel[1]>>
    BY <2>1, OneByte
  <2>5. Payload(m)[1] = m.channel[1]
    <3>1. 1 \in 1..1
      OBVIOUS
    <3> QED  BY <2>3, <3>1
  <2>6. CASE k >= 1
    <3>1. 1 \in 1..k
      BY <1>1, <2>6
    <3>2. q[1] = m.channel[1]
      BY <1>1, <2>5, <3>1
    <3>3. channel = <<q[1]>>
      BY <1>1, <1>2, <2>6 DEF ExtractChannelHash
    <3> QED  BY <2>4, <3>2, <3>3 DEF Read
  <2>7. CASE ~ (k >= 1)
    <3>1. channel = None
      BY <1>1, <2>7 DEF ExtractChannelHash
    <3>2. ~ whole
      <4>0. k \in Nat /\ Len(u) \in Nat /\ Len(m.body) \in Nat
        BY <1>1,  <2>3
      <4>1. \A l, x, y \in Nat : ~ (l >= 1) => l # 1 + x + y
        OBVIOUS
      <4>2. k # 1 + Len(u) + Len(m.body)
        BY <4>0, <4>1, <2>7
      <4> QED  BY <2>3, <4>2
    <3> QED  BY <3>1, <3>2 DEF Read
  <2> QED  BY <2>6, <2>7
<1>3. ASSUME t \notin {GroupText, GroupData} PROVE Read(channel, m.channel, whole)
  <2>1. m.channel = None
    BY <1>3, Payloads
  <2> QED  BY <1>3, <2>1 DEF Read, ExtractChannelHash
<1>4. ASSUME m.payload_version # 0 PROVE Read(channel, m.channel, whole)
  BY <1>4 DEF Read, ExtractChannelHash
<1> QED  BY <1>2, <1>3, <1>4

LEMMA SenderRead ==
    ASSUME NEW m \in Messages, NEW k, NEW q, Begins(m, k, q), NEW sender,
           sender = ExtractAnonReqSender(m.payload_type, m.payload_version, q),
           NEW whole, whole = (k = Len(Payload(m)) /\ m.payload_version = 0)
    PROVE  Read(sender, m.sender, whole)
<1> DEFINE t == m.payload_type
<1>1. /\ Len(q) = k /\ k \in Nat /\ k <= Len(Payload(m)) /\ Len(Payload(m)) \in Nat
      /\ \A i \in 1..k : q[i] = Payload(m)[i]
  BY BeginFacts
<1>2. ASSUME m.payload_version = 0, t = AnonReq PROVE Read(sender, m.sender, whole)
  <2>1. /\ Payload(m) = m.dest \o m.sender \o m.body /\ Len(m.dest) = 1
        /\ m.dest \in Seq(Byte) /\ m.sender \in Seq(Byte) /\ m.body \in Seq(Byte)
        /\ Len(m.sender) = PUB_KEY_SIZE
    BY <1>2, Payloads
  <2>2. /\ Len(Payload(m)) = 1 + PUB_KEY_SIZE + Len(m.body) /\ Len(m.body) \in Nat
        /\ PUB_KEY_SIZE \in Nat
        /\ \A i \in 1..PUB_KEY_SIZE : Payload(m)[1 + i] = m.sender[i]
    <3> DEFINE w == Payload(m)
    <3>1. InThree(w, m.dest, m.sender, m.body)
      BY <2>1, ThreeParts
    <3> HIDE DEF w
    <3> QED  BY <2>1, <3>1 DEF InThree, w
  <2>3. CASE k >= 1 + PUB_KEY_SIZE
    <3>1. sender = SubSeq(q, 2, 1 + PUB_KEY_SIZE)
      BY <1>1, <1>2, <2>3 DEF ExtractAnonReqSender
    <3>2. q \in Seq(Int) /\ m.sender \in Seq(Int)
      BY <2>1, BeginFacts, BytesAreInts
    <3>3. ASSUME NEW i \in 1..Len(m.sender) PROVE q[1 + i] = m.sender[i]
      <4>1. 1 + i \in 1..k /\ i \in 1..PUB_KEY_SIZE
        BY <1>1, <2>1, <2>2, <2>3
      <4> QED  BY <1>1, <2>2, <4>1
    <3>4. /\ 1 + PUB_KEY_SIZE = 1 + Len(m.sender) /\ 1 + PUB_KEY_SIZE <= Len(q)
          /\ 1 + PUB_KEY_SIZE \in Nat /\ 1 + 1 = 2
      BY <1>1, <2>1, <2>2, <2>3
    <3>5. SubSeq(q, 1 + 1, 1 + PUB_KEY_SIZE) = m.sender
      BY <3>2, <3>3, <3>4, SliceIs
    <3> QED  BY <3>1, <3>4, <3>5 DEF Read
  <2>4. CASE ~ (k >= 1 + PUB_KEY_SIZE)
    <3>1. sender = None
      BY <1>1, <2>4 DEF ExtractAnonReqSender
    <3>2. ~ whole
      <4>0. k \in Nat /\ PUB_KEY_SIZE \in Nat /\ Len(m.body) \in Nat
        BY <1>1, <2>2
      <4>1. \A l, x, y \in Nat : ~ (l >= 1 + x) => l # 1 + x + y
        OBVIOUS
      <4>2. k # 1 + PUB_KEY_SIZE + Len(m.body)
        BY <4>0, <4>1, <2>4
      <4> QED  BY <2>2, <4>2
    <3> QED  BY <3>1, <3>2 DEF Read
  <2> QED  BY <2>3, <2>4
<1>3. ASSUME t # AnonReq PROVE Read(sender, m.sender, whole)
  <2>1. m.sender = None
    BY <1>3, Payloads
  <2> QED  BY <1>3, <2>1 DEF Read, ExtractAnonReqSender
<1>4. ASSUME m.payload_version # 0 PROVE Read(sender, m.sender, whole)
  BY <1>4 DEF Read, ExtractAnonReqSender
<1> QED  BY <1>2, <1>3, <1>4

-----------------------------------------------------------------------------
(* Discoveries.                                                            *)

\* What is read of three parts, the first two whole.
CutIn(q, k, w, x, y, r, a) ==
    /\ a \in Nat /\ k - a \in 0..Len(r) /\ (k = Len(w) <=> k - a = Len(r))
    /\ q \in Seq(Int) /\ Len(q) = k
    /\ From(q, a) = FirstBytes(r, k - a)
    /\ SubSeq(q, Len(x) + 1, a) = y
    /\ \A i \in 1..Len(x) : q[i] = x[i]

LEMMA CutInThree ==
    ASSUME NEW x \in Seq(Byte), NEW y \in Seq(Byte), NEW r \in Seq(Byte),
           NEW w, w = x \o y \o r, NEW k \in 0..Len(w), NEW q, q = FirstBytes(w, k),
           NEW a, a = Len(x) + Len(y), a <= k
    PROVE  CutIn(q, k, w, x, y, r, a)
<1> DEFINE v == x \o y
           u == FirstBytes(r, k - a)
<1>1. /\ x \in Seq(Int) /\ y \in Seq(Int) /\ r \in Seq(Int)
      /\ Len(x) \in Nat /\ Len(y) \in Nat /\ Len(r) \in Nat
  BY BytesAreInts
<1>2. Made(v, x, y)
  BY <1>1, JoinFacts
<1> HIDE DEF v
<1>3. v \in Seq(Int) /\ Len(v) = a
  BY <1>2 DEF Made
<1>4. Made(w, v, r)
  BY <1>1, <1>3, JoinFacts DEF v
<1>5. w \in Seq(Int) /\ Len(w) = a + Len(r)
  BY <1>3, <1>4 DEF Made
<1>6. k - a \in 0..Len(r) /\ q = v \o u
  <2>1. Len(v) <= k
    BY <1>3
  <2>2. /\ k - Len(v) \in 0..Len(r)
        /\ FirstBytes(w, k) = v \o FirstBytes(r, k - Len(v))
    <3>1. v \in Seq(Int) /\ r \in Seq(Int) /\ Made(w, v, r) /\ k \in 0..Len(w)
      BY <1>1, <1>3, <1>4
    <3>2. \A s, t \in Seq(Int) : \A z : Made(z, s, t) =>
             \A n \in 0..Len(z) : Len(s) <= n =>
                n - Len(s) \in 0..Len(t) /\ FirstBytes(z, n) = s \o FirstBytes(t, n - Len(s))
      BY FirstOfMade
    <3> QED  BY <2>1, <3>1, <3>2
  <2> QED  BY <1>3, <2>2
<1>7. q \in Seq(Int) /\ Len(q) = k
  BY <1>5, FirstFacts
<1>8. u \in Seq(Int) /\ Len(u) = k - a
  BY <1>1, <1>6, FirstFacts
<1> HIDE DEF u
<1>9. Made(q, v, u)
  BY <1>3, <1>6, <1>8, JoinFacts
<1>10. a \in Nat /\ k \in Nat /\ (k = Len(w) <=> k - a = Len(r))
  <2>1. a \in Nat /\ k \in Nat
    BY <1>1, <1>5
  <2> QED  BY <1>1, <1>5, <2>1
<1>11. From(q, a) = u
  <2>1. \A i \in 1..Len(u) : q[a + i] = u[i]
    BY <1>3, <1>9 DEF Made
  <2>2. Len(q) = a + Len(u) /\ Len(q) <= Len(q) /\ Len(q) \in Nat
    BY <1>7, <1>8, <1>10
  <2> QED  BY <1>7, <1>8, <1>10, <2>1, <2>2, SliceIs DEF From
<1>12. \A i \in 1..a : q[i] = v[i]
  BY <1>3, <1>9 DEF Made
<1>13. ASSUME NEW i \in 1..Len(x) PROVE q[i] = x[i]
  <2>1. i \in 1..a
    BY <1>1
  <2> QED  BY <1>2, <1>12, <2>1 DEF Made
<1>14. SubSeq(q, Len(x) + 1, a) = y
  <2>1. ASSUME NEW i \in 1..Len(y) PROVE q[Len(x) + i] = y[i]
    <3>1. Len(x) + i \in 1..a
      BY <1>1
    <3> QED  BY <1>2, <1>12, <3>1 DEF Made
  <2>2. a <= Len(q)
    BY <1>7
  <2>3. q \in Seq(Int) /\ y \in Seq(Int) /\ Len(x) \in Nat /\ a \in Nat /\ a = Len(x) + Len(y)
    BY <1>1, <1>7, <1>10
  <2> QED  BY <2>1, <2>2, <2>3, SliceIs
<1> QED  BY <1>6, <1>7, <1>10, <1>11, <1>13, <1>14 DEF u, CutIn

\* A signal, as a signed byte.
LEMMA SignedFacts ==
    ASSUME NEW n \in -128..127
    PROVE  AsSigned(n % 256) = n
<1>1. CASE n >= 0
  <2>1. n % 256 = n
    BY <1>1
  <2> QED  BY <1>1, <2>1 DEF AsSigned
<1>2. CASE n < 0
  <2>1. n % 256 = n + 256
    BY <1>2
  <2> QED  BY <1>2, <2>1 DEF AsSigned
<1> QED  BY <1>1, <1>2

\* A key in an answer: whole, or short, or none.
LEMMA AnswerFacts ==
    ASSUME NEW s \in Seq(Byte), Len(s) \in {ShortKeySize, PUB_KEY_SIZE}, NEW j \in 0..Len(s),
           NEW r, r = FirstBytes(s, j)
    PROVE  /\ AnsweringKey(r) = None => j # Len(s)
           /\ AnsweringKey(r) # None => /\ IsPrefix(AnsweringKey(r), s)
                                        /\ j = Len(s) => AnsweringKey(r) = s
<1>1. /\ PUB_KEY_SIZE \in Nat /\ PUB_KEY_SIZE >= 1 /\ ShortKeySize \in Nat /\ ShortKeySize >= 1
      /\ ShortKeySize < PUB_KEY_SIZE
  BY SomeSizes
<1>2. s \in Seq(Int) /\ Len(s) \in Nat /\ j \in Nat /\ j <= Len(s)
  BY BytesAreInts
<1>3. r \in Seq(Int) /\ Len(r) = j /\ \A i \in 1..j : r[i] = s[i]
  BY <1>2, FirstFacts
<1>4. ASSUME NEW n \in 1..j, AnsweringKey(r) = FirstBytes(r, n), (j = Len(s) => n = j)
      PROVE  /\ AnsweringKey(r) # None /\ IsPrefix(AnsweringKey(r), s)
             /\ j = Len(s) => AnsweringKey(r) = s
  <2> DEFINE y == FirstBytes(r, n)
  <2>1. n \in 0..Len(r) /\ n \in 0..Len(s) /\ n \in Nat /\ n >= 1
    BY <1>2, <1>3
  <2>2. y \in Seq(Int) /\ Len(y) = n /\ \A i \in 1..n : y[i] = r[i]
    BY <1>3, <2>1, FirstFacts
  <2> DEFINE z == FirstBytes(s, n)
  <2>3. z \in Seq(Int) /\ Len(z) = n /\ \A i \in 1..n : z[i] = s[i]
    BY <1>2, <2>1, FirstFacts
  <2>4. \A i \in 1..n : i \in 1..j
    BY <1>2
  <2> HIDE DEF y, z
  <2>5. y = z
    <3>1. \A i \in 1..n : y[i] = z[i]
      BY <1>3, <2>2, <2>3, <2>4
    <3> QED  BY <2>2, <2>3, <3>1, SeqEqual
  <2>6. IsPrefix(y, s)
    <3>1. SubSeq(y, 1, Len(y)) = y
      BY <2>2, SubSeqFull
    <3>2. SubSeq(s, 1, Len(y)) = y
      BY <2>2, <2>5 DEF z, FirstBytes
    <3>3. Len(y) <= Len(s)
      BY <2>1, <2>2
    <3> QED  BY <3>1, <3>2, <3>3 DEF IsPrefix
  <2>7. j = Len(s) => y = s
    BY <1>2, <1>4, <2>5, WholeFacts DEF z
  <2>8. y # None
    BY <2>1, <2>2, EmptySeq DEF None
  <2> QED  BY <1>4, <2>6, <2>7, <2>8 DEF y
<1>5. CASE j >= PUB_KEY_SIZE
  <2>1. AnsweringKey(r) = FirstBytes(r, PUB_KEY_SIZE)
    <3>1. ~ (j < PUB_KEY_SIZE)
      BY <1>1, <1>2, <1>5
    <3> QED  BY <1>3, <1>5, <3>1 DEF AnsweringKey
  <2>2. PUB_KEY_SIZE \in 1..j /\ (j = Len(s) => PUB_KEY_SIZE = j)
    BY <1>1, <1>2, <1>5
  <2> QED  BY <1>4, <2>1, <2>2
<1>6. CASE j >= ShortKeySize /\ j < PUB_KEY_SIZE
  <2>1. AnsweringKey(r) = FirstBytes(r, ShortKeySize)
    <3>1. ~ (j >= PUB_KEY_SIZE)
      BY <1>1, <1>2, <1>6
    <3> QED  BY <1>3, <1>6, <3>1 DEF AnsweringKey
  <2>2. ShortKeySize \in 1..j /\ (j = Len(s) => ShortKeySize = j)
    BY <1>1, <1>2, <1>6
  <2> QED  BY <1>4, <2>1, <2>2
<1>7. CASE ~ (j >= ShortKeySize)
  <2>1. ~ (j >= PUB_KEY_SIZE) /\ j # Len(s)
    BY <1>1, <1>2, <1>7
  <2>2. AnsweringKey(r) = None
    BY <1>3, <1>7, <2>1 DEF AnsweringKey
  <2> QED  BY <2>1, <2>2
<1> QED  BY <1>1, <1>2, <1>5, <1>6, <1>7

LEMMA DiscoveryRead ==
    ASSUME NEW m \in Messages, NEW k, NEW q, Begins(m, k, q), m.payload_type = Control,
           m.payload_version = 0, NEW read,
           read = DecodeControlPayload(m.payload_type, m.payload_version, q),
           NEW whole \in BOOLEAN, whole <=> k = Len(Payload(m))
    PROVE  SameControl(read, m.control, whole)
<1> DEFINE c == m.control
           x == ControlStart(c)
           y == c.tag
           r == ControlRest(c)
           w == Payload(m)
           fixed == 2 + WordSize
           tag == SubSeq(q, 3, fixed)
           rest == From(q, fixed)
           j == k - fixed
           req == [kind |-> "DiscoverReq", prefix_only |-> q[1] % 2 = 1,
                   type_filter |-> q[2], tag |-> tag,
                   since |-> IF Len(rest) >= WordSize
                             THEN <<from_le_bytes(FirstBytes(rest, WordSize))>> ELSE None]
           resp == [kind |-> "DiscoverResp", node_type |-> q[1] % 16,
                    snr |-> AsSigned(q[2]), tag |-> tag, pubkey |-> AnsweringKey(rest)]
<1>1. Len(q) = k /\ k \in Nat /\ k <= Len(w) /\ Len(w) \in Nat
  BY BeginFacts
<1>2. k \in 0..Len(w) /\ q = FirstBytes(w, k)
  BY DEF Begins
<1>3. ControlOK(c)
  BY MessagesAssumption DEF WellFormed
<1>4. /\ w = x \o y \o r /\ x \in Seq(Byte) /\ Len(x) = 2 /\ y \in Seq(Byte) /\ Len(y) = WordSize
      /\ r \in Seq(Byte)
  <2>1. w = ControlBytes(c)
    BY Payloads
  <2> QED  BY <1>3, <2>1, ControlForm
<1>5. WordSize \in Nat /\ WordSize >= 2 /\ fixed \in Nat
  BY SomeSizes
<1>6. Len(w) = fixed + Len(r) /\ Len(r) \in Nat
  <2>1. InThree(w, x, y, r)
    BY <1>4, ThreeParts
  <2> HIDE DEF w, x, y, r
  <2> QED  BY <1>4, <2>1 DEF InThree
<1>7. read.kind = "none" => SameControl(read, c, whole) \/ whole
  BY DEF SameControl
<1>8. CASE k < fixed
  <2>1. read = NoControl
    BY <1>1, <1>8 DEF DecodeControlPayload
  <2>2. k # Len(w)
    <3> HIDE DEF w, fixed, r
    <3> QED  BY <1>1, <1>5, <1>6, <1>8
  <2>3. read.kind = "none"
    BY <2>1 DEF NoControl
  <2> QED  BY <1>7, <2>2, <2>3
<1>9. CASE ~ (k < fixed)
  <2> HIDE DEF x, y, r, w, j, c
  <2>1. fixed = Len(x) + Len(y) /\ fixed <= k /\ Len(x) + 1 = 3
    BY <1>1, <1>4, <1>5, <1>9
  <2>2. /\ k - fixed \in 0..Len(r) /\ (k = Len(w) <=> k - fixed = Len(r))
        /\ From(q, fixed) = FirstBytes(r, k - fixed)
        /\ SubSeq(q, Len(x) + 1, fixed) = y
        /\ \A i \in 1..Len(x) : q[i] = x[i]
    <3> DEFINE a == fixed
    <3> HIDE DEF a
    <3>1. a = Len(x) + Len(y) /\ a <= k
      BY <2>1 DEF a
    <3>0. /\ w = x \o y \o r /\ x \in Seq(Byte) /\ y \in Seq(Byte) /\ r \in Seq(Byte)
          /\ k \in 0..Len(w) /\ q = FirstBytes(w, k)
      BY <1>2, <1>4
    <3>2. CutIn(q, k, w, x, y, r, a)
      BY <3>0, <3>1, CutInThree
    <3> QED  BY <3>2 DEF a, CutIn
  <2>3. j \in 0..Len(r) /\ (whole <=> j = Len(r)) /\ rest = FirstBytes(r, j) /\ tag = y
    BY <2>1, <2>2 DEF j, w
  <2>4. q[1] = x[1] /\ q[2] = x[2]
    <3>1. 1 \in 1..Len(x) /\ 2 \in 1..Len(x)
      BY <1>4
    <3> QED  BY <2>2, <3>1
  <2>5. CASE c.kind = "DiscoverReq"
    <3>1. /\ c.prefix_only \in BOOLEAN /\ c.type_filter \in Byte
          /\ c.since = None \/ (c.since = <<c.since[1]>> /\ c.since[1] \in Nat
                                  /\ Shifted(c.since[1])[WordSize] = 0)
          /\ c = [kind |-> "DiscoverReq", prefix_only |-> c.prefix_only,
                  type_filter |-> c.type_filter, tag |-> c.tag, since |-> c.since]
      BY <1>3, <2>5, ControlForm DEF c
    <3>2. x[1] = (IF c.prefix_only THEN 129 ELSE 128) /\ x[2] = c.type_filter
      BY <2>5 DEF x, ControlStart
    <3>3. q[1] \div 16 = 8 /\ (q[1] % 2 = 1) = c.prefix_only /\ q[2] = c.type_filter
      BY <2>4, <3>1, <3>2
    <3>4. read = req
      <4> HIDE DEF rest, tag, req
      <4>1. ~ (m.payload_type # Control \/ m.payload_version # 0 \/ Len(q) < fixed)
        BY <1>1, <1>9
      <4>2. ~ (q[1] \div 16 = 9 /\ AnsweringKey(rest) # None)
        BY <3>3
      <4> QED  BY <3>3, <4>1, <4>2 DEF DecodeControlPayload, req, rest, tag
    <3>5. Read(req.since, c.since, whole)
      <4>1. CASE c.since = None
        <5>1. r = <<>>
          BY <2>5, <4>1 DEF r, ControlRest
        <5>2. rest = <<>>
          <6>1. <<>> \in Seq(Int) /\ Len(<<>>) = 0
            BY EmptySeq
          <6>2. j = 0
            BY <2>3, <5>1, <6>1
          <6>3. FirstBytes(<<>>, 0) = <<>>
            BY <6>1, WholeFacts
          <6> QED  BY <2>3, <5>1, <6>2, <6>3
        <5>3. ~ (Len(rest) >= WordSize)
          <6>1. Len(rest) = 0
            BY <5>2, EmptySeq
          <6> QED  BY <1>5, <6>1
        <5>4. req.since = None
          <6> HIDE DEF rest
          <6> QED  BY <5>3
        <5> QED  BY <4>1, <5>4 DEF Read
      <4>2. CASE c.since # None
        <5> DEFINE n == c.since[1]
        <5>1. c.since = <<n>> /\ n \in Nat /\ Shifted(n)[WordSize] = 0
          BY <3>1, <4>2
        <5>2. r = ToLittleEndian(n)
          BY <2>5, <4>2 DEF r, ControlRest
        <5> HIDE DEF n
        <5>3. Len(r) = WordSize /\ from_le_bytes(r) = n
          BY <5>1, <5>2, LittleEndian
        <5>4. r \in Seq(Int)
          BY <1>4, BytesAreInts
        <5>5. Len(rest) = j
          BY <2>3, <5>4, FirstFacts
        <5>6. CASE j = WordSize
          <6>1. rest = r /\ FirstBytes(r, WordSize) = r
            BY <2>3, <5>3, <5>4, <5>6, WholeFacts
          <6>2. Len(rest) >= WordSize
            BY <1>5, <5>5, <5>6
          <6>3. req.since = <<from_le_bytes(FirstBytes(rest, WordSize))>>
            <7> HIDE DEF rest
            <7> QED  BY <6>2
          <6>4. req.since = <<n>>
            BY <5>3, <6>1, <6>3
          <6> QED  BY <5>1, <6>4 DEF Read
        <5>7. CASE j # WordSize
          <6>1. ~ (Len(rest) >= WordSize)
            BY <1>5, <2>3, <5>3, <5>5, <5>7
          <6>2. req.since = None
            <7> HIDE DEF rest
            <7> QED  BY <6>1
          <6>3. ~ whole
            BY <2>3, <5>3, <5>7
          <6> QED  BY <6>2, <6>3 DEF Read
        <5> QED  BY <5>6, <5>7
      <4> QED  BY <4>1, <4>2
    <3> DEFINE z == req.since
    <3>6. req = [kind |-> "DiscoverReq", prefix_only |-> c.prefix_only,
                 type_filter |-> c.type_filter, tag |-> c.tag, since |-> z]
      BY <2>3, <3>3 DEF y
    <3> HIDE DEF req, z
    <3>7. req = [c EXCEPT !.since = z] /\ req.kind = "DiscoverReq" /\ z = req.since
      <4>1. \A a, b, d, e, f : [[kind |-> a, prefix_only |-> b, type_filter |-> d, tag |-> e, since |-> f]
                                  EXCEPT !.since = z]
               = [kind |-> a, prefix_only |-> b, type_filter |-> d, tag |-> e, since |-> z]
        OBVIOUS
      <4>2. [c EXCEPT !.since = z] = [kind |-> "DiscoverReq", prefix_only |-> c.prefix_only,
                 type_filter |-> c.type_filter, tag |-> c.tag, since |-> z]
        BY <3>1, <4>1
      <4>3. req.kind = "DiscoverReq"
        BY <3>6
      <4> QED  BY <3>6, <4>2, <4>3 DEF z
    <3> QED  BY <3>4, <3>5, <3>7 DEF SameControl, c, z
  <2>6. CASE c.kind # "DiscoverReq"
    <3>1. /\ c.node_type \in 0..15 /\ c.snr \in -128..127
          /\ c.pubkey \in Seq(Byte) /\ Len(c.pubkey) \in {ShortKeySize, PUB_KEY_SIZE}
          /\ c = [kind |-> "DiscoverResp", node_type |-> c.node_type, snr |-> c.snr,
                  tag |-> c.tag, pubkey |-> c.pubkey]
      <4> HIDE DEF c
      <4>1. ControlOK(c) /\ c.kind # "DiscoverReq"
        BY <1>3, <2>6
      <4>2. \A d : ControlOK(d) /\ d.kind # "DiscoverReq" =>
              /\ d.node_type \in 0..15 /\ d.snr \in -128..127
              /\ d.pubkey \in Seq(Byte) /\ Len(d.pubkey) \in {ShortKeySize, PUB_KEY_SIZE}
              /\ d = [kind |-> "DiscoverResp", node_type |-> d.node_type, snr |-> d.snr,
                      tag |-> d.tag, pubkey |-> d.pubkey]
        BY ControlForm
      <4> QED  BY <4>1, <4>2
    <3>2. x[1] = 144 + c.node_type /\ x[2] = c.snr % 256 /\ r = c.pubkey
      BY <2>6 DEF x, r, ControlStart, ControlRest
    <3>3. q[1] \div 16 = 9 /\ q[1] % 16 = c.node_type /\ AsSigned(q[2]) = c.snr
      <4>1. \A n \in 0..15 : (144 + n) \div 16 = 9 /\ (144 + n) % 16 = n
        OBVIOUS
      <4>2. q[1] = 144 + c.node_type /\ q[2] = c.snr % 256
        BY <2>4, <3>2
      <4>3. AsSigned(q[2]) = c.snr
        <5>1. \A n \in -128..127 : AsSigned(n % 256) = n
          BY SignedFacts
        <5> DEFINE n == c.snr
        <5>2. n \in -128..127
          BY <3>1
        <5>3. q[2] = n % 256
          BY <4>2
        <5> HIDE DEF n
        <5>4. AsSigned(n % 256) = n
          BY <5>1, <5>2
        <5> QED  BY <5>3, <5>4 DEF n
      <4>4. q[1] \div 16 = 9 /\ q[1] % 16 = c.node_type
        <5> DEFINE n == c.node_type
        <5>1. n \in 0..15 /\ q[1] = 144 + n
          BY <3>1, <4>2
        <5> HIDE DEF n
        <5> QED  BY <4>1, <5>1 DEF n
      <4> QED  BY <4>3, <4>4
    <3>4. ~ (m.payload_type # Control \/ m.payload_version # 0 \/ Len(q) < fixed)
            /\ q[1] \div 16 # 8
      BY <1>1, <1>9, <3>3
    <3>5. /\ AnsweringKey(rest) = None => ~ whole
          /\ AnsweringKey(rest) # None => /\ IsPrefix(AnsweringKey(rest), c.pubkey)
                                          /\ whole => AnsweringKey(rest) = c.pubkey
      <4> DEFINE s == c.pubkey
      <4> HIDE DEF rest
      <4>1. s \in Seq(Byte) /\ Len(s) \in {ShortKeySize, PUB_KEY_SIZE} /\ j \in 0..Len(s)
            /\ rest = FirstBytes(s, j)
        BY <2>3, <3>1, <3>2
      <4> HIDE DEF s
      <4>2. /\ AnsweringKey(rest) = None => j # Len(s)
            /\ AnsweringKey(rest) # None => /\ IsPrefix(AnsweringKey(rest), s)
                                            /\ j = Len(s) => AnsweringKey(rest) = s
        BY <4>1, AnswerFacts
      <4>3. whole <=> j = Len(s)
        BY <2>3, <3>2 DEF s
      <4> QED  BY <4>2, <4>3 DEF s
    <3>6. CASE AnsweringKey(rest) = None
      <4>1. read = NoControl
        <5> HIDE DEF rest
        <5> QED  BY <3>4, <3>6 DEF DecodeControlPayload, rest
      <4>2. read.kind = "none"
        BY <4>1 DEF NoControl
      <4> QED  BY <1>7, <3>5, <3>6, <4>2 DEF c
    <3>7. CASE AnsweringKey(rest) # None
      <4>1. read = resp
        <5> HIDE DEF rest, tag, resp
        <5> QED  BY <3>3, <3>4, <3>7 DEF DecodeControlPayload, rest, tag, resp
      <4> DEFINE z == AnsweringKey(rest)
      <4>2. resp = [kind |-> "DiscoverResp", node_type |-> c.node_type, snr |-> c.snr,
                    tag |-> c.tag, pubkey |-> z]
        BY <2>3, <3>3 DEF y
      <4> HIDE DEF resp, z
      <4>3. /\ resp = [c EXCEPT !.pubkey = z] /\ resp.pubkey = z
            /\ resp.kind = "DiscoverResp"
        <5>1. \A a, b, d, e, f : [[kind |-> a, node_type |-> b, snr |-> d, tag |-> e, pubkey |-> f]
                                    EXCEPT !.pubkey = z]
                 = [kind |-> a, node_type |-> b, snr |-> d, tag |-> e, pubkey |-> z]
          OBVIOUS
        <5>2. [c EXCEPT !.pubkey = z] = [kind |-> "DiscoverResp", node_type |-> c.node_type,
                 snr |-> c.snr, tag |-> c.tag, pubkey |-> z]
          BY <3>1, <5>1
        <5>3. resp.kind = "DiscoverResp" /\ resp.pubkey = z
          BY <4>2
        <5> QED  BY <4>2, <5>2, <5>3
      <4>4. IsPrefix(z, c.pubkey) /\ (whole => z = c.pubkey)
        BY <3>5, <3>7 DEF z
      <4>5. read.kind # "none" /\ read.kind # "DiscoverReq"
        BY <4>1, <4>3
      <4>6. /\ read = [c EXCEPT !.pubkey = read.pubkey] /\ IsPrefix(read.pubkey, c.pubkey)
            /\ whole => read.pubkey = c.pubkey
        BY <4>1, <4>3, <4>4
      <4> QED  BY <4>5, <4>6 DEF SameControl, c
    <3> QED  BY <3>6, <3>7
  <2> QED  BY <2>5, <2>6
<1> QED  BY <1>8, <1>9

LEMMA ControlRead ==
    ASSUME NEW m \in Messages, NEW k, NEW q, Begins(m, k, q), NEW read,
           read = DecodeControlPayload(m.payload_type, m.payload_version, q),
           NEW whole \in BOOLEAN, whole <=> (k = Len(Payload(m)) /\ m.payload_version = 0)
    PROVE  SameControl(read, m.control, whole)
<1>1. NoControl.kind = "none"
  BY DEF NoControl
<1>2. CASE m.payload_type # Control
  <2>1. m.control = NoControl
    BY <1>2, MessagesAssumption DEF WellFormed
  <2>2. read = NoControl
    BY <1>2 DEF DecodeControlPayload
  <2> QED  BY <1>1, <2>1, <2>2 DEF SameControl
<1>3. CASE m.payload_version # 0
  <2>1. read = NoControl
    BY <1>3 DEF DecodeControlPayload
  <2> QED  BY <1>1, <1>3, <2>1 DEF SameControl
<1>4. CASE m.payload_type = Control /\ m.payload_version = 0
  BY <1>4, DiscoveryRead
<1> QED  BY <1>2, <1>3, <1>4

-----------------------------------------------------------------------------
(* Advertisements.                                                         *)

LEMMA AdvertRead ==
    ASSUME NEW m \in Messages, NEW k, NEW q, Begins(m, k, q), NEW read,
           read = ParseAdvert(m.payload_type, q),
           NEW whole \in BOOLEAN, whole <=> k = Len(Payload(m))
    PROVE  SameAdvert(read, m.advert, whole)
<1>1. CASE m.payload_type # Advert
  <2>1. m.advert = None
    BY <1>1, Payloads
  <2>2. read = None
    BY <1>1 DEF ParseAdvert
  <2> QED  BY <2>1, <2>2 DEF SameAdvert
<1>2. CASE m.payload_type = Advert
  <2> DEFINE a == m.advert[1]
             w == Payload(m)
             key == a.key
             s == <<a.type, a.pos, a.name>>
             P == PUB_KEY_SIZE
  <2>1. m.advert = <<a>> /\ AdvertOK(a) /\ w = AdvertBytes(m.advert)
    BY <1>2, Payloads
  <2>2. m.advert # None
    <3>1. \A y : <<y>> # None
      BY DEF None
    <3> HIDE DEF a
    <3> QED  BY <2>1, <3>1
  <2>3. /\ w = key \o s /\ key \in Seq(Byte) /\ Len(key) = P /\ s \in Seq(Byte) /\ Len(s) = 3
        /\ a = [key |-> a.key, type |-> a.type, pos |-> a.pos, name |-> a.name]
    BY <2>1, <2>2, AdvertForm
  <2>4. s[1] = a.type /\ s[2] = a.pos /\ s[3] = a.name
    OBVIOUS
  <2>5. /\ q \in Seq(Int) /\ Len(q) = k /\ k \in Nat /\ k <= Len(w)
        /\ \A i \in 1..k : q[i] = w[i]
    BY BeginFacts
  <2>6. P \in Nat /\ P >= 1
    BY SomeSizes
  <2>7. key \in Seq(Int) /\ s \in Seq(Int)
    BY <2>3, BytesAreInts
  <2> HIDE DEF a, w, key, s, P
  <2>8. Made(w, key, s)
    BY <2>3, <2>7, JoinFacts
  <2>9. Len(w) = P + 3
    BY <2>3, <2>8 DEF Made
  <2>10. CASE k <= P
    <3>1. read = None
      BY <2>5, <2>10 DEF ParseAdvert, P
    <3>2. k # P + 3
      BY <2>5, <2>6, <2>10
    <3> QED  BY <2>9, <3>1, <3>2 DEF SameAdvert, w
  <2>11. CASE ~ (k <= P)
    <3> DEFINE at(n) == IF Len(q) >= PUB_KEY_SIZE + n THEN q[PUB_KEY_SIZE + n] ELSE 0
               r == [key |-> FirstBytes(q, PUB_KEY_SIZE), type |-> at(1), pos |-> at(2), name |-> at(3)]
    <3>1. read = <<r>>
      <4> HIDE DEF at
      <4>1. ~ (Len(q) <= PUB_KEY_SIZE)
        BY <2>5, <2>11 DEF P
      <4> QED  BY <1>2, <4>1 DEF ParseAdvert, at
    <3>2. ASSUME NEW i \in 1..3, P + i <= k PROVE at(i) = s[i]
      <4>1. P + i \in 1..k
        BY <2>6, <3>2
      <4>2. Len(q) >= P + i
        BY <2>5, <2>6, <3>2
      <4>3. at(i) = q[P + i]
        BY <4>2 DEF P
      <4>4. w[P + i] = s[i]
        BY <2>3, <2>8 DEF Made
      <4> QED  BY <2>5, <4>1, <4>3, <4>4
    <3>3. ASSUME NEW i \in 1..3, ~ (P + i <= k) PROVE at(i) = 0
      <4>1. ~ (Len(q) >= P + i)
        BY <2>5, <2>6, <3>3
      <4> QED  BY <4>1 DEF P
    <3>4. FirstBytes(q, PUB_KEY_SIZE) = key
      <4>1. /\ PUB_KEY_SIZE = 0 + Len(key) /\ PUB_KEY_SIZE <= Len(q)
            /\ PUB_KEY_SIZE \in Nat /\ 0 + 1 = 1
        BY <2>3, <2>5, <2>6, <2>11 DEF P
      <4>2. ASSUME NEW i \in 1..Len(key) PROVE q[0 + i] = key[i]
        <5>1. i \in 1..k /\ 0 + i = i
          BY <2>3, <2>5, <2>6, <2>11
        <5> QED  BY <2>5, <2>8, <5>1 DEF Made
      <4>3. SubSeq(q, 0 + 1, PUB_KEY_SIZE) = key
        BY <2>5, <2>7, <4>1, <4>2, SliceIs
      <4> QED  BY <4>1, <4>3 DEF FirstBytes
    <3> HIDE DEF at
    <3>5. at(1) = a.type
      <4>1. P + 1 <= k
        BY <2>5, <2>6, <2>11
      <4> QED  BY <2>4, <3>2, <4>1
    <3>6. at(2) \in {NoPosition, a.pos}
      BY <2>4, <3>2, <3>3 DEF NoPosition
    <3>7. whole => at(2) = a.pos /\ at(3) = a.name
      <4> SUFFICES ASSUME whole PROVE at(2) = a.pos /\ at(3) = a.name
        OBVIOUS
      <4>1. P + 2 <= k /\ P + 3 <= k
        BY <2>6, <2>9 DEF w
      <4> QED  BY <2>4, <3>2, <4>1
    <3>8. r.key = key /\ r.pos = at(2)
      BY <3>4
    <3>9. whole => r = a
      BY <2>3, <3>4, <3>5, <3>7 DEF key
    <3>10. read # None /\ read[1] = r
      <4>1. \A y : <<y>> # None /\ <<y>>[1] = y
        BY DEF None
      <4> HIDE DEF r
      <4> QED  BY <3>1, <4>1
    <3> HIDE DEF r
    <3>11. whole => read = m.advert
      BY <2>1, <3>1, <3>9
    <3> QED  BY <3>6, <3>8, <3>10, <3>11 DEF SameAdvert, a, key
  <2> QED  BY <2>10, <2>11
<1> QED  BY <1>1, <1>2

-----------------------------------------------------------------------------
(* Texts.                                                                  *)

LEMMA MinFacts ==
    ASSUME NEW S \in SUBSET Nat, S # {}
    PROVE  Min(S) \in S /\ \A i \in S : Min(S) <= i
<1>1. \E x \in S : \A y \in S : x <= y
  BY HasMin
<1> QED  BY <1>1 DEF Min

\* Padded to whole blocks.
LEMMA RestFacts ==
    ASSUME NEW n \in Nat, NEW K \in Nat, K >= 1
    PROVE  /\ n % K \in 0..K - 1 /\ \E d \in Nat : n = K * d + (n % K)
<1>1. n % K \in 0..K - 1
  OBVIOUS
<1>2. n = K * (n \div K) + (n % K) /\ n \div K \in Nat
  OBVIOUS
<1> QED  BY <1>1, <1>2

LEMMA MultipleFacts ==
    ASSUME NEW d \in Nat, NEW K \in Nat, K >= 1
    PROVE  (K * d) % K = 0
<1> DEFINE n == K * d
           r == n % K
           c == n \div K
<1>1. n \in Nat
  OBVIOUS
<1>2. r \in 0..K - 1 /\ n = K * c + r /\ c \in Int
  <2> HIDE DEF n
  <2> QED  BY <1>1
<1>3. r = K * (d - c)
  <2> HIDE DEF r, c
  <2> QED  BY <1>2
<1> HIDE DEF r, c, n
<1>4. d - c < 1
  <2> SUFFICES ASSUME d - c >= 1 PROVE FALSE
    BY <1>2
  <2>1. K * (d - c) >= K
    BY <1>2
  <2> QED  BY <1>2, <1>3, <2>1
<1>5. d - c > -1
  <2> SUFFICES ASSUME d - c <= -1 PROVE FALSE
    BY <1>2
  <2>1. K * (d - c) <= - K
    BY <1>2
  <2> QED  BY <1>2, <1>3, <2>1
<1>6. d - c = 0
  BY <1>2, <1>4, <1>5
<1>7. r = 0
  BY <1>3, <1>6
<1> QED  BY <1>7 DEF r, n

LEMMA PaddedFacts ==
    ASSUME NEW n \in Nat, NEW K \in Nat, K >= 1, NEW s, s = (K - (n % K)) % K
    PROVE  s \in Nat /\ (n + s) % K = 0
<1> DEFINE r == n % K
<1>1. r \in 0..K - 1 /\ \E d \in Nat : n = K * d + r
  BY RestFacts
<1>2. PICK d \in Nat : n = K * d + r
  BY <1>1
<1> HIDE DEF r
<1>3. s = (K - r) % K
  BY DEF r
<1>4. CASE r = 0
  <2>1. K % K = 0
    <3>1. K * 1 = K
      OBVIOUS
    <3> QED  BY <3>1, MultipleFacts
  <2>2. s = 0
    BY <1>3, <1>4, <2>1
  <2>3. n + s = K * d
    BY <1>2, <1>4, <2>2
  <2> QED  BY <2>2, <2>3, MultipleFacts
<1>5. CASE r # 0
  <2>1. K - r \in 0..K - 1
    BY <1>1, <1>5
  <2>2. (K - r) % K = K - r
    <3> DEFINE a == K - r
    <3>1. a \in 0..K - 1
      BY <2>1
    <3> HIDE DEF a
    <3>2. a % K = a
      BY <3>1
    <3> QED  BY <3>2 DEF a
  <2>3. s = K - r /\ s \in Nat
    BY <1>3, <2>1, <2>2
  <2>4. n + s = K * (d + 1)
    BY <1>1, <1>2, <2>3
  <2>5. \A e \in Nat : (K * e) % K = 0
    BY MultipleFacts
  <2>6. d + 1 \in Nat
    OBVIOUS
  <2>7. (K * (d + 1)) % K = 0
    BY <2>5, <2>6
  <2> QED  BY <2>3, <2>4, <2>7
<1> QED  BY <1>4, <1>5

LEMMA PlaintextFacts ==
    ASSUME NEW x \in Seq(Byte \ {0})
    PROVE  /\ Len(Plaintext(x)) \in Nat /\ Len(Plaintext(x)) >= 1
           /\ Len(Plaintext(x)) % CIPHER_KEY_SIZE = 0
           /\ ParseGroupTextPlaintext(Plaintext(x)) = <<x>>
<1> DEFINE t == ToLittleEndian(1)
           plain == t \o <<0>> \o x
           short == (CIPHER_KEY_SIZE - (Len(plain) % CIPHER_KEY_SIZE)) % CIPHER_KEY_SIZE
           z == [i \in 1..short |-> 0]
           W == WordSize
           p == Plaintext(x)
           text == From(p, W + 1)
           y == x \o z
           ends == {i \in DOMAIN text : text[i] = 0}
<1>1. W \in Nat /\ CIPHER_KEY_SIZE \in Nat /\ CIPHER_KEY_SIZE >= 1
  BY SomeSizes
<1>2. t \in Seq(Byte) /\ Len(t) = W /\ <<0>> \in Seq(Byte) /\ Len(<<0>>) = 1
  <2>1. 0 \in Byte
    BY DEF Byte
  <2>2. \A b \in Byte : <<b>> \in Seq(Byte) /\ Len(<<b>>) = 1
    OBVIOUS
  <2>3. 1 \in Nat
    OBVIOUS
  <2> QED  BY <2>1, <2>2, <2>3, LittleEndian
<1>3. x \in Seq(Byte) /\ x \in Seq(Int) /\ Len(x) \in Nat /\ \A i \in 1..Len(x) : x[i] # 0
  <2>1. Byte \ {0} \subseteq Byte
    OBVIOUS
  <2>2. x \in Seq(Byte)
    BY <2>1, SeqMonotonic
  <2>3. \A i \in 1..Len(x) : x[i] \in Byte \ {0}
    BY ElementOfSeq
  <2> QED  BY <2>2, <2>3, BytesAreInts
<1> HIDE DEF t
<1>4. InThree(plain, t, <<0>>, x)
  BY <1>2, <1>3, ThreeParts
<1>5. plain \in Seq(Byte)
  <2>1. t \o <<0>> \in Seq(Byte)
    BY <1>2, JoinedBytes
  <2> QED  BY <1>3, <2>1, JoinedBytes
<1>6. p = plain \o z
  BY DEF Plaintext, t
<1> HIDE DEF plain
<1>7. Len(plain) = W + 1 + Len(x) /\ Len(plain) \in Nat
  <2>1. Len(plain) = W + 1 + Len(x)
    BY <1>2, <1>4 DEF InThree
  <2> HIDE DEF W
  <2> QED  BY <1>1, <1>3, <2>1
<1>8. short \in Nat /\ (Len(plain) + short) % CIPHER_KEY_SIZE = 0
  <2> DEFINE n == Len(plain)
  <2> HIDE DEF n
  <2>1. n \in Nat
    BY <1>7 DEF n
  <2>2. short = (CIPHER_KEY_SIZE - (n % CIPHER_KEY_SIZE)) % CIPHER_KEY_SIZE
    BY DEF n
  <2> HIDE DEF short
  <2> QED  BY <1>1, <2>1, <2>2, PaddedFacts DEF n
<1> HIDE DEF short
<1>9. z \in Seq(Byte) /\ z \in Seq(Int) /\ Len(z) = short /\ \A i \in 1..short : z[i] = 0
  <2>1. z \in [1..short -> 0..255]
    OBVIOUS
  <2>2. z \in Seq(Byte) /\ Len(z) = short
    BY <1>8, <2>1 DEF Byte
  <2> QED  BY <2>2, BytesAreInts
<1> HIDE DEF z
<1>10. plain \in Seq(Int)
  BY <1>5, BytesAreInts
<1>11. Made(p, plain, z)
  BY <1>6, <1>9, <1>10, JoinFacts
<1>12. Made(y, x, z)
  BY <1>3, <1>9, JoinFacts
<1> HIDE DEF p, y, W
<1>13. p \in Seq(Int) /\ Len(p) = W + 1 + Len(x) + short
  BY <1>7, <1>9, <1>11 DEF Made
<1>14. y \in Seq(Int) /\ Len(y) = Len(x) + short
  BY <1>9, <1>12 DEF Made
<1>15. ASSUME NEW i \in 1..Len(plain) PROVE p[i] = plain[i]
  BY <1>11 DEF Made
<1>16. p[W + 1] = 0
  <2>1. W + 1 \in 1..Len(plain)
    BY <1>1, <1>3, <1>7
  <2>2. plain[W + 1] = <<0>>[1]
    <3>1. 1 \in 1..1
      OBVIOUS
    <3> QED  BY <1>2, <1>4, <3>1 DEF InThree
  <2> QED  BY <1>15, <2>1, <2>2
<1>17. text = y
  <2>1. ASSUME NEW i \in 1..Len(y) PROVE p[(W + 1) + i] = y[i]
    <3>1. CASE i <= Len(x)
      <4>1. i \in 1..Len(x) /\ (W + 1) + i \in 1..Len(plain)
        BY <1>1, <1>3, <1>7, <3>1
      <4>2. p[(W + 1) + i] = plain[(W + 1) + i]
        BY <1>15, <4>1
      <4>3. plain[(W + 1) + i] = x[i]
        <5> DEFINE v == t \o <<0>>
        <5>1. t \in Seq(Int) /\ <<0>> \in Seq(Int) /\ Len(<<0>>) = 1
          BY <1>2, BytesAreInts
        <5>2. Made(v, t, <<0>>)
          BY <5>1, JoinFacts
        <5> HIDE DEF v
        <5>3. v \in Seq(Int) /\ Len(v) = W + 1
          BY <1>2, <5>2 DEF Made
        <5>4. Made(plain, v, x)
          BY <1>3, <5>3, JoinFacts DEF plain, v
        <5> QED  BY <4>1, <5>3, <5>4 DEF Made
      <4>4. y[i] = x[i]
        BY <1>12, <4>1 DEF Made
      <4> QED  BY <4>2, <4>3, <4>4
    <3>2. CASE ~ (i <= Len(x))
      <4>1. PICK j \in 1..short : i = Len(x) + j
        <5>1. i - Len(x) \in 1..short /\ i = Len(x) + (i - Len(x))
          BY <1>3, <1>8, <1>14, <3>2
        <5> QED  BY <5>1
      <4>2. j \in 1..Len(z)
        BY <1>9
      <4>3. (W + 1) + i = Len(plain) + j
        BY <1>1, <1>3, <1>7, <1>8, <4>1
      <4>4. p[Len(plain) + j] = z[j]
        BY <1>11, <4>2 DEF Made
      <4>5. y[Len(x) + j] = z[j]
        BY <1>12, <4>2 DEF Made
      <4> QED  BY <4>1, <4>3, <4>4, <4>5
    <3> QED  BY <3>1, <3>2
  <2>2. /\ Len(p) = (W + 1) + Len(y) /\ W + 1 \in Nat /\ Len(p) \in Nat
        /\ Len(p) <= Len(p)
    BY <1>1, <1>3, <1>8, <1>13, <1>14
  <2>3. SubSeq(p, (W + 1) + 1, Len(p)) = y
    BY <1>13, <1>14, <2>1, <2>2, SliceIs
  <2> QED  BY <2>3 DEF From
<1>18. DOMAIN y = 1..Len(x) + short
  BY <1>14, LenProperties
<1>19. \A i \in 1..Len(x) : y[i] # 0
  <2>1. \A i \in 1..Len(x) : y[i] = x[i]
    BY <1>12 DEF Made
  <2> QED  BY <1>3, <2>1
<1> HIDE DEF text
<1>20. (IF ends = {} THEN text ELSE FirstBytes(text, Min(ends) - 1)) = x
  <2>0. Len(x) \in Nat /\ short \in Nat
    BY <1>3, <1>8
  <2>1. CASE short = 0
    <3>1. ends = {}
      <4>1. 1..Len(x) + short = 1..Len(x)
        BY <2>0, <2>1
      <4> QED  BY <1>17, <1>18, <1>19, <4>1
    <3>2. y = x
      <4>1. Len(y) = Len(x)
        BY <1>14, <2>0, <2>1
      <4>2. \A i \in 1..Len(y) : y[i] = x[i]
        BY <1>12, <4>1 DEF Made
      <4> QED  BY <1>3, <1>14, <4>1, <4>2, SeqEqual
    <3> QED  BY <1>17, <3>1, <3>2
  <2>2. CASE short # 0
    <3> DEFINE e == Len(x) + 1
    <3>1. e \in 1..Len(x) + short /\ 1 \in 1..Len(z)
      BY <1>9, <2>0, <2>2
    <3>2. y[e] = 0
      <4>1. y[Len(x) + 1] = z[1]
        BY <1>12, <3>1 DEF Made
      <4> QED  BY <1>9, <3>1, <4>1
    <3>3. e \in ends
      BY <1>17, <1>18, <3>1, <3>2
    <3>4. \A i \in ends : e <= i /\ i \in Nat
      <4>1. ASSUME NEW i \in ends PROVE e <= i /\ i \in Nat
        <5>1. i \in 1..Len(x) + short /\ y[i] = 0
          BY <1>17, <1>18
        <5>2. i \notin 1..Len(x)
          BY <1>19, <5>1
        <5> QED  BY <2>0, <5>1, <5>2
      <4> QED  BY <4>1
    <3> HIDE DEF ends
    <3>5. Min(ends) = e
      <4>1. ends \in SUBSET Nat /\ ends # {}
        BY <3>3, <3>4
      <4>2. Min(ends) \in ends /\ \A i \in ends : Min(ends) <= i
        BY <4>1, MinFacts
      <4>3. e <= Min(ends) /\ Min(ends) <= e /\ Min(ends) \in Nat
        BY <3>3, <3>4, <4>2
      <4>4. e \in Nat
        BY <2>0
      <4> HIDE DEF e
      <4> QED  BY <4>3, <4>4
    <3>6. FirstBytes(y, Len(x)) = x
      <4>1. Len(x) \in 0..Len(y)
        BY <1>14, <2>0
      <4>2. /\ FirstBytes(y, Len(x)) \in Seq(Int) /\ Len(FirstBytes(y, Len(x))) = Len(x)
            /\ \A i \in 1..Len(x) : FirstBytes(y, Len(x))[i] = y[i]
        BY <1>14, <4>1, FirstFacts
      <4>3. \A i \in 1..Len(x) : y[i] = x[i]
        BY <1>12 DEF Made
      <4>4. \A i \in 1..Len(x) : FirstBytes(y, Len(x))[i] = x[i]
        BY <4>2, <4>3
      <4> QED  BY <1>3, <4>2, <4>4, SeqEqual
    <3>7. Min(ends) - 1 = Len(x)
      BY <2>0, <3>5
    <3> QED  BY <1>17, <3>3, <3>6, <3>7
  <2> QED  BY <2>1, <2>2
<1>21. ~ (Len(p) < W + 1 \/ p[W + 1] \div 4 # 0)
  <2>1. ~ (Len(p) < W + 1)
    BY <1>1, <1>3, <1>8, <1>13
  <2>2. 0 \div 4 = 0
    OBVIOUS
  <2> QED  BY <1>16, <2>1, <2>2
<1> HIDE DEF ends
<1>22. ParseGroupTextPlaintext(p) = <<x>>
  <2>1. ParseGroupTextPlaintext(p) = <<IF ends = {} THEN text ELSE FirstBytes(text, Min(ends) - 1)>>
    BY <1>21 DEF ParseGroupTextPlaintext, text, ends, W
  <2> QED  BY <1>20, <2>1
<1>23. Len(p) \in Nat /\ Len(p) >= 1 /\ Len(p) % CIPHER_KEY_SIZE = 0
  <2>1. Len(p) = Len(plain) + short
    BY <1>7, <1>13
  <2>2. Len(p) \in Nat /\ Len(p) >= 1
    BY <1>1, <1>3, <1>8, <1>13
  <2> QED  BY <1>8, <2>1, <2>2
<1> QED  BY <1>22, <1>23 DEF p

-----------------------------------------------------------------------------
(* The text of a channel.                                                   *)

Candidates == ChannelKeys(HashtagChannels, PublicName, PublicPsk)

LEMMA KeysFacts ==
    /\ DOMAIN Candidates \subseteq Nat
    /\ \A i \in DOMAIN Candidates : Candidates[i] \in ToSet(Candidates)
    /\ \A key \in ToSet(Candidates) : /\ key.hash = HashByte(key.secret)
                                /\ \E i \in DOMAIN Candidates : key = Candidates[i]
<1> DEFINE entry(name, psk) ==
               [name |-> name, secret |-> psk, hash |-> HashByte(psk)]
           h(i) == entry(HashtagChannels[i], HashtagChannelKey(HashtagChannels[i]))
           S == {entry(PublicName, PublicPsk)} \cup {h(i) : i \in DOMAIN HashtagChannels}
           first == <<entry(PublicName, PublicPsk)>>
           others == [i \in DOMAIN HashtagChannels |-> h(i)]
<1>1. Candidates = first \o others
  BY DEF Candidates, ChannelKeys, GroupChannelSecretAndHash
<1>2. \A key \in S : key.hash = HashByte(key.secret)
  OBVIOUS
<1>3. entry(PublicName, PublicPsk) \in S /\ \A i \in DOMAIN HashtagChannels : h(i) \in S
  OBVIOUS
<1>4. first \in Seq(S) /\ others \in Seq(S)
  <2>1. \E n \in Nat : DOMAIN HashtagChannels = 1..n
    <3>1. HashtagChannels \in Seq(ToSet(HashtagChannels))
      BY ConfiguredAssumption
    <3> QED  BY <3>1
  <2> HIDE DEF S, h, entry
  <2>2. first \in Seq(S)
    BY <1>3
  <2>3. PICK n \in Nat : DOMAIN HashtagChannels = 1..n
    BY <2>1
  <2>4. others \in [1..n -> S]
    BY <1>3, <2>3
  <2> QED  BY <2>2, <2>4, SeqDef
<1> HIDE DEF S, first, others
<1>5. Candidates \in Seq(S)
  BY <1>1, <1>4, ConcatProperties
<1> QED  BY <1>2, <1>5 DEF ToSet

\* What a configured channel makes of a text, or of its first bytes: the text if the
\* text is whole and its own, and otherwise nothing.
LEMMA ChannelTries ==
    ASSUME NEW m \in Messages, NEW k, NEW q, Begins(m, k, q), m.payload_type = GroupText,
           k >= 1, NEW key \in ToSet(Candidates)
    PROVE  /\ DecodedBy(key, q) # None => key.secret = m.secret /\ k = Len(Payload(m))
           /\ key.secret = m.secret /\ k = Len(Payload(m)) => DecodedBy(key, q) = <<m.text[1]>>
<1> DEFINE x == m.text[1]
           mac == HMAC(m.secret, Cipher(m))
           C == CIPHER_MAC_SIZE
           B == CIPHER_KEY_SIZE
           w == Payload(m)
           r == Cipher(m)
           bytes == Tail(q)
           a == 1 + C
           cipher == From(bytes, C)
           plain == MacThenDecrypt(key.secret, bytes)
<1>1. /\ w \in Seq(Int) /\ Len(w) \in Nat /\ q \in Seq(Int) /\ Len(q) = k /\ k \in Nat
      /\ k <= Len(w) /\ \A i \in 1..k : q[i] = w[i]
  BY BeginFacts
<1>2. /\ w = m.channel \o mac \o r /\ m.channel \in Seq(Byte) /\ Len(m.channel) = 1
      /\ mac \in Seq(Byte) /\ Len(mac) = C /\ r \in Seq(Byte) /\ m.text # None
  <2>1. w = ChannelBytes(m) /\ m.text = <<m.text[1]>> /\ m.channel \in Seq(Byte) /\ Len(m.channel) = 1
    BY Payloads
  <2>2. m.text # None
    <3>1. \A y : <<y>> # None
      BY DEF None
    <3> QED  BY <2>1, <3>1
  <2> QED  BY <2>1, <2>2, ChannelForm
<1>3. x \in Seq(Byte \ {0}) /\ m.channel = <<HashByte(m.secret)>>
  BY MessagesAssumption DEF WellFormed
<1>4. /\ Len(r) = Len(Plaintext(x)) /\ Decrypt(m.secret, r) = Plaintext(x)
  BY <1>2, CipherAssumption
<1>5. /\ Len(r) \in Nat /\ Len(r) >= 1 /\ Len(r) % B = 0
      /\ ParseGroupTextPlaintext(Plaintext(x)) = <<x>>
  BY <1>3, <1>4, PlaintextFacts
<1>6. C \in Nat /\ C >= 1
  BY SizesAssumption
<1>7. key.hash = HashByte(key.secret)
  BY KeysFacts
<1>8. bytes \in Seq(Int) /\ Len(bytes) = k - 1 /\ \A i \in 1..k - 1 : bytes[i] = q[i + 1]
  <2>1. q # <<>>
    BY <1>1, EmptySeq
  <2> QED  BY <1>1, <2>1, HeadTailProperties
<1>9. q[1] = HashByte(m.secret) /\ Len(w) = 1 + C + Len(r)
  <2>1. InThree(w, m.channel, mac, r)
    BY <1>2, ThreeParts
  <2>2. 1 \in 1..1 /\ 1 \in 1..k
    BY <1>1
  <2>3. w[1] = m.channel[1]
    BY <1>2, <2>1, <2>2 DEF InThree
  <2>4. \A y : <<y>>[1] = y
    OBVIOUS
  <2> QED  BY <1>1, <1>2, <1>3, <2>1, <2>2, <2>3, <2>4 DEF InThree
<1> HIDE DEF C, B, w, x, mac, r, bytes
<1>10. ASSUME Len(bytes) > C
       PROVE  /\ FirstBytes(bytes, C) = mac
              /\ k - a \in 1..Len(r) /\ (k = Len(w) <=> k - a = Len(r))
              /\ cipher = FirstBytes(r, k - a) /\ Len(cipher) = k - a
  <2>1. a \in Nat /\ a <= k /\ k - a >= 1 /\ C <= Len(bytes) /\ Len(bytes) = C + (k - a)
    <3>1. k \in Nat /\ C \in Nat /\ Len(bytes) = k - 1 /\ Len(bytes) > C
      BY <1>1, <1>6, <1>8, <1>10
    <3>2. \A i, c \in Nat : i - 1 > c => /\ 1 + c \in Nat /\ 1 + c <= i /\ i - (1 + c) >= 1
                                       /\ c <= i - 1 /\ i - 1 = c + (i - (1 + c))
      OBVIOUS
    <3> QED  BY <3>1, <3>2
  <2>2. CutIn(q, k, w, m.channel, mac, r, a)
    <3>1. k \in 0..Len(w) /\ q = FirstBytes(w, k) /\ a = Len(m.channel) + Len(mac)
      BY <1>2 DEF Begins, w
    <3> QED  BY <1>2, <2>1, <3>1, CutInThree
  <2> DEFINE u == FirstBytes(r, k - a)
  <2>3. /\ k - a \in 0..Len(r) /\ (k = Len(w) <=> k - a = Len(r))
        /\ From(q, a) = u /\ SubSeq(q, Len(m.channel) + 1, a) = mac
    BY <2>2 DEF CutIn
  <2>4. u \in Seq(Int) /\ Len(u) = k - a
    <3>1. r \in Seq(Int)
      BY <1>2, BytesAreInts
    <3> QED  BY <2>3, <3>1, FirstFacts
  <2>5. ASSUME NEW i \in 1..k - a PROVE u[i] = bytes[C + i]
    <3>1. \A j \in 1..k - a : SubSeq(q, a + 1, k)[j] = q[a + j]
      <4>1. k <= Len(q)
        BY <1>1
      <4> QED  BY <1>1, <2>1, <4>1, PartFacts
    <3>2. From(q, a) = SubSeq(q, a + 1, k)
      BY <1>1 DEF From
    <3>3. C + i \in 1..k - 1 /\ C + i + 1 = a + i
      BY <1>1, <1>6, <2>1
    <3> QED  BY <1>8, <2>3, <3>1, <3>2, <3>3
  <2>6. ASSUME NEW i \in 1..C PROVE mac[i] = bytes[i]
    <3>1. \A j \in 1..a - 1 : SubSeq(q, 1 + 1, a)[j] = q[1 + j]
      <4>1. a <= Len(q) /\ 1 <= a
        BY <1>1, <2>1, <1>6
      <4> QED  BY <1>1, <2>1, <4>1, PartFacts
    <3>2. i \in 1..a - 1 /\ i \in 1..k - 1 /\ 1 + i = i + 1
      BY <1>1, <1>6, <2>1
    <3> QED  BY <1>2, <1>8, <2>3, <3>1, <3>2
  <2>7. cipher = u
    <3>1. Len(bytes) = C + Len(u) /\ Len(bytes) <= Len(bytes) /\ Len(bytes) \in Nat
      <4>1. k \in Nat /\ Len(bytes) = k - 1 /\ k - a >= 1 /\ a \in Nat /\ C \in Nat
        BY <1>1, <1>6, <1>8, <2>1
      <4>2. \A i, j \in Nat : i - j >= 1 => i - 1 \in Nat /\ i - 1 <= i - 1
        OBVIOUS
      <4> HIDE DEF a, u
      <4> QED  BY <2>1, <2>4, <4>1, <4>2
    <3>2. \A i \in 1..Len(u) : bytes[C + i] = u[i]
      BY <2>4, <2>5
    <3> HIDE DEF u
    <3> QED  BY <1>6, <1>8, <2>4, <3>1, <3>2, SliceIs DEF From
  <2>8. FirstBytes(bytes, C) = mac
    <3>1. mac \in Seq(Int) /\ C = 0 + Len(mac) /\ 0 + 1 = 1 /\ 0 \in Nat
      BY <1>2, <1>6, BytesAreInts
    <3>2. \A i \in 1..Len(mac) : bytes[0 + i] = mac[i]
      <4>1. \A i \in 1..C : 0 + i = i
        BY <1>6
      <4> QED  BY <1>2, <2>6, <4>1
    <3>3. SubSeq(bytes, 0 + 1, C) = mac
      BY <1>6, <1>8, <2>1, <3>1, <3>2, SliceIs
    <3> QED  BY <3>1, <3>3 DEF FirstBytes
  <2> QED  BY <2>1, <2>3, <2>4, <2>7, <2>8
<1>11. ASSUME DecodedBy(key, q) # None PROVE key.secret = m.secret /\ k = Len(w)
  <2>1. q[1] = key.hash /\ plain # None
    BY <1>11 DEF DecodedBy, bytes
  <2>2. /\ ~ (Len(bytes) <= C) /\ Len(cipher) % B = 0
        /\ FirstBytes(bytes, C) = HMAC(key.secret, cipher)
    BY <2>1 DEF MacThenDecrypt, C, B
  <2>3. Len(bytes) > C
    BY <1>1, <1>6, <1>8, <2>2
  <2>4. /\ key.hash = HashByte(m.secret) /\ (k - a) % B = 0 /\ k - a \in 1..Len(r)
        /\ HMAC(key.secret, FirstBytes(r, k - a)) = mac
    BY <1>9, <1>10, <2>1, <2>2, <2>3
  <2>5. key.secret = m.secret /\ k - a = Len(r)
    BY <1>2, <2>4, MacAssumption DEF Candidates, B, r, mac
  <2> QED  BY <1>10, <2>3, <2>5
<1>12. ASSUME key.secret = m.secret, k = Len(w) PROVE DecodedBy(key, q) = <<x>>
  <2>1. q[1] = key.hash
    BY <1>7, <1>9, <1>12
  <2>2. Len(bytes) > C
    BY <1>1, <1>5, <1>6, <1>8, <1>9, <1>12
  <2>3. cipher = r /\ Len(cipher) = Len(r) /\ FirstBytes(bytes, C) = mac
    <3>1. k - a = Len(r)
      BY <1>10, <1>12, <2>2
    <3>2. FirstBytes(r, Len(r)) = r
      BY <1>2, BytesAreInts, WholeFacts
    <3> QED  BY <1>10, <2>2, <3>1, <3>2
  <2>4. ~ (Len(bytes) <= C)
    BY <1>1, <1>6, <1>8, <2>2
  <2>5. plain = <<Decrypt(key.secret, cipher)>>
    <3>1. Len(cipher) % B = 0 /\ FirstBytes(bytes, C) = HMAC(key.secret, cipher)
      BY <1>5, <1>12, <2>3 DEF mac, r
    <3> QED  BY <2>4, <3>1 DEF MacThenDecrypt, C, B
  <2>6. plain # None /\ plain[1] = Plaintext(x)
    <3>1. \A y : <<y>> # None /\ <<y>>[1] = y
      BY DEF None
    <3> QED  BY <1>4, <1>12, <2>3, <2>5, <3>1
  <2> HIDE DEF plain
  <2>7. DecodedBy(key, q) = ParseGroupTextPlaintext(plain[1])
    BY <2>1, <2>6 DEF DecodedBy, plain, bytes
  <2> QED  BY <1>5, <2>6, <2>7
<1> QED  BY <1>11, <1>12 DEF x, w

LEMMA TextRead ==
    ASSUME NEW m \in Messages, NEW k, NEW q, Begins(m, k, q), NEW e,
           e.header = <<InfoOf(m, q)>>, e.payload = q,
           NEW whole \in BOOLEAN, whole <=> (k = Len(Payload(m)) /\ m.payload_version = 0)
    PROVE  SameText(DecodeGroupText(e, Candidates), m, whole, Candidates)
<1> DEFINE h == e.header[1]
           x == m.text[1]
           read == DecodeGroupText(e, Candidates)
           hits == {i \in DOMAIN Candidates : DecodedBy(Candidates[i], e.payload) # None}
           channels == {key \in ToSet(Candidates) : key.secret = m.secret}
           sent == {<<[channel |-> key.name, text |-> x]>> : key \in channels}
<1>1. e.header # None /\ h.payload_type = m.payload_type /\ h.payload_version = m.payload_version
  <2>1. \A y : <<y>> # None /\ <<y>>[1] = y
    BY DEF None
  <2>2. e.header # None /\ h = InfoOf(m, q)
    BY <2>1
  <2> HIDE DEF h
  <2> QED  BY <2>2, InfoFacts
<1>2. m.payload_type = GroupText => m.text = <<x>> /\ m.text # None
  <2>1. \A y : <<y>> # None
    BY DEF None
  <2> QED  BY <2>1, Payloads
<1>3. m.payload_type # GroupText => m.text = None
  BY Payloads
<1>4. SameText(read, m, whole, Candidates)
        <=> IF m.text = None \/ channels = {} THEN read = None
            ELSE read \in sent \/ (read = None /\ ~ whole)
  BY DEF SameText
<1>5. CASE m.payload_type # GroupText \/ m.payload_version # 0
  <2>1. read = None
    BY <1>1, <1>5 DEF DecodeGroupText
  <2> HIDE DEF read, channels, sent
  <2> QED  BY <1>3, <1>4, <1>5, <2>1 DEF read
<1>6. CASE m.payload_type = GroupText /\ m.payload_version = 0
  <2>1. q \in Seq(Int) /\ Len(q) = k /\ k \in Nat
    BY BeginFacts
  <2>2. CASE q = <<>>
    <3>1. read = None
      BY <1>1, <2>2 DEF DecodeGroupText
    <3>2. k = 0 /\ Len(Payload(m)) # 0
      <4>1. k = 0
        BY <2>1, <2>2, EmptySeq
      <4>2. Payload(m) = m.channel \o HMAC(m.secret, Cipher(m)) \o Cipher(m)
        BY <1>2, <1>6, Payloads, ChannelForm
      <4>3. /\ m.channel \in Seq(Byte) /\ Len(m.channel) = 1
            /\ HMAC(m.secret, Cipher(m)) \in Seq(Byte) /\ Cipher(m) \in Seq(Byte)
        BY <1>2, <1>6, Payloads, ChannelForm
      <4>4. InThree(Payload(m), m.channel, HMAC(m.secret, Cipher(m)), Cipher(m))
        BY <4>2, <4>3, ThreeParts
      <4>5. \E i, j \in Nat : Len(Payload(m)) = 1 + i + j
        BY <4>3, <4>4 DEF InThree
      <4> QED  BY <4>1, <4>5
    <3> HIDE DEF read, channels, sent
    <3> QED  BY <1>4, <3>1, <3>2 DEF read
  <2>3. CASE q # <<>>
    <3>1. k >= 1
      BY <2>1, <2>3, EmptySeq
    <3>2. ASSUME hits = {} PROVE SameText(read, m, whole, Candidates)
      <4>1. read = None
        BY <3>2 DEF DecodeGroupText
      <4>2. ASSUME whole, NEW key \in channels PROVE FALSE
        <5>1. PICK i \in DOMAIN Candidates : key = Candidates[i]
          BY <4>2, KeysFacts
        <5>2. DecodedBy(key, q) = <<x>>
          BY <1>6, <3>1, <4>2, ChannelTries
        <5>3. <<x>> # None
          <6>1. \A y : <<y>> # None
            BY DEF None
          <6> QED  BY <6>1
        <5> QED  BY <3>2, <5>1, <5>2, <5>3
      <4>3. ~ whole \/ channels = {}
        BY <4>2
      <4> HIDE DEF read, channels, sent
      <4> QED  BY <1>4, <4>1, <4>3
    <3>3. ASSUME hits # {} PROVE SameText(read, m, whole, Candidates)
      <4> DEFINE key == Candidates[Min(hits)]
      <4>1. Min(hits) \in hits
        <5>1. hits \in SUBSET Nat
          BY KeysFacts
        <5> HIDE DEF hits
        <5> QED  BY <3>3, <5>1, MinFacts
      <4>2. key \in ToSet(Candidates) /\ DecodedBy(key, q) # None
        BY <4>1, KeysFacts
      <4>3. read = <<[channel |-> key.name, text |-> DecodedBy(key, q)[1]]>>
        BY <1>1, <1>6, <2>3, <3>3 DEF DecodeGroupText
      <4> HIDE DEF key, hits
      <4>4. key.secret = m.secret /\ DecodedBy(key, q)[1] = x
        <5>1. \A y : <<y>>[1] = y
          OBVIOUS
        <5> HIDE DEF x
        <5>2. key.secret = m.secret /\ DecodedBy(key, q) = <<x>>
          BY <1>6, <3>1, <4>2, ChannelTries DEF x
        <5> QED  BY <5>1, <5>2
      <4>5. read \in sent /\ channels # {}
        <5>1. key \in channels
          BY <4>2, <4>4
        <5> HIDE DEF read
        <5> QED  BY <4>3, <4>4, <5>1
      <4> HIDE DEF read, channels, sent
      <4> QED  BY <1>2, <1>4, <1>6, <4>5
    <3> QED  BY <3>2, <3>3
  <2> QED  BY <2>2, <2>3
<1> QED  BY <1>5, <1>6 DEF read

\* The region of a scoped packet, or a configured one before it with the same code.
LEMMA RegionRead ==
    ASSUME NEW m \in Messages, m.region # None, m.region[1] \in ToSet(Regions), NEW e,
           e.header = <<InfoOf(m, Payload(m))>>, e.payload = Payload(m), NEW region,
           region = MatchingRegionName(e, Regions)
    PROVE  /\ region # None
           /\ CalcTransportCode(SHA256(region[1]), m.payload_type, Payload(m)) = FirstBytes(m.codes, 2)
<1> DEFINE h == e.header[1]
           q == Payload(m)
           matches(name) ==
               CalcTransportCode(DeriveRegionKey(name), h.payload_type, e.payload)
                 = FirstBytes(h.transport_code, 2)
           hits == {i \in DOMAIN Regions : matches(Regions[i])}
<1>1. e.header # None /\ h.payload_type = m.payload_type /\ h.transport_code = m.codes
  <2>1. \A y : <<y>> # None /\ <<y>>[1] = y
    BY DEF None
  <2>2. e.header # None /\ h = InfoOf(m, Payload(m))
    BY <2>1
  <2> HIDE DEF h
  <2> QED  BY <2>2, InfoFacts
<1>2. \A name : matches(name)
                  <=> CalcTransportCode(SHA256(name), m.payload_type, q) = FirstBytes(m.codes, 2)
  BY <1>1 DEF DeriveRegionKey
<1>3. ~ (Len(m.codes) < 2) /\ matches(m.region[1])
  <2>1. Len(m.codes) >= 2
    BY MessagesAssumption
  <2>2. Len(m.codes) \in Nat
    BY PreambleFacts, Payloads
  <2>3. CalcTransportCode(SHA256(m.region[1]), m.payload_type, q) = FirstBytes(m.codes, 2)
    BY MessagesAssumption
  <2> HIDE DEF matches
  <2> QED  BY <1>2, <2>1, <2>2, <2>3
<1>4. PICK i \in DOMAIN Regions : Regions[i] = m.region[1]
  BY DEF ToSet
<1>5. Min(hits) \in hits /\ hits # {}
  <2>1. i \in hits
    <3> HIDE DEF matches
    <3> QED  BY <1>3, <1>4
  <2>2. hits \in SUBSET Nat
    <3>1. DOMAIN Regions \subseteq Nat
      BY ConfiguredAssumption
    <3> QED  BY <3>1
  <2> HIDE DEF hits
  <2> QED  BY <2>1, <2>2, MinFacts
<1>6. region = <<Regions[Min(hits)]>>
  BY <1>1, <1>3, <1>5 DEF MatchingRegionName
<1>7. region # None /\ region[1] = Regions[Min(hits)]
  <2>1. \A y : <<y>> # None /\ <<y>>[1] = y
    BY DEF None
  <2> HIDE DEF hits
  <2> QED  BY <1>6, <2>1
<1>8. matches(region[1])
  <2> HIDE DEF matches
  <2> QED  BY <1>5, <1>7
<1> HIDE DEF matches
<1> QED  BY <1>2, <1>7, <1>8 DEF q

-----------------------------------------------------------------------------
(* The packet log holds packets heard, each read right.                     *)

Reception(m, n, id, at) ==
    [sent |-> m, raw |-> FirstBytes(Transmitted(m), n), whole |-> n = Len(Transmitted(m)),
     entry |-> Keyed(BuildPacketLogEntry(id, at, Parse(FirstBytes(Transmitted(m), n))))]

Receptions ==
    UNION {{Reception(m, n, id, at) : n \in 0..Len(Transmitted(m)), id \in Nat, at \in Times} :
              m \in Messages}

LogOK == packets \in [Pids -> Seq(Receptions)]

RightlyRead(r) ==
    LET m == r.sent
        e == r.entry
        h == e.header[1]
        whole == r.whole /\ m.payload_version = 0
        region == MatchingRegionName(e, Regions)
    IN  IF e.header = None THEN ~ r.whole
        ELSE /\ PublishedAsHeard(e, m, r.raw)
             /\ Read(h.dest, m.dest, whole)
             /\ Read(h.src, m.src, whole)
             /\ Read(h.channel, m.channel, whole)
             /\ Read(h.sender, m.sender, whole)
             /\ SameControl(h.control, m.control, whole)
             /\ SameAdvert(h.advert, m.advert, r.whole)
             /\ SameText(DecodeGroupText(e, Candidates), m, whole, Candidates)
             /\ r.whole /\ m.region # None /\ m.region[1] \in ToSet(Regions) =>
                   /\ region # None
                   /\ CalcTransportCode(SHA256(region[1]), m.payload_type, Payload(m))
                        = FirstBytes(m.codes, 2)

LEMMA EachReadRight ==
    ASSUME NEW r \in Receptions
    PROVE  RightlyRead(r)
<1>0. PICK m \in Messages : r \in {Reception(m, n, id, at) :
          n \in 0..Len(Transmitted(m)), id \in Nat, at \in Times}
  BY DEF Receptions
<1>1. PICK n \in 0..Len(Transmitted(m)), id \in Nat, at \in Times : r = Reception(m, n, id, at)
  <2> HIDE DEF Reception
  <2> QED  BY <1>0
<1> DEFINE raw == FirstBytes(Transmitted(m), n)
           e == r.entry
           h == e.header[1]
           k == n - PreambleSize(m)
           q == FirstBytes(Payload(m), k)
           whole == k = Len(Payload(m))
           understood == whole /\ m.payload_version = 0
           region == MatchingRegionName(e, Regions)
<1>2. /\ r.sent = m /\ r.raw = raw /\ r.whole = (n = Len(Transmitted(m)))
      /\ e = Keyed(BuildPacketLogEntry(id, at, Parse(raw)))
  BY <1>1 DEF Reception
<1>3. /\ Framed(m) /\ Payload(m) \in Seq(Byte) /\ Payload(m) \in Seq(Int)
      /\ Len(Payload(m)) \in Nat
  BY Payloads, BytesAreInts
<1>4. Len(Transmitted(m)) = PreambleSize(m) + Len(Payload(m)) /\ PreambleSize(m) \in Nat
  BY <1>3, TransmissionFacts, PreambleFacts
<1>5. r.whole = whole
  <2>1. n \in Nat /\ PreambleSize(m) \in Nat /\ Len(Payload(m)) \in Nat
    BY <1>3, <1>4
  <2>2. \A x, y, z \in Nat : (x = y + z) <=> (x - y = z)
    OBVIOUS
  <2>3. (n = Len(Transmitted(m))) <=> whole
    BY <1>4, <2>1, <2>2
  <2> QED  BY <1>2, <2>3
<1>6. /\ raw \in Seq(Int) /\ Len(raw) = n
      /\ n < PreambleSize(m) => Parse(raw).header = None
      /\ PreambleSize(m) <= n =>
           /\ k \in 0..Len(Payload(m))
           /\ raw = Preamble(m) \o q
           /\ Parse(raw) = [header |-> <<HeaderOf(m)>>, payload |-> q,
                            advertisement |-> ParseAdvert(m.payload_type, q)]
  BY <1>3, ParseFacts
<1> HIDE DEF raw, e, q, whole
<1>7. CASE n < PreambleSize(m)
  <2>1. e.header = None
    <3> DEFINE event == Parse(raw)
    <3>1. event.header = None /\ IsEntry(e, id, at, event)
      BY <1>2, <1>6, <1>7 DEF IsEntry
    <3> QED  BY <3>1, NoEntry
  <2>2. ~ r.whole
    <3>1. \A x, y, z \in Nat : x < y => x - y # z
      OBVIOUS
    <3>2. n \in Nat
      OBVIOUS
    <3> QED  BY <1>3, <1>4, <1>5, <1>7, <3>1, <3>2 DEF whole
  <2> QED  BY <2>1, <2>2 DEF RightlyRead, e
<1>8. CASE PreambleSize(m) <= n
  <2>1. Begins(m, k, q)
    BY <1>6, <1>8 DEF Begins, q
  <2>2. q \in Seq(Int)
    BY <2>1, BeginFacts
  <2>3. e.header = <<InfoOf(m, q)>> /\ e.payload = q /\ e.header # None
    <3> DEFINE event == Parse(raw)
    <3>1. /\ IsEntry(e, id, at, event)
          /\ event = [header |-> <<HeaderOf(m)>>, payload |-> q,
                      advertisement |-> ParseAdvert(m.payload_type, q)]
      BY <1>2, <1>6, <1>8 DEF IsEntry
    <3> HIDE DEF event
    <3> QED  BY <3>1, EntryFacts
  <2>4. h = InfoOf(m, q)
    <3>1. \A y : <<y>>[1] = y
      OBVIOUS
    <3> QED  BY <2>3, <3>1
  <2>5. /\ h.dest = ExtractDestSrcHashes(m.payload_type, m.payload_version, q).dest
        /\ h.src = ExtractDestSrcHashes(m.payload_type, m.payload_version, q).src
        /\ h.channel = ExtractChannelHash(m.payload_type, m.payload_version, q)
        /\ h.sender = ExtractAnonReqSender(m.payload_type, m.payload_version, q)
        /\ h.advert = ParseAdvert(m.payload_type, q)
        /\ h.control = DecodeControlPayload(m.payload_type, m.payload_version, q)
    BY <2>4, InfoFacts
  <2>6. PublishedAsHeard(e, m, r.raw)
    <3>1. raw = Preamble(m) \o q
      BY <1>6, <1>8
    <3> QED  BY <1>2, <1>3, <2>2, <2>3, <3>1, Published
  <2>7. /\ whole \in BOOLEAN /\ understood \in BOOLEAN
        /\ (whole <=> k = Len(Payload(m)))
        /\ understood = (k = Len(Payload(m)) /\ m.payload_version = 0)
        /\ (understood <=> (k = Len(Payload(m)) /\ m.payload_version = 0))
    BY DEF whole
  <2> HIDE DEF h, k, understood, region
  <2>8. Read(h.dest, m.dest, understood) /\ Read(h.src, m.src, understood)
    BY <2>1, <2>5, <2>7, AddressesRead
  <2>9. Read(h.channel, m.channel, understood)
    BY <2>1, <2>5, <2>7, ChannelRead
  <2>10. Read(h.sender, m.sender, understood)
    BY <2>1, <2>5, <2>7, SenderRead
  <2>11. SameControl(h.control, m.control, understood)
    BY <2>1, <2>5, <2>7, ControlRead
  <2>12. SameAdvert(h.advert, m.advert, r.whole)
    BY <1>5, <2>1, <2>5, <2>7, AdvertRead
  <2>13. SameText(DecodeGroupText(e, Candidates), m, understood, Candidates)
    BY <2>1, <2>3, <2>7, TextRead
  <2>14. ASSUME r.whole, m.region # None, m.region[1] \in ToSet(Regions)
         PROVE  /\ region # None
                /\ CalcTransportCode(SHA256(region[1]), m.payload_type, Payload(m))
                     = FirstBytes(m.codes, 2)
    <3>1. q = Payload(m)
      BY <1>3, <1>5, <2>7, <2>14, WholeFacts DEF q
    <3> QED  BY <2>3, <2>14, <3>1, RegionRead DEF region
  <2>15. understood = (r.whole /\ m.payload_version = 0)
    BY <1>5 DEF understood
  <2> HIDE DEF Candidates
  <2> QED
    BY <1>2, <2>3, <2>6, <2>8, <2>9, <2>10, <2>11, <2>12, <2>13, <2>14, <2>15
    DEF RightlyRead, e, h, region
<1>9. n < PreambleSize(m) \/ PreambleSize(m) <= n
  <2>1. n \in Nat
    OBVIOUS
  <2> QED  BY <1>4, <2>1
<1> QED  BY <1>7, <1>8, <1>9

LEMMA LogStep ==
    ASSUME LogOK, [RadioNext]_radioVars
    PROVE  LogOK'
<1>1. ASSUME NEW p \in Pids, NEW m \in Messages, NEW n \in 0..Len(Transmitted(m)), NEW at \in Times,
             ReceivePacket(p, m, FirstBytes(Transmitted(m), n), n = Len(Transmitted(m)), at)
      PROVE  LogOK'
  <2> DEFINE r == Reception(m, n, Len(packets[p]) + 1, at)
  <2>1. packets' = [packets EXCEPT ![p] = <<r>> \o @]
    BY <1>1 DEF ReceivePacket, Reception
  <2>2. packets[p] \in Seq(Receptions) /\ Len(packets[p]) + 1 \in Nat
    <3>1. packets[p] \in Seq(Receptions)
      BY DEF LogOK
    <3>2. \A s \in Seq(Receptions) : Len(s) + 1 \in Nat
      OBVIOUS
    <3> QED  BY <3>1, <3>2
  <2>3. r \in Receptions
    <3> HIDE DEF Reception
    <3>1. r \in {Reception(m, i, id, t) :
            i \in 0..Len(Transmitted(m)), id \in Nat, t \in Times}
      BY <2>2
    <3> QED  BY <3>1 DEF Receptions
  <2> HIDE DEF r
  <2>4. <<r>> \o packets[p] \in Seq(Receptions)
    <3>1. <<r>> \in Seq(Receptions)
      BY <2>3
    <3> QED  BY <2>2, <3>1, ConcatProperties
  <2> QED  BY <2>1, <2>4 DEF LogOK
<1>2. ASSUME NEW p \in Pids, Receive(p) PROVE LogOK'
  <2>1. ASSUME NEW sensors, NEW bytes, NEW whole, ReceiveTelemetry(p, sensors, bytes, whole)
        PROVE  LogOK'
    BY <2>1 DEF ReceiveTelemetry, LogOK
  <2>2. ASSUME NEW rs, NEW text, NEW whole, ReceiveRegions(p, rs, text, whole)
        PROVE  LogOK'
    BY <2>2 DEF ReceiveRegions, LogOK
  <2>3. CASE \E sensors \in Telemetries :
          \E bytes \in {FlattenSeq([i \in DOMAIN sensors |-> Encoded(sensors[i])])} :
          \/ \E n \in 0..Len(bytes) : \E raw \in {FirstBytes(bytes, n)} :
                ReceiveTelemetry(p, sensors, raw, n = Len(bytes))
          \/ \E padding \in Paddings : \E raw \in {bytes \o [i \in 1..padding |-> 0]} :
                ReceiveTelemetry(p, sensors, raw, TRUE)
    BY <2>1, <2>3
  <2>4. CASE \E rs \in Hierarchies, eol \in {<<NL>>, <<CR, NL>>} :
          \E text \in {RegionText(rs, eol)} : \E n \in 0..Len(text) :
              \E cut \in {FirstBytes(text, n)} : ReceiveRegions(p, rs, cut, n = Len(text))
    BY <2>2, <2>4
  <2>5. CASE \E m \in Messages, at \in Times : \E bytes \in {Transmitted(m)} :
          \E n \in 0..Len(bytes) : \E raw \in {FirstBytes(bytes, n)} :
             ReceivePacket(p, m, raw, n = Len(bytes), at)
    BY <1>1, <2>5
  <2> QED  BY <1>2, <2>3, <2>4, <2>5 DEF Receive
<1>3. ASSUME NEW p \in Pids, Proceed(p) PROVE LogOK'
  <2>1. packets' = [packets EXCEPT ![p] = IF phase'[p] = "none" THEN <<>> ELSE @]
    BY <1>3 DEF Proceed
  <2>2. <<>> \in Seq(Receptions) /\ packets[p] \in Seq(Receptions)
    BY DEF LogOK
  <2> QED  BY <2>1, <2>2 DEF LogOK
<1>4. CASE UNCHANGED radioVars
  BY <1>4 DEF radioVars, LogOK
<1> QED  BY <1>2, <1>3, <1>4 DEF RadioNext

\* The entry of every packet heard, whole or cut short anywhere, gives back what its
\* sender meant or nothing; so does every older one in the log (build_packet_log_entry,
\* reconstruct_raw_packet_hex, packet_trafic_json, decode_group_text,
\* matching_region_name).
THEOREM PacketsReadRight == RadioSpec => []ReadsWhatWasSent
<1>1. RadioInit => LogOK
  <2>1. <<>> \in Seq(Receptions)
    OBVIOUS
  <2> QED  BY <2>1 DEF RadioInit, LogOK
<1>2. LogOK /\ [RadioNext]_radioVars => LogOK'
  BY LogStep
<1>3. LogOK => ReadsWhatWasSent
  <2> SUFFICES ASSUME LogOK, NEW p \in Running, packets[p] # <<>>
               PROVE  RightlyRead(packets[p][1])
    BY DEF ReadsWhatWasSent, RightlyRead, Candidates
  <2>1. packets[p] \in Seq(Receptions)
    BY DEF LogOK, Running
  <2>2. packets[p][1] \in Receptions
    <3>1. \A s \in Seq(Receptions) : s # <<>> => s[1] \in Receptions
      OBVIOUS
    <3> QED  BY <2>1, <3>1
  <2> QED  BY <2>2, EachReadRight
<1> QED  BY <1>1, <1>2, <1>3, PTL DEF RadioSpec
=============================================================================
