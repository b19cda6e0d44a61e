----------------------------- MODULE ManagerProofs -----------------------------
(***************************************************************************)
(* Proofs about Manager for every number of workers and every width of the *)
(* identifiers: the types, routing and uniqueness.  A number of workers    *)
(* that does not divide the number of identifiers moves the residue of a   *)
(* seed when it wraps around, so the residues are kept by the seeds that   *)
(* have not wrapped, and by all of them if it does divide.                 *)
(***************************************************************************)
EXTENDS Manager, TLAPS

\* The number of workers is one of those allowed.
StepOK == step \in Nat /\ step > 0 /\ step < IdSpace /\ IdSpace \in Nat

LEMMA StepIsOK == TypeOK => StepOK
BY ManagerAssumption DEF TypeOK, StepOK

Divides == IdSpace % step = 0

\* A number whose residue modulo the number of workers is r.
Congruent(x, r) == \E q \in Nat : x = q * step + r

\* A number congruent to the residue r has r as its remainder.
LEMMA ModOfCongruent ==
  ASSUME StepOK, NEW x \in Nat, NEW r \in 0..(step - 1), Congruent(x, r)
  PROVE  x % step = r
  BY DEF Congruent, StepOK

\* A number without remainder is a multiple.
LEMMA DivisorExists ==
  ASSUME NEW a \in Nat, NEW b \in Nat, b > 0, a % b = 0
  PROVE  \E p \in Nat : a = p * b
<1> DEFINE p == a \div b
<1>1. p \in Nat
  OBVIOUS
<1>2. a = b * p + (a % b)
  OBVIOUS
<1> HIDE DEF p
<1> QED
  BY <1>1, <1>2

\* Stepping the seed keeps its residue as long as it does not wrap around.
LEMMA StepKeepsResidue ==
  ASSUME StepOK, NEW x \in Nat, NEW k \in Nat, NEW r \in 0..(step - 1), Congruent(x, r),
         x + k * step < IdSpace
  PROVE  (x + k * step) % IdSpace \in Nat /\ Congruent((x + k * step) % IdSpace, r)
<1> DEFINE y == x + k * step
<1>1. PICK q \in Nat : x = q * step + r
  BY DEF Congruent
<1>2. y \in Nat /\ y < IdSpace /\ y = (q + k) * step + r
  BY <1>1 DEF StepOK
<1>3. y % IdSpace = y
  <2> HIDE DEF y
  <2> QED
    BY <1>2 DEF StepOK
<1> QED
  BY <1>2, <1>3 DEF Congruent

\* Stepping the 32-bit seed keeps its residue, also across a wrap-around,
\* when the step divides the number of seeds.
LEMMA WrapKeepsResidue ==
  ASSUME StepOK, Divides, NEW x \in Nat, NEW k \in Nat, NEW r \in 0..(step - 1),
         Congruent(x, r)
  PROVE  /\ (x + k * step) % IdSpace \in Nat
         /\ Congruent((x + k * step) % IdSpace, r)
<1>1. step \in Nat /\ step > 0 /\ IdSpace \in Nat /\ IdSpace > 0 /\ r \in Nat /\ r < step
  BY DEF StepOK
<1>2. PICK q \in Nat : x = q * step + r
  BY DEF Congruent
<1>3. PICK p \in Nat : IdSpace = p * step
  BY <1>1, DivisorExists DEF Divides
<1> DEFINE y == x + k * step
           d == y \div IdSpace
           w == y % IdSpace
           n == q + k - p * d
<1>4. y \in Nat
  BY <1>1
<1>5. w \in Nat /\ d \in Nat /\ y = IdSpace * d + w
  <2> HIDE DEF y
  <2> QED
    BY <1>1, <1>4
<1>6. n \in Int
  <2> HIDE DEF d
  <2> QED
    BY <1>5
<1>7. w = n * step + r
  <2>1. y = (q + k) * step + r
    BY <1>1, <1>2
  <2>2. IdSpace * d = (p * d) * step
    <3> HIDE DEF d
    <3> QED
      BY <1>1, <1>3, <1>5
  <2> HIDE DEF y, d, w
  <2>3. p * d \in Nat /\ q + k \in Nat
    BY <1>5
  <2>4. w = (q + k) * step + r - (p * d) * step
    BY <1>1, <1>5, <2>1, <2>2, <2>3
  <2> QED
    BY <1>1, <2>3, <2>4
<1>8. n >= 0
  <2> HIDE DEF w, n
  <2> QED
    BY <1>1, <1>5, <1>6, <1>7
<1> QED
  <2>1. n \in Nat
    <3> HIDE DEF n
    <3> QED
      BY <1>6, <1>8
  <2> HIDE DEF n
  <2> QED
    BY <1>5, <1>7, <2>1 DEF Congruent

--------------------------------------------------------------------------------

\* The residue a manager starts with: workers have one each, and manager 0
\* that of the first worker.
Residue(m) == IF m = 0 THEN 0 ELSE m - 1

\* Steady managers keep it.
Residues ==
  \A m \in Managers : Steady(m) =>
    /\ Congruent(seed[m], Residue(m))
    /\ \A id \in conns[m] : Congruent(id, Residue(m))

IInv == TypeOK /\ Residues

\* A manager's residue is one of the remainders.
LEMMA ResidueType ==
  ASSUME StepOK, NEW m \in Managers
  PROVE  Residue(m) \in 0..(step - 1) /\ Residue(m) \in Nat /\ FirstSeed(m) = Residue(m)
<1>1. Residue(m) \in 0..(step - 1)
  BY DEF StepOK, Managers, Residue
<1>2. Residue(m) % step = Residue(m)
  <2> HIDE DEF Residue
  <2> QED
    BY <1>1 DEF StepOK
<1> QED
  BY <1>1, <1>2 DEF Residue, FirstSeed, StepOK

\* Every value getConnectionId looks at is a 32-bit value.
LEMMA SeedInSpace ==
  ASSUME TypeOK, NEW m \in Managers, NEW k \in Nat
  PROVE  SeedAfter(m, k) \in Ids
<1>1. step \in Nat /\ IdSpace \in Nat /\ IdSpace > 0 /\ seed[m] \in Nat
  BY StepIsOK DEF StepOK, TypeOK, Ids
<1> DEFINE y == seed[m] + k * step
<1>2. y \in Nat
  BY <1>1
<1>3. y % IdSpace \in 0..(IdSpace - 1)
  <2> HIDE DEF y
  <2> QED
    BY <1>1, <1>2
<1> QED
  BY <1>3 DEF SeedAfter, Ids

\* Every manager starts with a seed below the number of workers, in its own
\* residue.
LEMMA InitIInv == Init => IInv
<1> SUFFICES ASSUME Init PROVE IInv
  OBVIOUS
<1>1. StepOK
  BY ManagerAssumption DEF Init, StepOK
<1>2. ASSUME NEW m \in Managers
      PROVE  seed[m] \in Ids /\ Congruent(seed[m], Residue(m)) /\ conns[m] = {}
  <2>1. seed[m] = Residue(m) /\ Residue(m) \in 0..(step - 1) /\ Residue(m) \in Nat
    BY <1>1, ResidueType DEF Init
  <2>2. Residue(m) = 0 * step + Residue(m)
    BY <1>1, <2>1 DEF StepOK
  <2> QED
    BY <1>1, <2>1, <2>2 DEF StepOK, Ids, Congruent, Init
<1>3. TypeOK
  BY <1>2 DEF Init, TypeOK
<1> QED
  BY <1>2, <1>3 DEF IInv, Residues

\* A new identifier is a 32-bit value other than 0; if the manager is still
\* steady afterwards, it has the residue of the manager.
LEMMA Draws ==
  ASSUME TypeOK, NEW m \in Managers, NEW k \in 1..IdSpace, Draw(m, k)
  PROVE  /\ SeedAfter(m, k) \in Ids \ {0}
         /\ seed' = [seed EXCEPT ![m] = SeedAfter(m, k)] /\ step' = step
         /\ wrapped \subseteq wrapped' /\ wrapped' \subseteq wrapped \cup {m}
         /\ Residues /\ Steady(m)' => Congruent(SeedAfter(m, k), Residue(m))
<1>1. StepOK /\ k \in Nat /\ seed[m] \in Nat
  BY StepIsOK DEF StepOK, TypeOK, Ids
<1>2. SeedAfter(m, k) \in Ids \ {0}
  BY <1>1, SeedInSpace DEF Draw, StopsAt, Skipped
<1>3. /\ seed' = [seed EXCEPT ![m] = SeedAfter(m, k)] /\ step' = step
      /\ wrapped' = IF seed[m] + k * step < IdSpace THEN wrapped ELSE wrapped \cup {m}
  BY DEF Draw
<1>4. ASSUME Residues, Steady(m)' PROVE Congruent(SeedAfter(m, k), Residue(m))
  <2>1. Steady(m) /\ (seed[m] + k * step < IdSpace \/ Divides)
    BY <1>3, <1>4 DEF Steady, Divides
  <2>2. Congruent(seed[m], Residue(m)) /\ Residue(m) \in 0..(step - 1)
    BY <1>1, <1>4, <2>1, ResidueType DEF Residues
  <2> QED
    BY <1>1, <2>1, <2>2, StepKeepsResidue, WrapKeepsResidue DEF SeedAfter
<1> QED
  BY <1>2, <1>3, <1>4

\* Creating and closing connections keeps the types, and every seed and
\* identifier of a steady manager in its residue.
LEMMA NextIInv == IInv /\ [Next]_vars => IInv'
<1> SUFFICES ASSUME IInv, [Next]_vars PROVE IInv'
  OBVIOUS
<1>0. TypeOK /\ Residues
  BY DEF IInv
<1>1. ASSUME NEW m \in Managers, NEW k \in 1..IdSpace, Draw(m, k),
             NEW more \in SUBSET {SeedAfter(m, k)},
             conns' = [conns EXCEPT ![m] = conns[m] \cup more]
      PROVE  IInv'
  <2> DEFINE new == SeedAfter(m, k)
  <2>1. /\ new \in Ids \ {0} /\ seed' = [seed EXCEPT ![m] = new] /\ step' = step
        /\ wrapped \subseteq wrapped' /\ wrapped' \subseteq wrapped \cup {m}
        /\ Steady(m)' => Congruent(new, Residue(m))
    BY <1>0, <1>1, Draws
  <2>2. Managers' = Managers /\ \A x, r : Congruent(x, r)' <=> Congruent(x, r)
    BY <2>1 DEF Managers, Congruent
  <2>3. \A n \in Managers : Steady(n)' => Steady(n)
    BY <2>1 DEF Steady
  <2> HIDE DEF new
  <2>4. more \subseteq {new}
    BY DEF new
  <2>5. TypeOK'
    BY <1>0, <1>1, <2>1, <2>2, <2>4 DEF TypeOK
  <2>6. ASSUME NEW n \in Managers, Steady(n)'
        PROVE  /\ Congruent(seed'[n], Residue(n))
               /\ \A id \in conns'[n] : Congruent(id, Residue(n))
    <3>1. /\ Congruent(seed[n], Residue(n))
          /\ \A id \in conns[n] : Congruent(id, Residue(n))
      BY <1>0, <2>3, <2>6 DEF Residues
    <3>2. /\ seed'[n] = IF n = m THEN new ELSE seed[n]
          /\ conns'[n] = IF n = m THEN conns[n] \cup more ELSE conns[n]
      BY <1>0, <1>1, <2>1 DEF TypeOK
    <3> QED
      BY <2>1, <2>4, <2>6, <3>1, <3>2
  <2>7. Residues'
    BY <2>1, <2>2, <2>6 DEF Residues, Residue, Congruent
  <2> QED
    BY <2>5, <2>7 DEF IInv
<1>2. ASSUME NEW m \in Managers, NEW k \in 1..IdSpace, CreateConnection(m, k)
      PROVE  IInv'
  BY <1>1, <1>2 DEF CreateConnection
<1>3. ASSUME NEW m \in Managers, NEW k \in 1..IdSpace, CreateFails(m, k)
      PROVE  IInv'
  <2>1. conns' = [conns EXCEPT ![m] = conns[m] \cup {}]
    BY <1>0, <1>3 DEF CreateFails, TypeOK
  <2>2. {} \in SUBSET {SeedAfter(m, k)} /\ Draw(m, k)
    BY <1>3 DEF CreateFails
  <2> QED
    BY <1>1, <2>1, <2>2
<1>4. ASSUME NEW m \in Managers, NEW id, UNCHANGED <<step, seed, wrapped>>,
             conns' = [conns EXCEPT ![m] = conns[m] \ {id}]
      PROVE  IInv'
  BY <1>0, <1>4 DEF IInv, TypeOK, Residues, Residue, Congruent, Steady, Managers
<1>5. ASSUME NEW m \in Managers, NEW id \in Ids, RemoveConnection(m, id) PROVE IInv'
  BY <1>4, <1>5 DEF RemoveConnection
<1>6. ASSUME NEW id \in UNION {conns[m] : m \in Managers}, AsyncClose(id) PROVE IInv'
  <2>1. id \in Nat /\ StepOK
    BY <1>0, StepIsOK DEF TypeOK, Ids
  <2>2. Index(id) \in Managers
    <3>1. id % step \in 0..(step - 1)
      BY <2>1 DEF StepOK
    <3> QED
      BY <2>1, <3>1 DEF Index, Managers, StepOK
  <2> QED
    BY <1>4, <1>6, <2>2 DEF AsyncClose
<1>7. CASE UNCHANGED vars
  BY <1>0, <1>7 DEF vars, IInv, TypeOK, Residues, Residue, Congruent, Steady, Managers
<1> QED
  BY <1>2, <1>3, <1>5, <1>6, <1>7 DEF Next

\* The invariant holds in every reachable state.
LEMMA InductiveIInv == Spec => []IInv
<1>1. Init => IInv
  BY InitIInv
<1>2. IInv /\ [Next]_vars => IInv'
  BY NextIInv
<1> QED
  BY <1>1, <1>2, PTL DEF Spec

\* Seeds stay in the 32-bit space and 0 is never the identifier of a
\* connection (Manager::getConnectionId), for any number of workers, in the
\* managers of the workers and of the listener's thread.
THEOREM TypeCorrect == Spec => []TypeOK
<1>1. IInv => TypeOK
  BY DEF IInv
<1> QED
  BY <1>1, InductiveIInv, PTL

\* The identifier of an open connection has the remainder of its manager.
LEMMA ResidueOfId ==
  ASSUME IInv, NEW m \in Managers, Steady(m), NEW id \in conns[m]
  PROVE  id \in Nat /\ id % step = Residue(m)
<1>1. StepOK /\ id \in Nat
  BY StepIsOK DEF IInv, TypeOK, Ids
<1>2. Residue(m) \in 0..(step - 1) /\ Congruent(id, Residue(m))
  BY <1>1, ResidueType DEF IInv, Residues
<1> QED
  BY <1>1, <1>2, ModOfCongruent

\* A task finds the worker that owns its connection, for any number of
\* workers: until the seed of that worker wraps around (2^32 / step
\* connections later), and for ever if the number of workers divides the
\* number of identifiers.  Tasks for a connection outside the workers go to
\* the first worker, always (getConnectionId, Scheduler::schedule).
THEOREM TasksRouteHome == Spec => []RoutesHome
<1>1. IInv => RoutesHome
  <2> SUFFICES ASSUME IInv, NEW m \in Managers, Steady(m), NEW id \in conns[m]
               PROVE  Index(id) = IF m = 0 THEN 1 ELSE m
    BY DEF RoutesHome
  <2>1. Index(id) = Residue(m) + 1 /\ StepOK
    BY ResidueOfId, StepIsOK DEF Index, IInv
  <2> QED
    BY <2>1 DEF Residue, Managers, StepOK
<1> QED
  BY <1>1, InductiveIInv, PTL

\* For as long, no two workers use the same identifier, and neither do manager
\* 0 and a worker other than the first.
THEOREM IdsStayUnique == Spec => []IdsUnique
<1>1. IInv => IdsUnique
  <2> SUFFICES ASSUME IInv, NEW m \in Managers, NEW n \in Managers, m < n,
                      Steady(m), Steady(n), NEW id \in conns[m], id \in conns[n]
               PROVE  m = 0 /\ n = 1
    BY DEF IdsUnique
  <2>1. Residue(m) = Residue(n) /\ StepOK
    BY ResidueOfId, StepIsOK DEF IInv
  <2> QED
    BY <2>1 DEF Residue, Managers, StepOK
<1> QED
  BY <1>1, InductiveIInv, PTL
================================================================================
