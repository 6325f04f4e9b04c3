-------------------------- MODULE SchedulerProofs --------------------------
(***************************************************************************)
(* Proofs about Scheduler, for any number of nodes, reports, models and    *)
(* replicas.  A decision, until the next step, has the shape that PlaceN   *)
(* gives it: round after round over the candidates in some sorted order    *)
(* (Decided).  That its stages are apart and its replicas spread is        *)
(* arithmetic of the remainder by the number of candidates.                *)
(***************************************************************************)
EXTENDS Scheduler, FunctionTheorems, FiniteSetTheorems, TLAPS

Candidates(m) == {n \in Nodes : Fits(n, m)}
Rounds(o, L, n) == [i \in 1..n |-> o[((i - 1) % L) + 1]]

Accepted(m, n, nodes) ==
  /\ Candidates(m) # {}
  /\ n = 1 \/ Wants[m].pp <= 1 \/ Wants[m].pp <= Cardinality(Candidates(m))
  /\ \E o \in Sorted(Candidates(m)) : nodes = Rounds(o, Cardinality(Candidates(m)), n)
Refused(m, nodes) ==
  /\ nodes = <<>>
  /\ Candidates(m) = {} \/ Cardinality(Candidates(m)) < Wants[m].pp
Decided ==
  answer # NoAnswer =>
    \E m \in Models, n \in Nat \ {0}, nodes \in {answer.nodes} :
      /\ answer = [model |-> m, asked |-> n, nodes |-> nodes]
      /\ Accepted(m, n, nodes) \/ Refused(m, nodes)

(* What is due is begun, or is still to be looked at.                      *)
Remembered ==
  /\ due \subseteq stored
  /\ at = "idle" => due \subseteq begun
  /\ at = "list" => due = {}
  /\ at = "get" => due \subseteq begun \cup todo

SInv == STypeOK /\ Decided /\ Remembered
-----------------------------------------------------------------------------
(* The remainder. *)

LEMMA DivMod ==
  ASSUME NEW a \in Nat, NEW L \in Nat \ {0}
  PROVE  \E q \in Nat, r \in 0..(L - 1) : q = a \div L /\ r = a % L /\ a = L * q + r
PROOF
  <1> DEFINE q == a \div L
             r == a % L
  <1>1. r \in 0..(L - 1) /\ q \in Nat
    <2>1. a % L \in 0..(L - 1)
      OBVIOUS
    <2>2. a \div L \in Nat
      OBVIOUS
    <2>. QED
      BY <2>1, <2>2
  <1>2. r = a - L * q
    OBVIOUS
  <1>3. q = a \div L /\ r = a % L
    OBVIOUS
  <1> HIDE DEF q, r
  <1>4. a = L * q + r
    BY <1>1, <1>2
  <1>. QED
    BY <1>1, <1>3, <1>4

LEMMA Multiple ==
  ASSUME NEW L \in Nat \ {0}, NEW d \in Nat \ {0}
  PROVE  L * d >= L
PROOF
  OBVIOUS

(* Of two multiples of L that are less than L apart neither is greater.    *)
LEMMA SameMultiple ==
  ASSUME NEW L \in Nat \ {0}, NEW q \in Nat, NEW p \in Nat, L * q - L * p < L
  PROVE  q <= p
PROOF
  <1>1. ASSUME q > p
        PROVE  FALSE
    <2>1. L * (q - p) >= L
      BY <1>1, Multiple
    <2>2. L * (q - p) = L * q - L * p
      OBVIOUS
    <2>. QED
      BY <2>1, <2>2
  <1>. QED
    BY <1>1

(* Of two numbers with the same remainder neither is above the other by    *)
(* less than L.                                                            *)
LEMMA ModApart ==
  ASSUME NEW a \in Nat, NEW b \in Nat, NEW L \in Nat \ {0}, a % L = b % L, b - a < L
  PROVE  b <= a
PROOF
  <1>1. PICK p \in Nat, r \in 0..(L - 1) : r = a % L /\ a = L * p + r
    BY DivMod
  <1>2. PICK q \in Nat, t \in 0..(L - 1) : t = b % L /\ b = L * q + t
    BY DivMod
  <1>3. r = t /\ L * q - L * p < L
    BY <1>1, <1>2
  <1>4. q <= p
    BY <1>3, SameMultiple
  <1>5. L * q <= L * p
    BY <1>4
  <1>. QED
    BY <1>1, <1>2, <1>3, <1>5

(* Numbers with the same quotient are less than L apart.                   *)
LEMMA DivNear ==
  ASSUME NEW a \in Nat, NEW b \in Nat, NEW L \in Nat \ {0}, a \div L = b \div L
  PROVE  b - a < L
PROOF
  <1>1. PICK p \in Nat, r \in 0..(L - 1) : p = a \div L /\ a = L * p + r
    BY DivMod
  <1>2. PICK q \in Nat, t \in 0..(L - 1) : q = b \div L /\ b = L * q + t
    BY DivMod
  <1>3. p = q
    BY <1>1, <1>2
  <1>. QED
    BY <1>1, <1>2, <1>3

(* The remainder is the only number below L that is a multiple of L away.  *)
LEMMA ModUnique ==
  ASSUME NEW L \in Nat \ {0}, NEW q \in Nat, NEW r \in 0..(L - 1)
  PROVE  (L * q + r) % L = r
PROOF
  <1>1. L * q + r \in Nat
    OBVIOUS
  <1>2. PICK p \in Nat, t \in 0..(L - 1) : t = (L * q + r) % L /\ L * q + r = L * p + t
    BY <1>1, DivMod
  <1>3. L * q - L * p < L /\ L * p - L * q < L
    BY <1>2
  <1>4. q = p
    BY <1>3, SameMultiple
  <1>. QED
    BY <1>2, <1>4

-----------------------------------------------------------------------------
(* An order of the candidates names each of them once.                     *)
LEMMA CandidatesFinite ==
  ASSUME NEW m
  PROVE  /\ IsFiniteSet(Candidates(m))
         /\ Cardinality(Candidates(m)) \in Nat
         /\ Candidates(m) # {} => Cardinality(Candidates(m)) \in Nat \ {0}
PROOF
  <1>1. IsFiniteSet(Candidates(m))
    BY SchedAssumption, FS_Subset DEF Candidates
  <1>. QED
    BY <1>1, FS_CardinalityType, FS_EmptySet

LEMMA OrderOnce ==
  ASSUME NEW C, IsFiniteSet(C), NEW o \in Orders(C)
  PROVE  /\ o \in [1..Cardinality(C) -> C]
         /\ \A i, j \in 1..Cardinality(C) : o[i] = o[j] => i = j
         /\ \A c \in C : \E i \in 1..Cardinality(C) : o[i] = c
PROOF
  <1>1. /\ o \in [1..Cardinality(C) -> C]
        /\ \A c \in C : \E i \in 1..Cardinality(C) : o[i] = c
    BY DEF Orders
  <1>2. o \in Surjection(1..Cardinality(C), C)
    BY <1>1 DEF Surjection
  <1>3. Cardinality(C) \in Nat
    BY FS_CardinalityType
  <1>4. IsFiniteSet(1..Cardinality(C)) /\ Cardinality(1..Cardinality(C)) = Cardinality(C)
    BY <1>3, FS_Interval
  <1>5. o \in Injection(1..Cardinality(C), C)
    BY <1>2, <1>4, FS_Surjection
  <1>. QED
    BY <1>1, <1>5 DEF Injection, IsInjective

(* The node of a replica is the candidate whose turn it is.                *)
LEMMA TurnOf ==
  ASSUME NEW m, Candidates(m) # {}, NEW o \in Sorted(Candidates(m)), NEW n \in Nat,
         NEW i \in 1..n
  PROVE  LET L == Cardinality(Candidates(m)) IN
         /\ L \in Nat \ {0} /\ i - 1 \in Nat
         /\ ((i - 1) % L) + 1 \in 1..L
         /\ Rounds(o, L, n)[i] = o[((i - 1) % L) + 1]
         /\ Rounds(o, L, n)[i] \in Candidates(m)
PROOF
  <1> DEFINE L == Cardinality(Candidates(m))
  <1>1. L \in Nat \ {0} /\ i - 1 \in Nat
    BY CandidatesFinite
  <1>2. ((i - 1) % L) + 1 \in 1..L
    <2>1. PICK q \in Nat, r \in 0..(L - 1) : r = (i - 1) % L
      BY <1>1, DivMod
    <2>. QED
      BY <1>1, <2>1
  <1>3. o \in [1..L -> Candidates(m)]
    BY DEF Sorted, Orders
  <1>. QED
    BY <1>1, <1>2, <1>3 DEF Rounds

(* Who can take a model is a candidate for it.                             *)
LEMMA CandidatesCanTake ==
  ASSUME STypeOK, answer.model \in Models, NEW n \in Nodes
  PROVE  CanTake(n) <=> n \in Candidates(answer.model)
PROOF
  <1>1. resources[n] # None => resources[n] \in [gpus : Nat, total : Nat, free : Nat]
    BY SchedAssumption DEF STypeOK
  <1>2. Wants[answer.model] \in [need : Nat, tp : Nat, pp : Nat]
    BY SchedAssumption
  <1>. QED
    BY <1>1, <1>2 DEF CanTake, Want, Candidates, Fits, FitsMemory

-----------------------------------------------------------------------------
(* What follows from the shape of a decision.                              *)

LEMMA FitsStep == STypeOK /\ Decided => DecisionFits
PROOF
  <1> SUFFICES ASSUME STypeOK, Decided, answer # NoAnswer
               PROVE  /\ \A i \in Indices : CanTake(Chosen[i])
                      /\ Indices # {} =>
                           \A n \in Nodes : CanTake(n) => Score(Chosen[1]) >= Score(n)
                      /\ Indices = {} => \/ {n \in Nodes : CanTake(n)} = {}
                                         \/ Cardinality({n \in Nodes : CanTake(n)}) < Want.pp
    BY DEF DecisionFits
  <1>1. PICK m \in Models, n \in Nat \ {0}, nodes \in {answer.nodes} :
          /\ answer = [model |-> m, asked |-> n, nodes |-> nodes]
          /\ Accepted(m, n, nodes) \/ Refused(m, nodes)
    BY DEF Decided
  <1> DEFINE C == Candidates(m)
             L == Cardinality(C)
  <1>2. answer.model = m /\ Chosen = nodes /\ Indices = DOMAIN nodes /\ Want = Wants[m]
    BY <1>1 DEF Chosen, Indices, Want
  <1>3. {k \in Nodes : CanTake(k)} = C
    BY <1>2, CandidatesCanTake DEF Candidates
  <1>4. CASE Refused(m, nodes)
    <2>1. Indices = {}
      BY <1>2, <1>4 DEF Refused
    <2>. QED
      BY <1>2, <1>3, <1>4, <2>1 DEF Refused
  <1>5. CASE Accepted(m, n, nodes)
    <2>1. PICK o \in Sorted(C) : nodes = Rounds(o, L, n)
      BY <1>5 DEF Accepted
    <2>2. C # {} /\ L \in Nat \ {0} /\ IsFiniteSet(C)
      BY <1>5, CandidatesFinite DEF Accepted
    <2>3. Indices = 1..n /\ 1 \in Indices
      BY <1>2, <2>1 DEF Rounds
    <2>4. \A i \in Indices : Chosen[i] \in C
      BY <1>2, <2>1, <2>2, <2>3, TurnOf
    <2>5. Chosen[1] = o[1]
      <3>1. ((1 - 1) % L) + 1 = 1 /\ 1 \in 1..n
        BY <2>2
      <3>2. Rounds(o, L, n)[1] = o[((1 - 1) % L) + 1]
        BY <2>2, <3>1, TurnOf
      <3>. QED
        BY <1>2, <2>1, <3>1, <3>2
    <2>6. ASSUME NEW k \in C
          PROVE  Score(Chosen[1]) >= Score(k)
      <3>1. o \in Orders(C) /\ \A i, j \in DOMAIN o : i < j => Score(o[i]) >= Score(o[j])
        BY DEF Sorted
      <3>2. PICK j \in 1..L : o[j] = k
        BY <2>2, <3>1, OrderOnce
      <3>3. DOMAIN o = 1..L
        BY <2>2, <3>1, OrderOnce
      <3>4. CASE j = 1
        <4>1. resources[k] \in [gpus : Nat, total : Nat, free : Nat]
          BY SchedAssumption DEF STypeOK, Candidates, Fits, FitsMemory
        <4>2. Score(k) \in Int
          BY <4>1 DEF Score
        <4>. QED
          BY <2>5, <3>2, <3>4, <4>2
      <3>5. CASE j # 1
        BY <2>2, <2>5, <3>1, <3>2, <3>3, <3>5
      <3>. QED
        BY <3>4, <3>5
    <2>. QED
      BY <1>3, <2>3, <2>4, <2>6
  <1>. QED
    BY <1>1, <1>4, <1>5

LEMMA StagesStep == STypeOK /\ Decided => StagesApart
PROOF
  <1> SUFFICES ASSUME STypeOK, Decided, answer # NoAnswer, Want.pp > 1,
                      NEW i \in Indices, NEW j \in Indices,
                      i # j, Pipeline(i) = Pipeline(j)
               PROVE  Chosen[i] # Chosen[j]
    BY DEF StagesApart
  <1>1. PICK m \in Models, n \in Nat \ {0}, nodes \in {answer.nodes} :
          /\ answer = [model |-> m, asked |-> n, nodes |-> nodes]
          /\ Accepted(m, n, nodes) \/ Refused(m, nodes)
    BY DEF Decided
  <1> DEFINE C == Candidates(m)
             L == Cardinality(C)
  <1>2. Chosen = nodes /\ Indices = DOMAIN nodes /\ Want = Wants[m]
    BY <1>1 DEF Chosen, Indices, Want
  <1>3. Accepted(m, n, nodes)
    BY <1>1, <1>2 DEF Refused
  <1>4. PICK o \in Sorted(C) : nodes = Rounds(o, L, n)
    BY <1>3 DEF Accepted
  <1>5. i \in 1..n /\ j \in 1..n
    BY <1>2, <1>4 DEF Rounds
  <1>6. /\ C # {} /\ IsFiniteSet(C) /\ L \in Nat \ {0}
        /\ Want.pp \in Nat \ {0} /\ Want.pp <= L
    <2>1. Want.pp \in Nat \ {0}
      BY <1>2, SchedAssumption
    <2>. QED
      BY <1>2, <1>3, <1>5, <2>1, CandidatesFinite DEF Accepted
  <1>7. i - j < Want.pp /\ j - i < Want.pp
    BY <1>5, <1>6, DivNear DEF Pipeline
  <1>8. (i - 1) % L # (j - 1) % L
    <2>1. i - 1 \in Nat /\ j - 1 \in Nat
      BY <1>5
    <2>2. CASE i < j
      <3>1. (j - 1) - (i - 1) < L /\ ~(j - 1 <= i - 1)
        BY <1>5, <1>6, <1>7, <2>2
      <3>. QED
        BY <1>6, <2>1, <3>1, ModApart
    <2>3. CASE j < i
      <3>1. (i - 1) - (j - 1) < L /\ ~(i - 1 <= j - 1)
        BY <1>5, <1>6, <1>7, <2>3
      <3>. QED
        BY <1>6, <2>1, <3>1, ModApart
    <2>. QED
      BY <1>5, <2>2, <2>3
  <1>9. /\ nodes[i] = o[((i - 1) % L) + 1] /\ ((i - 1) % L) + 1 \in 1..L
        /\ nodes[j] = o[((j - 1) % L) + 1] /\ ((j - 1) % L) + 1 \in 1..L
    BY <1>4, <1>5, <1>6, TurnOf
  <1>10. \A a, b \in 1..L : o[a] = o[b] => a = b
    BY <1>6, OrderOnce DEF Sorted
  <1>11. PICK r \in 0..(L - 1), t \in 0..(L - 1) : r = (i - 1) % L /\ t = (j - 1) % L
    <2>1. i - 1 \in Nat /\ j - 1 \in Nat
      BY <1>5
    <2>. QED
      BY <1>6, <2>1, DivMod
  <1>12. r + 1 # t + 1
    BY <1>8, <1>11
  <1>. QED
    BY <1>2, <1>9, <1>10, <1>11, <1>12

(* The numbers up to n with one remainder are at most one more than those  *)
(* with another: all but the first, moved down, are among the others.      *)
Turns(n, L, s) == {i \in 1..n : ((i - 1) % L) + 1 = s}

LEMMA TurnsEven ==
  ASSUME NEW n \in Nat, NEW L \in Nat \ {0}, NEW s \in 1..L, NEW t \in 1..L
  PROVE  /\ IsFiniteSet(Turns(n, L, s)) /\ IsFiniteSet(Turns(n, L, t))
         /\ Cardinality(Turns(n, L, s)) <= Cardinality(Turns(n, L, t)) + 1
PROOF
  <1>1. IsFiniteSet(Turns(n, L, s)) /\ IsFiniteSet(Turns(n, L, t))
    <2>1. IsFiniteSet(1..n)
      BY FS_Interval
    <2>. QED
      BY <2>1, FS_Subset DEF Turns
  <1>2. ASSUME NEW i \in Turns(n, L, s)
        PROVE  /\ i \in 1..n /\ i - 1 = L * ((i - 1) \div L) + (s - 1)
               /\ (i - 1) \div L \in Nat
    <2>1. i \in 1..n /\ i - 1 \in Nat /\ ((i - 1) % L) + 1 = s
      BY <1>2 DEF Turns
    <2>2. PICK q \in Nat, r \in 0..(L - 1) :
            q = (i - 1) \div L /\ r = (i - 1) % L /\ i - 1 = L * q + r
      BY <2>1, DivMod
    <2>3. r = s - 1
      BY <2>1, <2>2
    <2>. QED
      BY <2>1, <2>2, <2>3
  <1>3. ASSUME NEW i \in Turns(n, L, s), i # s
        PROVE  (i - 1) \div L >= 1
    <2> DEFINE q == (i - 1) \div L
    <2>1. q \in Nat /\ i \in 1..n /\ i - 1 = L * q + (s - 1)
      BY <1>2, <1>3
    <2> HIDE DEF q
    <2>2. q # 0
      <3>1. q = 0 => L * q = 0
        OBVIOUS
      <3>. QED
        BY <1>3, <2>1, <3>1
    <2>. QED
      BY <2>1, <2>2 DEF q
  <1> DEFINE S == Turns(n, L, s) \ {s}
             k == L + s - t
             f == [i \in S |-> i - k]
  <1>4. ASSUME NEW i \in S
        PROVE  i - k \in Turns(n, L, t)
    <2> DEFINE q == (i - 1) \div L
    <2>1. i \in 1..n /\ q - 1 \in Nat /\ q \in Nat /\ i - 1 = L * q + (s - 1)
      BY <1>2, <1>3
    <2> HIDE DEF q
    <2>2. L * (q - 1) = L * q - L /\ L * (q - 1) >= 0
      BY <2>1
    <2>3. i - k - 1 = L * (q - 1) + (t - 1)
      BY <2>1, <2>2
    <2>4. (i - k - 1) % L = t - 1
      BY <2>1, <2>3, ModUnique
    <2>5. i - k \in 1..n
      BY <2>1, <2>2, <2>3
    <2>. QED
      BY <2>4, <2>5 DEF Turns
  <1>5. f \in Injection(S, Turns(n, L, t))
    <2>1. f \in [S -> Turns(n, L, t)]
      BY <1>4
    <2>2. \A a, b \in S : f[a] = f[b] => a = b
      BY DEF Turns
    <2>. QED
      BY <2>1, <2>2 DEF Injection, IsInjective
  <1>6. Cardinality(S) <= Cardinality(Turns(n, L, t))
    BY <1>1, <1>5, FS_Injection
  <1>7. Cardinality(Turns(n, L, s)) <= Cardinality(S) + 1
    <2>1. Cardinality(Turns(n, L, s)) \in Nat /\ Cardinality(S) \in Nat
      BY <1>1, FS_CardinalityType, FS_RemoveElement
    <2>2. Cardinality(S) = IF s \in Turns(n, L, s) THEN Cardinality(Turns(n, L, s)) - 1
                           ELSE Cardinality(Turns(n, L, s))
      BY <1>1, FS_RemoveElement
    <2>. QED
      BY <2>1, <2>2
  <1>8. Cardinality(Turns(n, L, s)) \in Nat /\ Cardinality(S) \in Nat
        /\ Cardinality(Turns(n, L, t)) \in Nat
    BY <1>1, FS_CardinalityType, FS_RemoveElement
  <1>. QED
    BY <1>1, <1>6, <1>7, <1>8

LEMMA SpreadStep == STypeOK /\ Decided => SpreadEvenly
PROOF
  <1> SUFFICES ASSUME STypeOK, Decided, answer # NoAnswer,
                      NEW a \in Nodes, NEW b \in Nodes, CanTake(a), CanTake(b)
               PROVE  On(a) <= On(b) + 1
    BY DEF SpreadEvenly
  <1>1. PICK m \in Models, n \in Nat \ {0}, nodes \in {answer.nodes} :
          /\ answer = [model |-> m, asked |-> n, nodes |-> nodes]
          /\ Accepted(m, n, nodes) \/ Refused(m, nodes)
    BY DEF Decided
  <1> DEFINE C == Candidates(m)
             L == Cardinality(C)
  <1>2. answer.model = m /\ Chosen = nodes /\ Indices = DOMAIN nodes
    BY <1>1 DEF Chosen, Indices
  <1>3. a \in C /\ b \in C
    BY <1>2, CandidatesCanTake
  <1>4. CASE Refused(m, nodes)
    <2>1. On(a) = 0 /\ On(b) = 0
      <3>1. \A c : {i \in Indices : Chosen[i] = c} = {}
        BY <1>2, <1>4 DEF Refused
      <3>. QED
        BY <3>1, FS_EmptySet DEF On
    <2>. QED
      BY <2>1
  <1>5. CASE Accepted(m, n, nodes)
    <2>1. PICK o \in Sorted(C) : nodes = Rounds(o, L, n)
      BY <1>5 DEF Accepted
    <2>2. L \in Nat \ {0} /\ IsFiniteSet(C)
      BY <1>3, CandidatesFinite
    <2>3. /\ \A i, j \in 1..L : o[i] = o[j] => i = j
          /\ \A c \in C : \E i \in 1..L : o[i] = c
      BY <2>2, OrderOnce DEF Sorted
    <2>4. ASSUME NEW s \in 1..L
          PROVE  On(o[s]) = Cardinality(Turns(n, L, s))
      <3>1. {i \in Indices : Chosen[i] = o[s]} = Turns(n, L, s)
        <4>1. Indices = 1..n
          BY <1>2, <2>1 DEF Rounds
        <4>2. \A i \in 1..n : /\ ((i - 1) % L) + 1 \in 1..L
                              /\ Chosen[i] = o[((i - 1) % L) + 1]
          BY <1>2, <1>3, <2>1, TurnOf
        <4>. QED
          BY <2>3, <4>1, <4>2 DEF Turns
      <3>. QED
        BY <3>1 DEF On
    <2>5. PICK s \in 1..L : o[s] = a
      BY <1>3, <2>3
    <2>6. PICK t \in 1..L : o[t] = b
      BY <1>3, <2>3
    <2>. QED
      BY <2>2, <2>4, <2>5, <2>6, TurnsEven
  <1>. QED
    BY <1>1, <1>4, <1>5

-----------------------------------------------------------------------------
(* Every step keeps the invariant. *)

LEMMA SameTable ==
  ASSUME NEW m, NEW n, NEW nodes, UNCHANGED resources,
         Accepted(m, n, nodes) \/ Refused(m, nodes)
  PROVE  (Accepted(m, n, nodes) \/ Refused(m, nodes))'
PROOF
  BY DEF Accepted, Refused, Candidates, Fits, FitsMemory, Sorted, Orders, Score

LEMMA DecideStep ==
  ASSUME NEW m \in Models, NEW n \in Nat \ {0}, NEW nodes, Decide(m, n, nodes),
         Accepted(m, n, nodes) \/ Refused(m, nodes)
  PROVE  Decided'
PROOF
  <1>1. (Accepted(m, n, nodes) \/ Refused(m, nodes))'
    BY SameTable DEF Decide
  <1>2. answer' = [model |-> m, asked |-> n, nodes |-> nodes]
    BY DEF Decide
  <1>. QED
    BY <1>1, <1>2 DEF Decided

LEMMA PlaceStep ==
  ASSUME NEW m \in Models, Place(m)
  PROVE  Decided'
PROOF
  <1> DEFINE C == Candidates(m)
  <1>0. C = {n \in Nodes : Fits(n, m)}
    BY DEF Candidates
  <1>1. CASE C = {}
    <2>1. Decide(m, 1, <<>>)
      BY <1>0, <1>1 DEF Place
    <2>2. Refused(m, <<>>)
      BY <1>1 DEF Refused
    <2>. QED
      BY <2>1, <2>2, DecideStep
  <1>2. CASE C # {}
    <2>1. PICK o \in Sorted(C) : Decide(m, 1, <<o[1]>>)
      BY <1>0, <1>2 DEF Place
    <2>2. <<o[1]>> = Rounds(o, Cardinality(C), 1)
      <3>1. Cardinality(C) \in Nat \ {0}
        BY <1>2, CandidatesFinite
      <3>2. ((1 - 1) % Cardinality(C)) + 1 = 1
        BY <3>1
      <3>. QED
        BY <3>2 DEF Rounds
    <2>3. Accepted(m, 1, <<o[1]>>)
      BY <1>2, <2>2 DEF Accepted
    <2>. QED
      BY <2>1, <2>3, DecideStep
  <1>. QED
    BY <1>1, <1>2

LEMMA PlaceNStep ==
  ASSUME NEW m \in Models, NEW asked \in Nat, PlaceN(m, asked)
  PROVE  Decided'
PROOF
  <1> DEFINE C == Candidates(m)
             n == IF asked <= 0 THEN 1 ELSE asked
  <1>0. C = {k \in Nodes : Fits(k, m)}
    BY DEF Candidates
  <1>1. n \in Nat \ {0}
    OBVIOUS
  <1>2. Wants[m].pp \in Nat /\ Cardinality(C) \in Nat
    BY SchedAssumption, CandidatesFinite
  <1> HIDE DEF n
  <1>3. CASE ~Enough(C, m)
    <2>1. Decide(m, n, <<>>)
      BY <1>0, <1>3 DEF PlaceN, n
    <2>2. Refused(m, <<>>)
      BY <1>2, <1>3 DEF Refused, Enough
    <2>. QED
      BY <1>1, <2>1, <2>2, DecideStep
  <1>4. CASE Enough(C, m)
    <2>1. PICK o \in Sorted(C) :
            Decide(m, n, [i \in 1..n |-> o[Turn(i - 1, Cardinality(C), m) + 1]])
      BY <1>0, <1>4 DEF PlaceN, n
    <2>2. Decide(m, n, Rounds(o, Cardinality(C), n))
      BY <2>1 DEF Rounds, Turn
    <2>3. Accepted(m, n, Rounds(o, Cardinality(C), n))
      BY <1>2, <1>4 DEF Accepted, Enough
    <2>. QED
      BY <1>1, <2>2, <2>3, DecideStep
  <1>. QED
    BY <1>3, <1>4

LEMMA TypeStep == STypeOK /\ [SNext]_svars => STypeOK'
PROOF
  <1> SUFFICES ASSUME STypeOK, [SNext]_svars
               PROVE  STypeOK'
    OBVIOUS
  <1> USE DEF STypeOK, failure
  <1>0. ASSUME answer' = NoAnswer
        PROVE  DOMAIN answer' = {"model", "asked", "nodes"}
    BY <1>0 DEF NoAnswer
  <1>1. ASSUME NEW n \in Nodes \cup {None}, NEW r \in Reports, UpdateResources(n, r)
        PROVE  STypeOK'
    BY <1>0, <1>1 DEF UpdateResources, Reported
  <1>2. ASSUME NEW n \in Nodes, RemoveNode(n) \/ HandleNodeFailed(n)
        PROVE  STypeOK'
    BY <1>0, <1>2 DEF RemoveNode, HandleNodeFailed
  <1>3. ASSUME NEW s \in SUBSET Models, Store(s)
        PROVE  STypeOK'
    BY <1>0, <1>3 DEF Store
  <1>4. ASSUME NEW m \in Models, NEW n \in Nat, Place(m) \/ PlaceN(m, n)
        PROVE  /\ UNCHANGED <<resources, stored, at, todo, due, begun>>
               /\ DOMAIN answer' = {"model", "asked", "nodes"}
    BY <1>4 DEF Place, PlaceN, Decide
  <1>5. CASE ListModels
    BY <1>0, <1>5 DEF ListModels
  <1>6. CASE Handled
    BY <1>0, <1>6 DEF Handled
  <1>7. ASSUME NEW m \in Models, GetModel(m)
        PROVE  STypeOK'
    BY <1>0, <1>7, SchedAssumption DEF GetModel, After
  <1>8. ASSUME NEW m \in Models, Redeploy(m)
        PROVE  STypeOK'
    <2>1. Place(m) /\ jobs' \in [Models -> 0..MaxJobs]
      BY <1>8, SchedAssumption DEF Redeploy
    <2>. QED
      BY <1>4, <2>1
  <1>9. CASE UNCHANGED svars
    BY <1>9 DEF svars
  <1>10. ASSUME NEW m \in Models, NEW n \in Nat, Place(m) \/ PlaceN(m, n), UNCHANGED jobs
         PROVE  STypeOK'
    BY <1>4, <1>10
  <1>11. MaxN \in Nat /\ 0..MaxN \subseteq Nat
    BY SchedAssumption
  <1>. QED
    BY <1>1, <1>2, <1>3, <1>5, <1>6, <1>7, <1>8, <1>9, <1>10, <1>11 DEF SNext, Caller

LEMMA DecidedStep == Decided /\ [SNext]_svars => Decided'
PROOF
  <1> SUFFICES ASSUME Decided, [SNext]_svars
               PROVE  Decided'
    OBVIOUS
  <1>1. CASE answer' = NoAnswer
    BY <1>1 DEF Decided
  <1>2. ASSUME NEW m \in Models, Place(m)
        PROVE  Decided'
    BY <1>2, PlaceStep
  <1>3. ASSUME NEW m \in Models, NEW n \in 0..MaxN, PlaceN(m, n)
        PROVE  Decided'
    BY <1>3, PlaceNStep, SchedAssumption
  <1>4. CASE UNCHANGED svars
    <2>1. UNCHANGED <<resources, answer>>
      BY <1>4 DEF svars
    <2>2. ASSUME answer # NoAnswer
          PROVE  Decided'
      <3>1. PICK m \in Models, n \in Nat \ {0}, nodes \in {answer.nodes} :
              /\ answer = [model |-> m, asked |-> n, nodes |-> nodes]
              /\ Accepted(m, n, nodes) \/ Refused(m, nodes)
        BY <2>2 DEF Decided
      <3>2. (Accepted(m, n, nodes) \/ Refused(m, nodes))'
        BY <2>1, <3>1, SameTable
      <3>. QED
        BY <2>1, <3>1, <3>2 DEF Decided
    <2>. QED
      BY <2>1, <2>2 DEF Decided
  <1>. QED
    BY <1>1, <1>2, <1>3, <1>4 DEF SNext, Caller, UpdateResources, RemoveNode, HandleNodeFailed,
      Store, ListModels, Handled, GetModel, Redeploy

LEMMA RememberedStep == STypeOK /\ Remembered /\ [SNext]_svars => Remembered'
PROOF
  <1> SUFFICES ASSUME STypeOK, Remembered, [SNext]_svars
               PROVE  Remembered'
    OBVIOUS
  <1> USE DEF Remembered, failure
  <1>1. CASE UNCHANGED <<stored, at, todo, due, begun>>
    BY <1>1
  <1>2. ASSUME NEW s \in SUBSET Models, Store(s)
        PROVE  Remembered'
    BY <1>2 DEF Store
  <1>3. ASSUME NEW n \in Nodes, HandleNodeFailed(n)
        PROVE  Remembered'
    BY <1>3 DEF HandleNodeFailed
  <1>4. CASE ListModels
    BY <1>4 DEF ListModels
  <1>5. ASSUME NEW m \in Models, GetModel(m)
        PROVE  Remembered'
    BY <1>5 DEF GetModel, After
  <1>6. CASE Handled
    BY <1>6 DEF Handled
  <1>7. ASSUME NEW m, NEW n, Place(m) \/ PlaceN(m, n)
        PROVE  UNCHANGED <<stored, at, todo, due, begun>>
    BY <1>7 DEF Place, PlaceN, Decide
  <1>. QED
    BY <1>1, <1>2, <1>3, <1>4, <1>5, <1>6, <1>7 DEF SNext, Caller, UpdateResources, RemoveNode,
      Redeploy, svars

LEMMA InitSInv == SInit => SInv
PROOF
  BY SchedAssumption DEF SInit, SInv, STypeOK, Decided, Remembered, NoAnswer

LEMMA Invariance == SSpec => []SInv
PROOF
  <1>1. SInv /\ [SNext]_svars => SInv'
    BY TypeStep, DecidedStep, RememberedStep DEF SInv
  <1>. QED
    BY <1>1, InitSInv, PTL DEF SSpec

-----------------------------------------------------------------------------
(* Every variable has its type. *)
THEOREM TypeCorrect == SSpec => []STypeOK
PROOF
  <1>1. SInv => STypeOK
    BY DEF SInv
  <1>. QED
    BY <1>1, Invariance, PTL

(* A decision names nodes that can take the model, the freest first, and   *)
(* one is refused only for want of them.                                   *)
THEOREM DecisionFitsHolds == SSpec => []DecisionFits
PROOF
  <1>1. SInv => DecisionFits
    BY FitsStep DEF SInv
  <1>. QED
    BY <1>1, Invariance, PTL

(* Replicas are spread over all nodes that can take the model.             *)
THEOREM SpreadEvenlyHolds == SSpec => []SpreadEvenly
PROOF
  <1>1. SInv => SpreadEvenly
    BY SpreadStep DEF SInv
  <1>. QED
    BY <1>1, Invariance, PTL

(* The stages of a pipeline are on different nodes.                        *)
THEOREM StagesApartHolds == SSpec => []StagesApart
PROOF
  <1>1. SInv => StagesApart
    BY StagesStep DEF SInv
  <1>. QED
    BY <1>1, Invariance, PTL

(* A failure that has been handled redeploys every model that stayed.      *)
THEOREM NoneForgottenHolds == SSpec => []NoneForgotten
PROOF
  <1>1. SInv => NoneForgotten
    BY DEF SInv, Remembered, NoneForgotten
  <1>. QED
    BY <1>1, Invariance, PTL
=============================================================================
