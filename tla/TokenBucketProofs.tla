-------------------------- MODULE TokenBucketProofs --------------------------
(***************************************************************************)
(* The token bucket is an exact sliding window, for every rate, every tick *)
(* length and every pattern of calls.                                      *)
(***************************************************************************)
EXTENDS TokenBucket, TLAPS

(* What the bucket holds is what the tightest window leaves: no window     *)
(* leaves less, and unless the bucket is full one leaves just that.        *)
Room(i) == Limit!Window(i, lastFill) - Limit!Used(i)

Exact ==
  rate > 0 =>
    /\ \A i \in 1 .. Len(log) : tokens <= Room(i)
    /\ tokens = Burst \/ \E i \in 1 .. Len(log) : tokens = Room(i)

IInv == TypeOK /\ Exact

LEMMA Distribute ==
  ASSUME NEW r \in Int, NEW a \in Int, NEW b \in Int
  PROVE  r * (a + b) = r * a + r * b
  OBVIOUS

LEMMA Product ==
  ASSUME NEW a \in Nat, NEW b \in Nat
  PROVE  a * b \in Nat
  OBVIOUS

(* What Used and Window are, as integers. *)
LEMMA LogType ==
  ASSUME TypeOK, NEW i \in 1 .. Len(log)
  PROVE  /\ log[i] \in 0 .. lastFill
         /\ Limit!Used(i) \in Int
         /\ \A t \in Int : Limit!Window(i, t) \in Int
  <1>1. Len(log) \in Nat /\ log[i] \in 0 .. lastFill
    BY DEF TypeOK
  <1>2. rate \in Int /\ Cost \in Int /\ lastFill \in Int
    BY BucketAssumption DEF TypeOK
  <1>3. QED
    BY <1>1, <1>2 DEF Limit!Used, Limit!Window, Limit!Burst

(* Time gives every window and the bucket the same amount. *)
LEMMA WindowGrows ==
  ASSUME TypeOK, NEW i \in 1 .. Len(log)
  PROVE  Limit!Window(i, now) = Limit!Window(i, lastFill) + rate * (now - lastFill)
  <1>1. rate \in Int /\ Cost \in Int /\ lastFill \in Int /\ now \in Int /\ log[i] \in Int
    <2>1. rate \in Int /\ Cost \in Int /\ lastFill \in Int /\ now \in Int
      BY BucketAssumption DEF TypeOK
    <2>2. log[i] \in 0 .. lastFill
      BY LogType
    <2>3. QED
      BY <2>1, <2>2
  <1>2. rate * ((lastFill - log[i]) + (now - lastFill))
          = rate * (lastFill - log[i]) + rate * (now - lastFill)
    BY <1>1, Distribute
  <1>3. (lastFill - log[i]) + (now - lastFill) = now - log[i]
    BY <1>1
  <1>4. QED
    BY <1>1, <1>2, <1>3 DEF Limit!Window, Limit!Burst

(* The filled bucket against the windows that end now. *)
LEMMA FilledExact ==
  ASSUME IInv, rate > 0
  PROVE  /\ Filled \in 0 .. Burst
         /\ \A i \in 1 .. Len(log) : Filled <= Limit!Window(i, now) - Limit!Used(i)
         /\ \/ Filled = Burst
            \/ \E i \in 1 .. Len(log) : Filled = Limit!Window(i, now) - Limit!Used(i)
  <1> DEFINE gain == rate * (now - lastFill)
  <1>1. rate \in Nat /\ now - lastFill \in Nat /\ lastFill \in Int /\ Cost \in Nat
    BY BucketAssumption DEF IInv, TypeOK
  <1>2. gain \in Nat /\ Burst \in Nat
    BY <1>1, Product DEF Burst
  <1>3. tokens \in 0 .. Burst
    BY DEF IInv, TypeOK
  <1>4. Filled = IF Burst < tokens + gain THEN Burst ELSE tokens + gain
    BY DEF Filled, Refill
  <1> HIDE DEF gain
  <1>5. Filled \in 0 .. Burst /\ Filled <= tokens + gain
    BY <1>2, <1>3, <1>4
  <1>6. \A i \in 1 .. Len(log) :
          /\ Limit!Window(i, lastFill) \in Int /\ Limit!Used(i) \in Int
          /\ Limit!Window(i, now) = Limit!Window(i, lastFill) + gain
    BY <1>1, LogType, WindowGrows DEF IInv, gain
  <1>7. \A i \in 1 .. Len(log) : Filled <= Limit!Window(i, now) - Limit!Used(i)
    BY <1>2, <1>3, <1>5, <1>6 DEF IInv, Exact, Room
  <1>8. ASSUME Filled # Burst
        PROVE  \E i \in 1 .. Len(log) : Filled = Limit!Window(i, now) - Limit!Used(i)
    <2>1. Filled = tokens + gain /\ tokens # Burst
      BY <1>2, <1>3, <1>4, <1>8
    <2>2. PICK i \in 1 .. Len(log) : tokens = Room(i)
      BY <2>1 DEF IInv, Exact
    <2>3. QED
      BY <1>2, <1>3, <1>6, <2>1, <2>2 DEF Room
  <1>9. QED
    BY <1>5, <1>7, <1>8

(* The bucket has a token exactly when every window has room. *)
LEMMA EnoughIsConforming ==
  ASSUME IInv, rate > 0
  PROVE  Enough(Filled) <=> Limit!Conforms(now)
  <1>1. Burst = Limit!Burst /\ Burst \in Int /\ Cost \in Int
    BY BucketAssumption DEF Burst, Limit!Burst, IInv, TypeOK
  <1>2. \A i \in 1 .. Len(log) : Limit!Window(i, now) \in Int /\ Limit!Used(i) \in Int
    BY LogType DEF IInv, TypeOK
  <1>3. Filled \in Int /\ Filled <= Burst
    BY <1>1, FilledExact
  <1>4. ASSUME Enough(Filled) PROVE Limit!Conforms(now)
    BY <1>1, <1>2, <1>3, <1>4, FilledExact DEF Enough, Limit!Conforms
  <1>5. ASSUME Limit!Conforms(now) PROVE Enough(Filled)
    <2>1. CASE Filled = Burst
      BY <1>1, <1>5, <2>1 DEF Enough, Limit!Conforms
    <2>2. CASE Filled # Burst
      <3>1. PICK i \in 1 .. Len(log) : Filled = Limit!Window(i, now) - Limit!Used(i)
        BY <2>2, FilledExact
      <3>2. Limit!Used(i) + Cost <= Limit!Window(i, now)
        BY <1>5 DEF Limit!Conforms
      <3>3. QED
        BY <1>1, <1>2, <1>3, <3>1, <3>2 DEF Enough
    <2>3. QED
      BY <2>1, <2>2
  <1>6. QED
    BY <1>4, <1>5

LEMMA ExactInit == Init => IInv
  <1> SUFFICES ASSUME Init PROVE IInv
    OBVIOUS
  <1>1. rate \in Int /\ Cost \in Nat
    BY BucketAssumption DEF Init
  <1>2. log \in Seq(0 .. lastFill) /\ Len(log) = 0
    BY DEF Init
  <1>3. rate > 0 => tokens = Burst /\ Burst \in Nat
    BY <1>1, Product DEF Init, Burst
  <1>4. TypeOK
    BY <1>2, <1>3 DEF Init, TypeOK
  <1>5. Exact
    BY <1>2, <1>3 DEF Exact
  <1>6. QED
    BY <1>4, <1>5 DEF IInv

(* A refused call: the bucket is filled and keeps what it holds. *)
LEMMA RefusedExact ==
  ASSUME IInv, Allow, ~Enough(Filled)
  PROVE  IInv'
  <1>1. /\ rate > 0 /\ lastFill' = now /\ tokens' = Filled
        /\ log' = log /\ now' = now /\ rate' = rate /\ answer' = "no"
    BY DEF Allow
  <1>2. /\ Filled \in 0 .. Burst
        /\ \A i \in 1 .. Len(log) : Filled <= Limit!Window(i, now) - Limit!Used(i)
        /\ \/ Filled = Burst
           \/ \E i \in 1 .. Len(log) : Filled = Limit!Window(i, now) - Limit!Used(i)
    BY <1>1, FilledExact
  <1>3. Burst' = Burst
    BY <1>1 DEF Burst
  <1>4. \A i \in 1 .. Len(log) : Room(i)' = Limit!Window(i, now) - Limit!Used(i)
    BY <1>1 DEF Room, Limit!Window, Limit!Used, Limit!Burst
  <1>5. log \in Seq(0 .. now)
    <2>1. lastFill \in 0 .. now /\ now \in Nat /\ log \in Seq(0 .. lastFill)
      BY DEF IInv, TypeOK
    <2>2. QED
      BY <2>1
  <1>6. TypeOK'
    BY <1>1, <1>2, <1>3, <1>5 DEF IInv, TypeOK
  <1>7. Exact'
    BY <1>1, <1>2, <1>3, <1>4 DEF Exact
  <1>8. QED
    BY <1>6, <1>7 DEF IInv

(* An admitted call: the request counts in every window, and the one it    *)
(* opens itself is the tightest if the bucket was full.                    *)
LEMMA AdmittedExact ==
  ASSUME IInv, Allow, Enough(Filled)
  PROVE  IInv'
  <1>1. /\ rate > 0 /\ lastFill' = now /\ tokens' = Filled - Cost
        /\ log' = Append(log, now) /\ now' = now /\ rate' = rate /\ answer' = "yes"
    BY DEF Allow
  <1>2. /\ Filled \in 0 .. Burst
        /\ \A i \in 1 .. Len(log) : Filled <= Limit!Window(i, now) - Limit!Used(i)
        /\ \/ Filled = Burst
           \/ \E i \in 1 .. Len(log) : Filled = Limit!Window(i, now) - Limit!Used(i)
    BY <1>1, FilledExact
  <1>3. /\ Burst' = Burst /\ Limit!Burst = Burst
        /\ rate \in Int /\ Cost \in Nat /\ now \in Nat /\ Burst \in Int
    BY <1>1, BucketAssumption DEF Burst, Limit!Burst, IInv, TypeOK
  <1>4. log \in Seq(0 .. now)
    <2>1. lastFill \in 0 .. now /\ now \in Nat /\ log \in Seq(0 .. lastFill)
      BY DEF IInv, TypeOK
    <2>2. QED
      BY <2>1
  <1>5. /\ log' \in Seq(0 .. now)
        /\ Len(log) \in Nat /\ Len(log') = Len(log) + 1
        /\ \A i \in 1 .. Len(log) : log'[i] = log[i]
        /\ log'[Len(log) + 1] = now
    BY <1>1, <1>3, <1>4
  <1>6. tokens' \in 0 .. Burst
    BY <1>1, <1>2, <1>3 DEF Enough
  <1>7. TypeOK'
    BY <1>1, <1>3, <1>5, <1>6 DEF IInv, TypeOK
  <1>8. ASSUME NEW i \in 1 .. Len(log)
        PROVE  Room(i)' = (Limit!Window(i, now) - Limit!Used(i)) - Cost
    <2>1. Cost * (Len(log) - i + 1 + 1) = Cost * (Len(log) - i + 1) + Cost * 1
      BY <1>3, <1>5, Distribute
    <2>2. Limit!Used(i)' = Limit!Used(i) + Cost
      <3>1. Len(log') - i + 1 = Len(log) - i + 1 + 1
        BY <1>5
      <3>2. QED
        BY <1>3, <2>1, <3>1 DEF Limit!Used
    <2>3. Limit!Window(i, lastFill)' = Limit!Window(i, now)
      BY <1>1, <1>5 DEF Limit!Window, Limit!Burst
    <2>4. Limit!Window(i, now) \in Int /\ Limit!Used(i) \in Int
      BY <1>3, LogType DEF IInv
    <2>5. QED
      BY <1>3, <2>2, <2>3, <2>4 DEF Room
  <1>n. PICK n \in Nat : n = Len(log) + 1
    BY <1>5
  <1>9. Room(n)' = Burst - Cost
    <2>1. now - log'[n] = 0 /\ Len(log') - n + 1 = 1
      BY <1>3, <1>5, <1>n
    <2>2. rate * 0 = 0 /\ Cost * 1 = Cost
      BY <1>3
    <2>3. rate' * (now - log'[n]) = 0
      BY <1>1, <2>1, <2>2
    <2>4. Cost * (Len(log') - n + 1) = Cost
      BY <2>1, <2>2
    <2>5. rate' * Cost = Burst
      BY <1>1 DEF Burst
    <2>6. Limit!Window(n, lastFill)' = rate' * Cost + rate' * (now - log'[n])
      BY <1>1 DEF Limit!Window, Limit!Burst
    <2>7. Limit!Window(n, lastFill)' = Burst
      BY <1>3, <2>3, <2>5, <2>6
    <2>8. Limit!Used(n)' = Cost
      BY <2>4 DEF Limit!Used
    <2>9. QED
      BY <1>3, <2>7, <2>8 DEF Room
  <1>10. \A i \in 1 .. Len(log) : Limit!Window(i, now) \in Int /\ Limit!Used(i) \in Int
    BY <1>3, LogType DEF IInv
  <1>11. \A i \in 1 .. Len(log') : tokens' <= Room(i)'
    <2>1. ASSUME NEW i \in 1 .. Len(log) PROVE tokens' <= Room(i)'
      BY <1>1, <1>2, <1>3, <1>8, <1>10
    <2>2. tokens' <= Room(n)'
      BY <1>1, <1>2, <1>3, <1>9
    <2>3. \A i \in 1 .. Len(log') : i \in 1 .. Len(log) \/ i = n
      BY <1>5, <1>n
    <2>4. QED
      BY <2>1, <2>2, <2>3
  <1>12. \E i \in 1 .. Len(log') : tokens' = Room(i)'
    <2>1. CASE Filled = Burst
      BY <1>1, <1>5, <1>n, <1>9, <2>1
    <2>2. ASSUME NEW i \in 1 .. Len(log), Filled = Limit!Window(i, now) - Limit!Used(i)
          PROVE  \E j \in 1 .. Len(log') : tokens' = Room(j)'
      BY <1>1, <1>5, <1>8, <2>2
    <2>3. QED
      BY <1>2, <2>1, <2>2
  <1>13. Exact'
    BY <1>11, <1>12 DEF Exact
  <1>14. QED
    BY <1>7, <1>13 DEF IInv

LEMMA ExactStep == IInv /\ [Next]_vars => IInv'
  <1> SUFFICES ASSUME IInv, [Next]_vars PROVE IInv'
    OBVIOUS
  <1>1. CASE Tick
    <2>1. /\ now' = now + 1 /\ answer' = "none"
          /\ UNCHANGED <<rate, tokens, lastFill, log>>
      BY <1>1 DEF Tick
    <2>2. TypeOK'
      BY <2>1 DEF IInv, TypeOK, Burst
    <2>3. Exact'
      BY <2>1 DEF IInv, Exact, Room, Burst, Limit!Window, Limit!Used, Limit!Burst
    <2>4. QED
      BY <2>2, <2>3 DEF IInv
  <1>2. CASE Allow
    BY <1>2, RefusedExact, AdmittedExact
  <1>3. CASE AllowUnlimited \/ UNCHANGED vars
    <2>1. UNCHANGED <<rate, tokens, lastFill, now, log>> /\ answer' \in {answer, "yes"}
      BY <1>3 DEF AllowUnlimited, vars
    <2>2. TypeOK'
      BY <2>1 DEF IInv, TypeOK, Burst
    <2>3. Exact'
      BY <2>1 DEF IInv, Exact, Room, Burst, Limit!Window, Limit!Used, Limit!Burst
    <2>4. QED
      BY <2>2, <2>3 DEF IInv
  <1>4. QED
    BY <1>1, <1>2, <1>3 DEF Next

(* The bucket holds between nothing and its burst. *)
THEOREM BucketTypeCorrect == Spec => []TypeOK
  <1>1. IInv => TypeOK
    BY DEF IInv
  <1>2. QED
    BY <1>1, ExactInit, ExactStep, PTL DEF Spec

LEMMA LimitStep == IInv /\ [Next]_vars => [Limit!Next]_(Limit!vars)
  <1> SUFFICES ASSUME IInv, [Next]_vars
               PROVE  Limit!Next \/ UNCHANGED Limit!vars
    OBVIOUS
  <1>1. CASE Tick
    BY <1>1 DEF Tick, Limit!Tick, Limit!Next
  <1>2. CASE Allow
    <2>1. rate > 0 /\ rate \in Int
      BY <1>2, BucketAssumption DEF Allow, IInv, TypeOK
    <2>2. Enough(Filled) <=> Limit!Conforms(now)
      BY <2>1, EnoughIsConforming
    <2>3. CASE Enough(Filled)
      BY <1>2, <2>1, <2>2, <2>3 DEF Allow, Limit!Admit, Limit!Next
    <2>4. CASE ~Enough(Filled)
      BY <1>2, <2>1, <2>2, <2>4 DEF Allow, Limit!Refuse, Limit!Next
    <2>5. QED
      BY <2>3, <2>4
  <1>3. CASE AllowUnlimited
    BY <1>3 DEF AllowUnlimited, Limit!Admit, Limit!Next
  <1>4. CASE UNCHANGED vars
    BY <1>4 DEF vars, Limit!vars
  <1>5. QED
    BY <1>1, <1>2, <1>3, <1>4 DEF Next

(* Lazy refilling is an exact sliding window: requests are admitted if and *)
(* only if no stretch of time would see more than its burst and rate.      *)
THEOREM ImplementsRateLimitHolds == Spec => ImplementsRateLimit
  <1>1. Init => Limit!Init
    BY DEF Init, Limit!Init
  <1>2. QED
    BY <1>1, ExactInit, ExactStep, LimitStep, PTL DEF Spec, ImplementsRateLimit, Limit!Spec
=============================================================================
