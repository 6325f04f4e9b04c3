----------------------------- MODULE TokenBucket -----------------------------
(***************************************************************************)
(* The gateway's limiter (internal/gateway/limiter.go).  Allow runs under  *)
(* the bucket's mutex and reads the clock inside it, so that a call is one *)
(* step.  Times and amounts are whole numbers, see RateLimit; the code's   *)
(* are floating point.                                                     *)
(***************************************************************************)
EXTENDS Integers, Sequences

CONSTANTS
  Rates,    \* the rates a run may be configured with
  Cost,     \* ticks in a second, parts in a token
  Horizon   \* bound: the tick at which a run ends

ASSUME BucketAssumption ==
  /\ Rates \subseteq Int
  /\ Cost \in Nat \ {0}
  /\ Horizon \in Nat

VARIABLES
  rate,      \* requests a second; 0 or less: no limit
  tokens,    \* what the bucket holds
  lastFill,  \* when it was last filled
  now,       \* the monotonic clock
  log,       \* history: when requests were admitted
  answer     \* what the last call of this tick returned

vars == <<rate, tokens, lastFill, now, log, answer>>

Burst == rate * Cost

(* NewTokenBucket: a full bucket; one token that is never spent when there *)
(* is no limit.                                                            *)
Init ==
  /\ rate \in Rates
  /\ tokens = IF rate <= 0 THEN Cost ELSE Burst
  /\ lastFill = 0
  /\ now = 0
  /\ log = << >>
  /\ answer = "none"

Tick ==
  /\ now < Horizon
  /\ now' = now + 1
  /\ answer' = "none"
  /\ UNCHANGED <<rate, tokens, lastFill, log>>

(* What the bucket holds once filled; it holds no more than its burst.     *)
(* The mutant forgets the cap.                                             *)
Refill(held) == held + rate * (now - lastFill)
Uncapped     == Refill(tokens)
Filled       == IF Burst < Refill(tokens) THEN Burst ELSE Refill(tokens)

(* A token is there; the mutant lets the last part of one do for a token. *)
Nearly(t) == t + 1 >= Cost
Enough(t) == t >= Cost

Allow ==
  /\ rate > 0
  /\ lastFill' = now
  /\ \/ /\ Enough(Filled)
        /\ tokens' = Filled - Cost
        /\ log' = Append(log, now)
        /\ answer' = "yes"
     \/ /\ ~Enough(Filled)
        /\ tokens' = Filled
        /\ answer' = "no"
        /\ UNCHANGED log
  /\ UNCHANGED <<rate, now>>

AllowUnlimited ==
  /\ rate <= 0
  /\ answer' = "yes"
  /\ UNCHANGED <<rate, tokens, lastFill, now, log>>

Next == Tick \/ Allow \/ AllowUnlimited

Spec == Init /\ [][Next]_vars
-----------------------------------------------------------------------------
(* The bucket never holds a negative amount nor more than its burst, and   *)
(* is never filled in the future.                                          *)
TypeOK ==
  /\ rate \in Rates
  /\ now \in Nat
  /\ lastFill \in 0 .. now
  /\ log \in Seq(0 .. lastFill)
  /\ rate > 0 => tokens \in 0 .. Burst
  /\ answer \in {"none", "yes", "no"}

(* Lazy refilling at each call is an exact sliding window: at whatever     *)
(* times the calls come, a request is admitted if and only if every window *)
(* that ends now has room for it.                                          *)
Limit == INSTANCE RateLimit
ImplementsRateLimit == Limit!Spec
=============================================================================
