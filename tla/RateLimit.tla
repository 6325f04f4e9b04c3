------------------------------ MODULE RateLimit ------------------------------
(***************************************************************************)
(* What a rate limit promises to the callers of the gateway: in no stretch *)
(* of time are more requests admitted than the burst plus the rate times   *)
(* the length of the stretch, and none is refused that this would allow.   *)
(* Time is counted in ticks, Cost ticks a second; amounts are counted in   *)
(* parts of which Cost make one request, so that a tick is worth rate.     *)
(***************************************************************************)
EXTENDS Integers, Sequences

CONSTANTS
  Rates,    \* the rates a run may be configured with
  Cost,     \* ticks in a second, parts in a request
  Horizon   \* bound: the tick at which a run ends

VARIABLES
  rate,    \* requests a second; 0 or less: no limit
  now,     \* the clock
  log,     \* when the admitted requests were admitted
  answer   \* to the last call made at this tick: "none", "yes", "no"

Burst == rate * Cost

vars == <<rate, now, log, answer>>

Init == rate \in Rates /\ now = 0 /\ log = << >> /\ answer = "none"

Tick ==
  /\ now < Horizon
  /\ now' = now + 1
  /\ answer' = "none"
  /\ UNCHANGED <<rate, log>>

(* The requests from the i-th on, and what may pass since its time. *)
Used(i)      == Cost * (Len(log) - i + 1)
Window(i, t) == Burst + rate * (t - log[i])

(* One more request at t would stay within every window that ends at t. *)
Conforms(t) ==
  /\ Cost <= Burst
  /\ \A i \in 1 .. Len(log) : Used(i) + Cost <= Window(i, t)

Admit ==
  /\ answer' = "yes"
  /\ \/ rate <= 0 /\ UNCHANGED log
     \/ rate > 0 /\ Conforms(now) /\ log' = Append(log, now)
  /\ UNCHANGED <<rate, now>>

Refuse ==
  /\ rate > 0 /\ ~Conforms(now)
  /\ answer' = "no"
  /\ UNCHANGED <<rate, now, log>>

Next == Tick \/ Admit \/ Refuse

Spec == Init /\ [][Next]_vars
=============================================================================
