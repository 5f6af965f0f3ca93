------------------------------ MODULE Throttle ------------------------------
(***************************************************************************)
(* Calls of an explorer that allows one request per interval:              *)
(* throttle_tronscan and tronscan_get of                                   *)
(* app/infrastructure/blockchain/clients.py.  AsyncRateLimiter of          *)
(* app/core/redis_client.py is the same algorithm.                         *)
(*                                                                         *)
(* A caller is a coroutine.  It takes an asyncio.Lock, sleeps while        *)
(* holding it until the interval since the last request is over, sends its *)
(* request and lets go of the lock.  Time passes in ticks.                 *)
(***************************************************************************)
EXTENDS Naturals, Sequences

CONSTANTS
  Caller,    \* coroutines calling the explorer
  Interval,  \* ticks between two requests, TRONSCAN_MIN_INTERVAL
  Attempts   \* how often a request answered by 429 is sent, 3

ASSUME ThrottleAssumption == Interval \in Nat /\ Attempts \in Nat \ {0}

VARIABLES
  queue,  \* the lock: its holder and those waiting, first come first served
  since,  \* ticks since TRONSCAN_LAST_REQUEST, the interval at most
  sleep,  \* ticks a caller still has to sleep
  call,   \* the state of each caller
  tries   \* requests its call has sent

throttleVars == <<queue, since, sleep, call, tries>>

\* backoff: between a 429 and the next attempt.
CallState == {"idle", "queued", "asleep", "sent", "backoff"}

ThrottleTypeOK ==
  /\ queue \in Seq(Caller)
  /\ since \in 0 .. Interval
  /\ sleep \in [Caller -> 0 .. Interval]
  /\ call \in [Caller -> CallState]
  /\ tries \in [Caller -> 0 .. Attempts]

ThrottleInit ==
  /\ queue = <<>>
  /\ since = Interval
  /\ sleep = [c \in Caller |-> 0]
  /\ call = [c \in Caller |-> "idle"]
  /\ tries = [c \in Caller |-> 0]

Enter(c) ==
  /\ call' = [call EXCEPT ![c] = "queued"]
  /\ queue' = Append(queue, c)
  /\ UNCHANGED <<since, sleep>>

Start(c) ==
  /\ call[c] = "idle"
  /\ Enter(c)
  /\ UNCHANGED tries

Retry(c) ==
  /\ call[c] = "backoff"
  /\ Enter(c)
  /\ UNCHANGED tries

\* The holder sends its request and lets the next one have the lock.
Send(c) ==
  /\ call' = [call EXCEPT ![c] = "sent"]
  /\ tries' = [tries EXCEPT ![c] = @ + 1]
  /\ queue' = Tail(queue)
  /\ since' = 0
  /\ UNCHANGED sleep

\* Mutant: nobody takes the lock.
HoldsUnlocked(c) == TRUE

Holds(c) == Head(queue) = c

\* The interval is over when the lock is taken ...
SendAtOnce(c) ==
  /\ call[c] = "queued"
  /\ Holds(c)
  /\ since = Interval
  /\ Send(c)

\* ... or the rest of it is slept.
FallAsleep(c) ==
  /\ call[c] = "queued"
  /\ Holds(c)
  /\ since < Interval
  /\ call' = [call EXCEPT ![c] = "asleep"]
  /\ sleep' = [sleep EXCEPT ![c] = Interval - since]
  /\ UNCHANGED <<queue, since, tries>>

Wake(c) ==
  /\ call[c] = "asleep"
  /\ sleep[c] = 0
  /\ Send(c)

\* Mutant: a 429 is retried for ever.
MayRetryAlways(c) == TRUE

MayRetry(c) == tries[c] < Attempts

TooMany(c) ==
  /\ call[c] = "sent"
  /\ MayRetry(c)
  /\ call' = [call EXCEPT ![c] = "backoff"]
  /\ UNCHANGED <<queue, since, sleep, tries>>

\* The call ends, with an answer or an exception.
Return(c) ==
  /\ call[c] = "sent"
  /\ call' = [call EXCEPT ![c] = "idle"]
  /\ tries' = [tries EXCEPT ![c] = 0]
  /\ UNCHANGED <<queue, since, sleep>>

Tick ==
  /\ since < Interval \/ \E c \in Caller : sleep[c] > 0
  /\ since' = IF since < Interval THEN since + 1 ELSE since
  /\ sleep' = [c \in Caller |-> IF sleep[c] > 0 THEN sleep[c] - 1 ELSE 0]
  /\ UNCHANGED <<queue, call, tries>>

ThrottleStep(c) ==
  \/ Retry(c)
  \/ SendAtOnce(c)
  \/ FallAsleep(c)
  \/ Wake(c)
  \/ TooMany(c)

ThrottleNext ==
  \/ \E c \in Caller : Start(c) \/ ThrottleStep(c) \/ Return(c)
  \/ Tick

ThrottleSpec == ThrottleInit /\ [][ThrottleNext]_throttleVars

-----------------------------------------------------------------------------
\* Two requests are an interval apart, however many coroutines call
\* (clients.py:29-40 and redis_client.py:18-24).
Spaced ==
  [][\A c \in Caller :
       call[c] # "sent" /\ call'[c] = "sent" => since = Interval]_throttleVars
=============================================================================
