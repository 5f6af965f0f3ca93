-------------------------- MODULE Collection_proofs --------------------------
(***************************************************************************)
(* Proofs about Throttle and Collection.  The requests of an explorer are  *)
(* an interval apart, for any number of callers, attempts and any interval *)
(* (first part).  A report is whole or marked if nothing appears in its    *)
(* period meanwhile, and exact if nothing appears at all, for any period,  *)
(* limit, cap and page length, any transfers and any order of the pages    *)
(* (second part: lists, what a report under way has, its end, its pages,   *)
(* what appears).                                                          *)
(***************************************************************************)
EXTENDS Collection, Induction, FiniteSetTheorems, TLAPS

\* Those in the queue want the lock, each once, and all who do are there.
Queued ==
  /\ \A i \in 1 .. Len(queue) : call[queue[i]] \in {"queued", "asleep"}
  /\ \A i, j \in 1 .. Len(queue) : queue[i] = queue[j] => i = j
  /\ \A c \in Caller :
       call[c] \in {"queued", "asleep"} => \E i \in 1 .. Len(queue) : queue[i] = c

\* Who sleeps holds the lock, for what is left of the interval.
SleepsRest ==
  \A c \in Caller :
    call[c] = "asleep" =>
      /\ Len(queue) > 0 /\ queue[1] = c
      /\ sleep[c] + since = Interval

\* A call that goes on has an attempt left.
Left ==
  \A c \in Caller :
    call[c] \in {"idle", "queued", "asleep", "backoff"} => tries[c] < Attempts

ThrottleInv == ThrottleTypeOK /\ Queued /\ SleepsRest /\ Left

-----------------------------------------------------------------------------
LEMMA EnterInv ==
  ASSUME ThrottleInv, NEW c \in Caller, call[c] \in {"idle", "backoff"},
         Enter(c), UNCHANGED tries
  PROVE  ThrottleInv'
<1>1. /\ queue \in Seq(Caller) /\ queue' = Append(queue, c)
      /\ call' = [call EXCEPT ![c] = "queued"]
      /\ call \in [Caller -> CallState]
      /\ since' = since /\ sleep' = sleep /\ tries' = tries
  BY DEF Enter, ThrottleInv, ThrottleTypeOK
<1>2. /\ queue' \in Seq(Caller) /\ Len(queue') = Len(queue) + 1
      /\ Len(queue) \in Nat
      /\ queue'[Len(queue) + 1] = c
      /\ \A i \in 1 .. Len(queue) : queue'[i] = queue[i] /\ queue[i] \in Caller
  BY <1>1
<1>3. /\ call'[c] = "queued"
      /\ \A d \in Caller : d # c => call'[d] = call[d]
      /\ call' \in [Caller -> CallState]
  BY <1>1 DEF CallState
<1>4. \A i \in 1 .. Len(queue) : queue[i] # c
  BY <1>2 DEF ThrottleInv, Queued
<1>5. ThrottleTypeOK'
  BY <1>1, <1>2, <1>3 DEF ThrottleInv, ThrottleTypeOK
<1>6. Queued'
  <2>1. ASSUME NEW i \in 1 .. Len(queue')
        PROVE  call'[queue'[i]] \in {"queued", "asleep"}
    BY <1>2, <1>3, <1>4 DEF ThrottleInv, Queued
  <2>2. ASSUME NEW i \in 1 .. Len(queue'), NEW j \in 1 .. Len(queue'),
               queue'[i] = queue'[j]
        PROVE  i = j
    BY <2>2, <1>2, <1>4 DEF ThrottleInv, Queued
  <2>3. ASSUME NEW d \in Caller, call'[d] \in {"queued", "asleep"}
        PROVE  \E i \in 1 .. Len(queue') : queue'[i] = d
    <3>1. CASE d = c
      BY <3>1, <1>2
    <3>2. CASE d # c
      <4>1. PICK i \in 1 .. Len(queue) : queue[i] = d
        BY <2>3, <3>2, <1>3 DEF ThrottleInv, Queued
      <4> QED BY <4>1, <1>2
    <3> QED BY <3>1, <3>2
  <2> QED BY <2>1, <2>2, <2>3 DEF Queued
<1>7. SleepsRest'
  BY <1>1, <1>2, <1>3 DEF ThrottleInv, SleepsRest
<1>8. Left'
  BY <1>1, <1>3 DEF ThrottleInv, Left
<1> QED BY <1>5, <1>6, <1>7, <1>8 DEF ThrottleInv

\* The holder of the lock is the only one that may sleep.
LEMMA HolderSends ==
  ASSUME ThrottleInv, NEW c \in Caller, call[c] \in {"queued", "asleep"},
         Head(queue) = c, Send(c)
  PROVE  ThrottleInv'
<1>1. /\ queue \in Seq(Caller) /\ queue' = Tail(queue)
      /\ call' = [call EXCEPT ![c] = "sent"]
      /\ tries' = [tries EXCEPT ![c] = tries[c] + 1]
      /\ call \in [Caller -> CallState]
      /\ tries \in [Caller -> 0 .. Attempts]
      /\ since' = 0 /\ sleep' = sleep
  BY DEF Send, ThrottleInv, ThrottleTypeOK
<1>2. Len(queue) \in Nat /\ Len(queue) > 0
  BY <1>1 DEF ThrottleInv, Queued
<1>3. queue # <<>> /\ queue[1] = c
  BY <1>1, <1>2
<1>4. /\ queue' \in Seq(Caller) /\ Len(queue') = Len(queue) - 1
      /\ \A i \in 1 .. Len(queue') : queue'[i] = queue[i + 1]
      /\ \A i \in 1 .. Len(queue) : queue[i] \in Caller
  BY <1>1, <1>2, <1>3
<1>5. /\ call'[c] = "sent"
      /\ \A d \in Caller : d # c => call'[d] = call[d]
      /\ call' \in [Caller -> CallState]
  BY <1>1 DEF CallState
<1>6. \A i \in 2 .. Len(queue) : queue[i] # c
  BY <1>2, <1>3 DEF ThrottleInv, Queued
<1>7. \A d \in Caller : d # c => call[d] # "asleep"
  BY <1>3 DEF ThrottleInv, SleepsRest
<1>8. ThrottleTypeOK'
  <2>1. tries' \in [Caller -> 0 .. Attempts]
    <3>1. tries[c] + 1 \in 0 .. Attempts
      BY <1>1, ThrottleAssumption DEF ThrottleInv, Left
    <3> QED BY <3>1, <1>1
  <2>2. since' \in 0 .. Interval
    BY <1>1, ThrottleAssumption
  <2> QED BY <2>1, <2>2, <1>1, <1>4, <1>5 DEF ThrottleInv, ThrottleTypeOK
<1>9. Queued'
  <2>1. ASSUME NEW i \in 1 .. Len(queue')
        PROVE  call'[queue'[i]] \in {"queued", "asleep"}
    <3>1. i + 1 \in 2 .. Len(queue) /\ queue'[i] = queue[i + 1]
      BY <1>2, <1>4
    <3>2. i + 1 \in 1 .. Len(queue) /\ queue[i + 1] # c /\ queue[i + 1] \in Caller
      BY <3>1, <1>4, <1>6
    <3> QED BY <3>1, <3>2, <1>5 DEF ThrottleInv, Queued
  <2>2. ASSUME NEW i \in 1 .. Len(queue'), NEW j \in 1 .. Len(queue'),
               queue'[i] = queue'[j]
        PROVE  i = j
    <3>1. /\ i + 1 \in 1 .. Len(queue) /\ j + 1 \in 1 .. Len(queue)
          /\ queue[i + 1] = queue[j + 1]
      BY <2>2, <1>2, <1>4
    <3>2. i + 1 = j + 1
      BY <3>1 DEF ThrottleInv, Queued
    <3> QED BY <3>2
  <2>3. ASSUME NEW d \in Caller, call'[d] \in {"queued", "asleep"}
        PROVE  \E i \in 1 .. Len(queue') : queue'[i] = d
    <3>1. d # c /\ call[d] \in {"queued", "asleep"}
      BY <2>3, <1>5
    <3>2. PICK i \in 1 .. Len(queue) : queue[i] = d
      BY <3>1 DEF ThrottleInv, Queued
    <3>3. i - 1 \in 1 .. Len(queue') /\ queue'[i - 1] = d
      BY <3>1, <3>2, <1>2, <1>3, <1>4
    <3> QED BY <3>3
  <2> QED BY <2>1, <2>2, <2>3 DEF Queued
<1>10. SleepsRest'
  BY <1>5, <1>7 DEF SleepsRest
<1>11. Left'
  BY <1>1, <1>5 DEF ThrottleInv, Left
<1> QED BY <1>8, <1>9, <1>10, <1>11 DEF ThrottleInv

\* A caller that wants the lock and comes first has somebody to come before.
LEMMA SendAtOnceInv ==
  ASSUME ThrottleInv, NEW c \in Caller, SendAtOnce(c)
  PROVE  ThrottleInv'
BY HolderSends DEF SendAtOnce, Holds

LEMMA WakeInv ==
  ASSUME ThrottleInv, NEW c \in Caller, Wake(c)
  PROVE  ThrottleInv'
<1>1. call[c] = "asleep" /\ Send(c)
  BY DEF Wake
<1>2. queue \in Seq(Caller) /\ Len(queue) > 0 /\ queue[1] = c
  BY <1>1 DEF ThrottleInv, ThrottleTypeOK, SleepsRest
<1>3. Head(queue) = c
  BY <1>2
<1> QED BY <1>1, <1>3, HolderSends

LEMMA FallAsleepInv ==
  ASSUME ThrottleInv, NEW c \in Caller, FallAsleep(c)
  PROVE  ThrottleInv'
<1>1. /\ queue \in Seq(Caller) /\ queue' = queue
      /\ call[c] = "queued" /\ Head(queue) = c
      /\ call' = [call EXCEPT ![c] = "asleep"]
      /\ sleep' = [sleep EXCEPT ![c] = Interval - since]
      /\ since' = since /\ tries' = tries
      /\ call \in [Caller -> CallState]
      /\ sleep \in [Caller -> 0 .. Interval]
      /\ since \in 0 .. Interval
  BY DEF FallAsleep, Holds, ThrottleInv, ThrottleTypeOK
<1>2. Len(queue) \in Nat /\ Len(queue) > 0 /\ queue[1] = c
  BY <1>1 DEF ThrottleInv, Queued
<1>3. \A i \in 1 .. Len(queue) : queue[i] \in Caller
  BY <1>1
<1>4. /\ call'[c] = "asleep" /\ sleep'[c] = Interval - since
      /\ \A d \in Caller : d # c => call'[d] = call[d] /\ sleep'[d] = sleep[d]
      /\ call' \in [Caller -> CallState]
  BY <1>1 DEF CallState
<1>5. \A d \in Caller : d # c => call[d] # "asleep"
  BY <1>2 DEF ThrottleInv, SleepsRest
<1>6. ThrottleTypeOK'
  <2>1. Interval - since \in 0 .. Interval
    BY <1>1, ThrottleAssumption
  <2>2. sleep' \in [Caller -> 0 .. Interval]
    BY <2>1, <1>1
  <2> QED BY <2>2, <1>1, <1>4 DEF ThrottleInv, ThrottleTypeOK
<1>7. Queued'
  <2>1. \A i \in 1 .. Len(queue) : call'[queue[i]] \in {"queued", "asleep"}
    BY <1>3, <1>4 DEF ThrottleInv, Queued
  <2>2. \A d \in Caller :
          call'[d] \in {"queued", "asleep"} => call[d] \in {"queued", "asleep"}
    BY <1>1, <1>4
  <2> QED BY <2>1, <2>2, <1>1 DEF ThrottleInv, Queued
<1>8. SleepsRest'
  <2> SUFFICES ASSUME NEW d \in Caller, call'[d] = "asleep"
               PROVE  /\ Len(queue') > 0 /\ queue'[1] = d
                      /\ sleep'[d] + since' = Interval
    BY DEF SleepsRest
  <2>1. d = c
    BY <1>4, <1>5
  <2>2. sleep'[c] + since = Interval
    BY <1>1, <1>4, ThrottleAssumption
  <2> QED BY <2>1, <2>2, <1>1, <1>2
<1>9. Left'
  BY <1>1, <1>4 DEF ThrottleInv, Left
<1> QED BY <1>6, <1>7, <1>8, <1>9 DEF ThrottleInv

\* A caller whose request is out does not wait for the lock.
LEMMA SentIsOut ==
  ASSUME ThrottleInv, NEW c \in Caller, call[c] = "sent"
  PROVE  \A i \in 1 .. Len(queue) : queue[i] \in Caller /\ queue[i] # c
<1> SUFFICES ASSUME NEW i \in 1 .. Len(queue)
             PROVE  queue[i] \in Caller /\ queue[i] # c
  OBVIOUS
<1>1. queue[i] \in Caller
  BY DEF ThrottleInv, ThrottleTypeOK
<1>2. call[queue[i]] \in {"queued", "asleep"}
  BY DEF ThrottleInv, Queued
<1> QED BY <1>1, <1>2

\* After the answer nobody is in the queue or asleep who was not before.
LEMMA TooManyInv ==
  ASSUME ThrottleInv, NEW c \in Caller, TooMany(c)
  PROVE  ThrottleInv'
<1>1. /\ queue' = queue /\ since' = since /\ sleep' = sleep /\ tries' = tries
      /\ call[c] = "sent" /\ tries[c] < Attempts
      /\ queue \in Seq(Caller)
      /\ call' = [call EXCEPT ![c] = "backoff"]
      /\ call \in [Caller -> CallState]
  BY DEF TooMany, MayRetry, ThrottleInv, ThrottleTypeOK
<1>2. /\ call'[c] = "backoff"
      /\ \A d \in Caller : d # c => call'[d] = call[d]
      /\ call' \in [Caller -> CallState]
  BY <1>1 DEF CallState
<1>3. \A i \in 1 .. Len(queue) : queue[i] \in Caller /\ queue[i] # c
  BY <1>1, SentIsOut
<1>4. ThrottleTypeOK'
  BY <1>1, <1>2 DEF ThrottleInv, ThrottleTypeOK
<1>5. Queued'
  <2>1. \A i \in 1 .. Len(queue) : call'[queue[i]] \in {"queued", "asleep"}
    BY <1>2, <1>3 DEF ThrottleInv, Queued
  <2>2. \A d \in Caller :
          call'[d] \in {"queued", "asleep"} => call[d] \in {"queued", "asleep"}
    BY <1>1, <1>2
  <2> QED BY <2>1, <2>2, <1>1 DEF ThrottleInv, Queued
<1>6. SleepsRest' /\ Left'
  BY <1>1, <1>2 DEF ThrottleInv, SleepsRest, Left
<1> QED BY <1>4, <1>5, <1>6 DEF ThrottleInv

LEMMA ReturnInv ==
  ASSUME ThrottleInv, NEW c \in Caller, Return(c)
  PROVE  ThrottleInv'
<1>1. /\ queue' = queue /\ since' = since /\ sleep' = sleep
      /\ call[c] = "sent" /\ queue \in Seq(Caller)
      /\ call' = [call EXCEPT ![c] = "idle"]
      /\ tries' = [tries EXCEPT ![c] = 0]
      /\ call \in [Caller -> CallState]
      /\ tries \in [Caller -> 0 .. Attempts]
  BY DEF Return, ThrottleInv, ThrottleTypeOK
<1>2. /\ call'[c] = "idle" /\ tries'[c] = 0
      /\ \A d \in Caller : d # c => call'[d] = call[d] /\ tries'[d] = tries[d]
      /\ call' \in [Caller -> CallState]
  BY <1>1 DEF CallState
<1>3. \A i \in 1 .. Len(queue) : queue[i] \in Caller /\ queue[i] # c
  BY <1>1, SentIsOut
<1>4. ThrottleTypeOK'
  <2>1. tries' \in [Caller -> 0 .. Attempts]
    BY <1>1, ThrottleAssumption
  <2> QED BY <2>1, <1>1, <1>2 DEF ThrottleInv, ThrottleTypeOK
<1>5. Queued'
  <2>1. \A i \in 1 .. Len(queue) : call'[queue[i]] \in {"queued", "asleep"}
    BY <1>2, <1>3 DEF ThrottleInv, Queued
  <2>2. \A d \in Caller :
          call'[d] \in {"queued", "asleep"} => call[d] \in {"queued", "asleep"}
    BY <1>1, <1>2
  <2> QED BY <2>1, <2>2, <1>1 DEF ThrottleInv, Queued
<1>6. SleepsRest'
  BY <1>1, <1>2 DEF ThrottleInv, SleepsRest
<1>7. Left'
  BY <1>2, ThrottleAssumption DEF ThrottleInv, Left
<1> QED BY <1>4, <1>5, <1>6, <1>7 DEF ThrottleInv

\* Time passes for the interval and for the sleeper alike.
LEMMA TickInv ==
  ASSUME ThrottleInv, Tick
  PROVE  ThrottleInv'
<1>1. /\ queue' = queue /\ call' = call /\ tries' = tries
      /\ since \in 0 .. Interval
      /\ since' = IF since < Interval THEN since + 1 ELSE since
      /\ sleep' = [c \in Caller |-> IF sleep[c] > 0 THEN sleep[c] - 1 ELSE 0]
      /\ \A c \in Caller : sleep[c] \in 0 .. Interval
  BY DEF Tick, ThrottleInv, ThrottleTypeOK
<1>2. \A c \in Caller :
        sleep'[c] = IF sleep[c] > 0 THEN sleep[c] - 1 ELSE 0
  BY <1>1
<1>3. ThrottleTypeOK'
  <2>1. since' \in 0 .. Interval
    BY <1>1, ThrottleAssumption
  <2>2. \A c \in Caller :
          (IF sleep[c] > 0 THEN sleep[c] - 1 ELSE 0) \in 0 .. Interval
    BY <1>1, ThrottleAssumption
  <2>3. sleep' \in [Caller -> 0 .. Interval]
    BY <2>2, <1>1
  <2> QED BY <2>1, <2>3, <1>1 DEF ThrottleInv, ThrottleTypeOK
<1>4. Queued' /\ Left'
  BY <1>1 DEF ThrottleInv, Queued, Left
<1>5. SleepsRest'
  <2> SUFFICES ASSUME NEW c \in Caller, call'[c] = "asleep"
               PROVE  /\ Len(queue') > 0 /\ queue'[1] = c
                      /\ sleep'[c] + since' = Interval
    BY DEF SleepsRest
  <2>1. Len(queue) > 0 /\ queue[1] = c /\ sleep[c] + since = Interval
    BY <1>1 DEF ThrottleInv, SleepsRest
  <2> QED BY <2>1, <1>1, <1>2, ThrottleAssumption
<1> QED BY <1>3, <1>4, <1>5 DEF ThrottleInv

-----------------------------------------------------------------------------
LEMMA ThrottleInitInv ==
  ThrottleInit => ThrottleInv
<1> SUFFICES ASSUME ThrottleInit
             PROVE  ThrottleInv
  OBVIOUS
<1>1. queue = <<>> /\ Len(queue) = 0
  BY DEF ThrottleInit
<1>2. \A c \in Caller : call[c] = "idle" /\ tries[c] = 0
  BY DEF ThrottleInit
<1>3. ThrottleTypeOK
  BY ThrottleAssumption DEF ThrottleInit, ThrottleTypeOK, CallState
<1> QED BY <1>1, <1>2, <1>3, ThrottleAssumption
        DEF ThrottleInv, Queued, SleepsRest, Left

LEMMA ThrottleStepInv ==
  ThrottleInv /\ [ThrottleNext]_throttleVars => ThrottleInv'
<1> SUFFICES ASSUME ThrottleInv, [ThrottleNext]_throttleVars
             PROVE  ThrottleInv'
  OBVIOUS
<1>1. ASSUME NEW c \in Caller, Start(c) \/ Retry(c)
      PROVE  ThrottleInv'
  BY <1>1, EnterInv DEF Start, Retry
<1>2. ASSUME NEW c \in Caller, SendAtOnce(c) \/ FallAsleep(c) \/ Wake(c)
      PROVE  ThrottleInv'
  BY <1>2, SendAtOnceInv, FallAsleepInv, WakeInv
<1>3. ASSUME NEW c \in Caller, TooMany(c) \/ Return(c)
      PROVE  ThrottleInv'
  BY <1>3, TooManyInv, ReturnInv
<1>4. CASE UNCHANGED throttleVars
  <2>1. /\ queue' = queue /\ since' = since /\ sleep' = sleep
        /\ call' = call /\ tries' = tries
    BY <1>4 DEF throttleVars
  <2> QED BY <2>1 DEF ThrottleInv, ThrottleTypeOK, Queued, SleepsRest, Left
<1> QED BY <1>1, <1>2, <1>3, <1>4, TickInv DEF ThrottleNext, ThrottleStep

\* Of the steps of the throttle only two send a request.
LEMMA StepIsSpaced ==
  ASSUME ThrottleInv, [ThrottleNext]_throttleVars, NEW c \in Caller,
         call[c] # "sent", call'[c] = "sent"
  PROVE  since = Interval
<1>1. call \in [Caller -> CallState] /\ call' # call
  BY DEF ThrottleInv, ThrottleTypeOK
<1>2. PICK d \in Caller : Start(d) \/ ThrottleStep(d) \/ Return(d)
  BY <1>1 DEF ThrottleNext, throttleVars, Tick
<1>3. CASE SendAtOnce(d)
  BY <1>3 DEF SendAtOnce
<1>4. CASE Wake(d)
  <2>1. call[d] = "asleep" /\ sleep[d] = 0
    BY <1>4 DEF Wake
  <2>2. sleep[d] + since = Interval /\ since \in 0 .. Interval
    BY <2>1 DEF ThrottleInv, SleepsRest, ThrottleTypeOK
  <2> QED BY <2>1, <2>2, ThrottleAssumption
<1>5. CASE Start(d) \/ Retry(d)
  BY <1>1, <1>5 DEF Start, Retry, Enter
<1>6. CASE FallAsleep(d) \/ TooMany(d) \/ Return(d)
  BY <1>1, <1>6 DEF FallAsleep, TooMany, Return
<1> QED BY <1>2, <1>3, <1>4, <1>5, <1>6 DEF ThrottleStep

\* The collection of reports uses the throttle by its steps only.
LEMMA NextIsThrottle ==
  [Next]_vars => [ThrottleNext]_throttleVars
<1> SUFFICES ASSUME [Next]_vars
             PROVE  [ThrottleNext]_throttleVars
  OBVIOUS
<1>1. ASSUME NEW c \in Caller, CallerStep(c)
      PROVE  ThrottleNext
  BY <1>1 DEF CallerStep, TronPage, TronError, ThrottleNext
<1>2. ASSUME JobStep
      PROVE  ThrottleNext \/ UNCHANGED throttleVars
  BY <1>2 DEF JobStep, AskFirst, AskRest, EtherPage, PoolPage, ChainPage, Fail,
              ThrottleNext
<1>3. ASSUME NEW n \in Network, NEW items \in Limits,
             NEW from \in 0 .. Pending, NEW until \in 0 .. Pending,
             Ask(n, items, from, until)
      PROVE  UNCHANGED throttleVars
  BY <1>3 DEF Ask
<1>4. ASSUME NEW s \in Stream, Appear(s)
      PROVE  UNCHANGED throttleVars
  BY <1>4 DEF Appear
<1>5. CASE Time
  BY <1>5 DEF Time, ThrottleNext
<1>6. CASE UNCHANGED vars
  BY <1>6 DEF vars, throttleVars
<1> QED BY <1>1, <1>2, <1>3, <1>4, <1>5, <1>6 DEF Next

\* A report is collected through the throttle: every behaviour of Collection
\* is one of it.
THEOREM CollectionIsThrottled == Spec => ThrottleSpec
<1>1. Init => ThrottleInit
  BY DEF Init
<1> QED BY <1>1, NextIsThrottle, PTL DEF Spec, ThrottleSpec

\* The state of the throttle keeps its type: attempts and sleeps stay within
\* their bounds (clients.py:49-61).
THEOREM ThrottleTypeCorrect == Spec => []ThrottleTypeOK
<1>1. Init => ThrottleInit
  BY DEF Init
<1>2. ThrottleInv => ThrottleTypeOK
  BY DEF ThrottleInv
<1> QED BY <1>1, <1>2, NextIsThrottle, ThrottleInitInv, ThrottleStepInv, PTL
        DEF Spec

\* Two requests are an interval apart while reports are collected, whatever
\* else happens (clients.py:28-39).
THEOREM SpacedCorrect == Spec => Spaced
<1>1. Init => ThrottleInit
  BY DEF Init
<1>2. ThrottleInv /\ [ThrottleNext]_throttleVars
        => [\A c \in Caller :
              call[c] # "sent" /\ call'[c] = "sent" => since = Interval]_throttleVars
  BY StepIsSpaced
<1> QED BY <1>1, <1>2, NextIsThrottle, ThrottleInitInv, ThrottleStepInv, PTL
        DEF Spec, Spaced

-----------------------------------------------------------------------------
(***************************************************************************)
(* The report.                                                             *)
(***************************************************************************)
\* A caller has an offset while its call is out.
Calls == \A c \in Caller : offset[c] = NoOffset <=> call[c] = "idle"

\* A transfer is in one stream.
Numbered ==
  /\ \A s \in Stream : chain[s] \subseteq 1 .. clock
  /\ chain["coin"] \cap chain["token"] = {}

\* What a set of transfers has of the period.
Part(j, S) == {t \in S : InPeriod(j, t)}

Values(q) == {q[i] : i \in DOMAIN q}
News(q) == Values(q) \cap Transfer

\* Nothing has appeared by now, and the other conditions of a quiet report.
QuietTill(j, now) ==
  /\ now = j.asked
  /\ j.network = "ethereum" =>
       j.limit <= PageLimit[j.network] \/ j.limit % PageLimit[j.network] = 0
  /\ j.network = "bitcoin" => j.limit + j.pooled <= MaxItems

\* Nothing has appeared in the period by now, and the chain is asked at all.
Still(j, now) ==
  /\ \A t \in j.asked + 1 .. now : ~InPeriod(j, t)
  /\ j.network = "bitcoin" => j.pooled < MaxItems

\* The rows q of a stream S.
Rows(j, q, S) ==
  \A i \in DOMAIN q :
    \/ q[i] \in S /\ (j.network = "tron" => InPeriod(j, q[i]))
    \/ q[i] = Pending /\ j.network = "bitcoin"

Whole(j, q, S, now) == Still(j, now) => j.truncated \/ Part(j, S) \subseteq Values(q)

Distinct(q) == \A i, k \in DOMAIN q : q[i] = q[k] /\ q[i] # Pending => i = k

\* The transfers a network lists for the stream S.
Offered(j, S) == IF j.network = "tron" THEN Part(j, S) ELSE S

\* The newest of each of the streams F, as many as are looked at.
Top(j, q, F, now) ==
  QuietTill(j, now) =>
    /\ Distinct(q)
    /\ \E n \in Reach(j) : News(q) = UNION {Newest(Offered(j, S), n) : S \in F}

\* All that is needed of a stream when its last page is there.
Complete(j, q, S, now) == Rows(j, q, S) /\ Whole(j, q, S, now) /\ Top(j, q, {S}, now)

UnderWay == {"first", "rest", "page", "pool", "chain"}

Total(j) == Less(j.target, j.limit)

\* The other pages of Tronscan: a row is there, or its page is among the
\* offsets A still asked for.
RestPages(j, S, now, A) ==
  /\ j.target <= Cardinality(Offered(j, S)) /\ Len(j.raw) <= Total(j)
  /\ A \subseteq 0 .. Total(j) - 1
  /\ \A i \in 1 .. Total(j) :
       \/ i <= Len(j.raw) /\ j.raw[i] # 0
       \/ \E o \in A : o < i /\ i <= o + PageLimit[j.network]
  /\ \A i \in DOMAIN j.raw : j.raw[i] # 0 => j.raw[i] \in Offered(j, S)
  /\ Still(j, now) =>
       /\ j.target = Cardinality(Offered(j, S))
       /\ \A i \in DOMAIN j.raw : j.raw[i] # 0 => j.raw[i] = NewestFirst(Offered(j, S))[i]

\* The pages of Etherscan: what is not there yet has (page - 1) full pages
\* before it.
NumberedPages(j, S, now) ==
  /\ j.page \in Nat \ {0} /\ Len(j.raw) < j.limit
  /\ Rows(j, j.raw, S)
  /\ \A x \in S :
       x <= j.asked =>
         \/ x \in Values(j.raw)
         \/ Cardinality({y \in S : y > x}) >= (j.page - 1) * PageLimit[j.network]
  /\ QuietTill(j, now) =>
       /\ Len(j.raw) = (j.page - 1) * PageLimit[j.network]
       /\ Len(j.raw) <= Cardinality(S)
       /\ \A i \in DOMAIN j.raw : j.raw[i] = NewestFirst(S)[i]

\* The pages of Blockstream: n unconfirmed rows, then the chain in order.
LinkedPages(j, S, n) ==
  /\ n <= Len(j.raw) /\ j.target = Less(MaxItems, j.limit + n)
  /\ \A i \in 1 .. n : j.raw[i] = Pending
  /\ \A i \in n + 1 .. Len(j.raw) : j.raw[i] \in S
  /\ \A i, k \in n + 1 .. Len(j.raw) : i < k => j.raw[i] > j.raw[k]
  /\ \A x \in S :
       x <= j.asked /\ Len(j.raw) > n => x \in Values(j.raw) \/ x < j.raw[Len(j.raw)]

\* Offsets of the pages asked for or still to be asked for.
AskedFor == job.todo \cup {offset[c] : c \in {d \in Caller : offset[d] # NoOffset}}

Paged ==
  /\ job.pc = "first" =>
       /\ job.raw = <<>> /\ job.todo = {}
       /\ \A c, d \in Caller : offset[c] # NoOffset /\ offset[d] # NoOffset => c = d
  /\ job.pc = "rest" => RestPages(job, chain[job.stream], clock, AskedFor)
  /\ job.pc = "page" => NumberedPages(job, chain[job.stream], clock)
  /\ job.pc = "pool" => job.raw = <<>>
  /\ job.pc = "chain" =>
       /\ LinkedPages(job, chain[job.stream], job.pooled)
       /\ Len(job.raw) > job.pooled => Len(job.raw) < job.target
  /\ job.pc \notin {"first", "rest"} => job.todo = {}
  /\ job.pc \notin {"first", "rest", "failed"} => \A c \in Caller : offset[c] = NoOffset

NetworkOf(pc) ==
  IF pc \in {"first", "rest"} THEN "tron" ELSE IF pc = "page" THEN "ethereum" ELSE "bitcoin"

\* A report under way, with the stream before when it is at the second one.
Going(j, S, now) ==
  /\ j.network \in Network
  /\ j.limit \in Nat \ {0}
  /\ j.asked <= now
  /\ j.network # "tron" => j.until <= j.asked
  /\ j.network = "bitcoin" => j.stream = "coin"
  /\ IF j.stream = "coin" THEN j.got = <<>> ELSE Complete(j, j.got, S, now)

Collected ==
  /\ job.pc \in UnderWay => /\ Going(job, chain["coin"], clock)
                            /\ job.network = NetworkOf(job.pc)
  /\ job.pc = "done" => job.asked <= job.ended /\ job.ended <= clock /\ job.network \in Network

CollectTypeOK ==
  /\ chain \in [Stream -> SUBSET Transfer]
  /\ clock \in 0 .. MaxTx
  /\ job \in Job
  /\ offset \in [Caller -> (0 .. MaxTx) \cup {NoOffset}]
-----------------------------------------------------------------------------
(***************************************************************************)
(* Lists.                                                                  *)
(***************************************************************************)
\* Pages: what a slice of a list is.
LEMMA SliceIs ==
  ASSUME NEW V, NEW q \in Seq(V), NEW a \in Nat, NEW n \in Nat
  PROVE  /\ Slice(q, a, n) \in Seq(V)
         /\ Len(Slice(q, a, n)) = IF a >= Len(q) THEN 0 ELSE Less(n, Len(q) - a)
         /\ \A i \in 1 .. Len(Slice(q, a, n)) :
              a + i \in 1 .. Len(q) /\ Slice(q, a, n)[i] = q[a + i]
<1> DEFINE b == Less(a + n, Len(q))
           r == SubSeq(q, a + 1, b)
<1>1. Len(q) \in Nat /\ b \in Nat /\ b <= Len(q)
  BY DEF Less
<1>2. Slice(q, a, n) = r
  BY DEF Slice
<1>3. b - a = IF a >= Len(q) THEN Len(q) - a ELSE Less(n, Len(q) - a)
  BY <1>1 DEF Less
<1> HIDE DEF b
<1>4. \A i \in a + 1 .. b : q[i] \in V
  BY <1>1
<1>5. r \in Seq(V)
  BY <1>1, <1>4
<1>6. Len(r) = IF a + 1 <= b THEN b - a ELSE 0
  BY <1>1
<1>7. \A i \in 1 .. Len(r) : r[i] = q[a + i]
  BY <1>1
<1> HIDE DEF r
<1>8. Len(r) = IF a >= Len(q) THEN 0 ELSE Less(n, Len(q) - a)
  BY <1>1, <1>3, <1>6 DEF Less
<1>9. \A i \in 1 .. Len(r) : a + i \in 1 .. Len(q)
  BY <1>1, <1>6
<1> QED BY <1>2, <1>5, <1>7, <1>8, <1>9

LEMMA FirstIs ==
  ASSUME NEW V, NEW q \in Seq(V), NEW n \in Nat
  PROVE  /\ First(q, n) \in Seq(V)
         /\ Len(First(q, n)) = Less(n, Len(q))
         /\ \A i \in 1 .. Len(First(q, n)) : i \in 1 .. Len(q) /\ First(q, n)[i] = q[i]
<1>1. /\ First(q, n) \in Seq(V)
      /\ Len(First(q, n)) = IF 0 >= Len(q) THEN 0 ELSE Less(n, Len(q) - 0)
      /\ \A i \in 1 .. Len(First(q, n)) : 0 + i \in 1 .. Len(q) /\ First(q, n)[i] = q[0 + i]
  BY SliceIs, 0 \in Nat, Zenon DEF First
<1>2. Len(q) \in Nat
  OBVIOUS
<1> QED BY <1>1, <1>2 DEF Less

LEMMA SeqIs ==
  ASSUME NEW V, NEW q \in Seq(V)
  PROVE  Len(q) \in Nat /\ DOMAIN q = 1 .. Len(q) /\ \A i \in DOMAIN q : q[i] \in V
OBVIOUS

LEMMA SeqOf ==
  ASSUME NEW V, NEW n \in Nat, NEW q \in [1 .. n -> V]
  PROVE  q \in Seq(V) /\ Len(q) = n
OBVIOUS

LEMMA WiderSeq ==
  ASSUME NEW V, NEW W, V \subseteq W, NEW q \in Seq(V)
  PROVE  q \in Seq(W)
<1>1. Len(q) \in Nat /\ q \in [1 .. Len(q) -> V]
  OBVIOUS
<1>2. q \in [1 .. Len(q) -> W]
  BY <1>1
<1> QED BY <1>1, <1>2

\* Two lists one after the other.
LEMMA JoinedIs ==
  ASSUME NEW V, NEW q \in Seq(V), NEW r \in Seq(V)
  PROVE  /\ q \o r \in Seq(V)
         /\ Len(q \o r) = Len(q) + Len(r)
         /\ \A i \in 1 .. Len(q) : (q \o r)[i] = q[i]
         /\ \A i \in 1 .. Len(r) : (q \o r)[Len(q) + i] = r[i]
OBVIOUS

\* Every row from the n-th on is on a page that begins at a multiple of the
\* page's length.
LEMMA PageOf ==
  ASSUME NEW P \in Nat \ {0}, NEW n \in Nat, NEW i \in Nat, n <= i
  PROVE  \E o \in Nat : n <= o /\ o <= i /\ i < o + P /\ (o - n) % P = 0
<1> DEFINE r == (i - n) % P
           k == (i - n) \div P
<1>1. r \in 0 .. P - 1 /\ k \in Nat /\ i - n = P * k + r
  OBVIOUS
<1>2. (P * k) % P = 0 /\ P * k \in Nat
  BY <1>1
<1>3. i - r \in Nat /\ i - r - n = P * k
  BY <1>1
<1> QED BY <1>1, <1>2, <1>3

\* The rows that come before row i.
Ahead(rows, K, i) == {k \in K : rows[k] > rows[i] \/ (rows[k] = rows[i] /\ k < i)}

\* Rows at a finite number of positions.
Listable(rows, K) == IsFiniteSet(K) /\ K \subseteq Int /\ \A k \in K : rows[k] \in Int

\* As many rows come before a row as its place says, and no two rows have one
\* place.
Ranked(rows, K) ==
  /\ Cardinality(K) \in Nat
  /\ \A i \in K : Cardinality(Ahead(rows, K, i)) \in 0 .. Cardinality(K) - 1
  /\ \A i, k \in K :
       k \in Ahead(rows, K, i) =>
         Cardinality(Ahead(rows, K, k)) < Cardinality(Ahead(rows, K, i))
  /\ \A i, k \in K : i # k => i \in Ahead(rows, K, k) \/ k \in Ahead(rows, K, i)
  /\ \A i, k \in K :
       Cardinality(Ahead(rows, K, i)) = Cardinality(Ahead(rows, K, k)) => i = k
  /\ \A n \in 1 .. Cardinality(K) :
       \E i \in K : Cardinality(Ahead(rows, K, i)) = n - 1

LEMMA RankedIs ==
  ASSUME NEW K, NEW rows, Listable(rows, K)
  PROVE  Ranked(rows, K)
<1> DEFINE N == Cardinality(K)
           Before(i) == Ahead(rows, K, i)
           rank == [i \in K |-> Cardinality(Before(i))]
<1> USE DEF Listable
<1>1. N \in Nat
  BY FS_CardinalityType
<1>2. ASSUME NEW i \in K
      PROVE  /\ IsFiniteSet(Before(i)) /\ i \notin Before(i)
             /\ Cardinality(Before(i)) \in 0 .. N - 1
  <2>1. i \notin Before(i) /\ Before(i) \in SUBSET (K \ {i})
    BY DEF Ahead
  <2> HIDE DEF Before
  <2>2. IsFiniteSet(K \ {i}) /\ Cardinality(K \ {i}) = N - 1
    BY FS_RemoveElement
  <2>3. IsFiniteSet(Before(i)) /\ Cardinality(Before(i)) <= N - 1
    BY <2>1, <2>2, FS_Subset
  <2>4. Cardinality(Before(i)) \in Nat
    BY <2>3, FS_CardinalityType
  <2> QED BY <1>1, <2>1, <2>3, <2>4
<1>3. ASSUME NEW i \in K, NEW k \in K, k \in Before(i)
      PROVE  Cardinality(Before(k)) < Cardinality(Before(i))
  <2>1. Before(k) \in SUBSET (Before(i) \ {k})
    <3> SUFFICES ASSUME NEW y \in Before(k) PROVE y \in Before(i) /\ y # k
      BY DEF Ahead
    <3>1. /\ y \in K /\ rows[y] \in Int /\ rows[k] \in Int /\ rows[i] \in Int
          /\ y \in Int /\ k \in Int /\ i \in Int
      BY DEF Ahead
    <3>2. rows[y] > rows[k] \/ (rows[y] = rows[k] /\ y < k)
      BY DEF Ahead
    <3>3. rows[k] > rows[i] \/ (rows[k] = rows[i] /\ k < i)
      BY <1>3 DEF Ahead
    <3>4. y # k /\ (rows[y] > rows[i] \/ (rows[y] = rows[i] /\ y < i))
      BY <3>1, <3>2, <3>3
    <3> QED BY <3>1, <3>4 DEF Ahead
  <2> HIDE DEF Before
  <2>2. /\ IsFiniteSet(Before(i) \ {k})
        /\ Cardinality(Before(i) \ {k}) = Cardinality(Before(i)) - 1
    BY <1>2, <1>3, FS_RemoveElement
  <2>3. Cardinality(Before(k)) <= Cardinality(Before(i)) - 1
    BY <2>1, <2>2, FS_Subset
  <2> QED BY <1>1, <1>2, <2>3
<1>4. \A i, k \in K : i # k => i \in Before(k) \/ k \in Before(i)
  BY DEF Ahead
<1> HIDE DEF Before
<1>5. \A i, k \in K : Cardinality(Before(i)) = Cardinality(Before(k)) => i = k
  BY <1>2, <1>3, <1>4
<1>6. \A n \in 1 .. N : \E i \in K : Cardinality(Before(i)) = n - 1
  <2>1. rank \in Injection(K, 0 .. N - 1)
    BY <1>2, <1>5 DEF Injection, IsInjective
  <2>2. IsFiniteSet(0 .. N - 1) /\ Cardinality(0 .. N - 1) = N
    <3>1. 0 \in Int /\ N - 1 \in Int /\ ~(0 > N - 1) => N - 1 - 0 + 1 = N
      BY <1>1
    <3>2. 0 \in Int /\ N - 1 \in Int /\ (0 > N - 1 => N = 0)
      BY <1>1
    <3> HIDE DEF N
    <3> QED BY <3>1, <3>2, FS_Interval
  <2>3. rank \in Surjection(K, 0 .. N - 1)
    BY <2>1, <2>2, FS_Injection
  <2>4. \A m \in 0 .. N - 1 : \E i \in K : rank[i] = m
    BY <2>3 DEF Surjection
  <2> QED BY <1>1, <2>4
<1> QED BY <1>1, <1>2, <1>3, <1>4, <1>5, <1>6 DEF Before, Ranked

\* InOrder arranges the rows it keeps: each of them once, the newest first.
Arranged(rows, K) ==
  /\ Cardinality(K) \in Nat
  /\ \E p \in [1 .. Cardinality(K) -> K] :
       /\ InOrder(rows, K) = [n \in 1 .. Cardinality(K) |-> rows[p[n]]]
       /\ \A k \in K : \E n \in 1 .. Cardinality(K) : p[n] = k
       /\ \A m, n \in 1 .. Cardinality(K) :
            m < n => \/ rows[p[m]] > rows[p[n]]
                     \/ rows[p[m]] = rows[p[n]] /\ p[m] < p[n]

LEMMA ArrangedIs ==
  ASSUME NEW K, NEW rows, Listable(rows, K)
  PROVE  Arranged(rows, K)
<1> DEFINE N == Cardinality(K)
           Before(i) == Ahead(rows, K, i)
           p == [n \in 1 .. N |-> CHOOSE i \in K : Cardinality(Before(i)) = n - 1]
<1>1. /\ N \in Nat
      /\ \A i \in K : Cardinality(Before(i)) \in 0 .. N - 1
      /\ \A i, k \in K :
           k \in Before(i) => Cardinality(Before(k)) < Cardinality(Before(i))
      /\ \A i, k \in K : i # k => i \in Before(k) \/ k \in Before(i)
      /\ \A i, k \in K : Cardinality(Before(i)) = Cardinality(Before(k)) => i = k
      /\ \A n \in 1 .. N : \E i \in K : Cardinality(Before(i)) = n - 1
  BY RankedIs DEF Ranked
<1>2. InOrder(rows, K) = [n \in 1 .. N |-> rows[p[n]]]
  BY DEF InOrder, Ahead
<1> HIDE DEF Before
<1>3. \A n \in 1 .. N : p[n] \in K /\ Cardinality(Before(p[n])) = n - 1
  BY <1>1
<1>4. p \in [1 .. N -> K]
  BY <1>3
<1> HIDE DEF p
<1>5. \A k \in K : \E n \in 1 .. N : p[n] = k
  <2> SUFFICES ASSUME NEW k \in K PROVE \E n \in 1 .. N : p[n] = k
    OBVIOUS
  <2> DEFINE n == Cardinality(Before(k)) + 1
  <2>1. n \in 1 .. N /\ n - 1 = Cardinality(Before(k))
    BY <1>1
  <2>2. p[n] \in K /\ Cardinality(Before(p[n])) = Cardinality(Before(k))
    BY <1>3, <2>1
  <2> QED BY <1>1, <2>1, <2>2
<1>6. ASSUME NEW m \in 1 .. N, NEW n \in 1 .. N, m < n
      PROVE  \/ rows[p[m]] > rows[p[n]]
             \/ rows[p[m]] = rows[p[n]] /\ p[m] < p[n]
  <2>1. /\ p[m] \in K /\ Cardinality(Before(p[m])) = m - 1
        /\ p[n] \in K /\ Cardinality(Before(p[n])) = n - 1
    BY <1>3
  <2>2. m - 1 < n - 1 /\ ~(n - 1 < m - 1) /\ m - 1 # n - 1
    BY <1>1, <1>6
  <2>3. p[m] # p[n] /\ p[n] \notin Before(p[m])
    BY <1>1, <2>1, <2>2, Zenon
  <2>4. p[m] \in Before(p[n])
    BY <1>1, <2>1, <2>3
  <2> QED BY <2>4 DEF Before, Ahead
<1> QED BY <1>1, <1>2, <1>4, <1>5, <1>6 DEF Arranged

\* A list in falling order has i - 1 members before its i-th.
LEMMA RankIs ==
  ASSUME NEW q \in Seq(Int), \A i, k \in 1 .. Len(q) : i < k => q[i] > q[k]
  PROVE  /\ IsFiniteSet(Values(q)) /\ Cardinality(Values(q)) = Len(q)
         /\ \A i \in 1 .. Len(q) : Cardinality({y \in Values(q) : y > q[i]}) = i - 1
<1>1. Len(q) \in Nat /\ DOMAIN q = 1 .. Len(q) /\ \A i \in 1 .. Len(q) : q[i] \in Int
  OBVIOUS
<1>2. ASSUME NEW n \in 0 .. Len(q)
      PROVE  /\ IsFiniteSet({q[i] : i \in 1 .. n})
             /\ Cardinality({q[i] : i \in 1 .. n}) = n
  <2> DEFINE f == [i \in 1 .. n |-> q[i]]
             S == {q[i] : i \in 1 .. n}
  <2>1. n \in Nat /\ \A i \in 1 .. n : i \in 1 .. Len(q)
    BY <1>1
  <2>2. f \in [1 .. n -> S] /\ \A y \in S : \E i \in 1 .. n : f[i] = y
    OBVIOUS
  <2>3. \A i, k \in 1 .. n : f[i] = f[k] => i = k
    BY <1>1, <2>1
  <2> HIDE DEF f, S
  <2>4. f \in Bijection(1 .. n, S)
    BY <2>2, <2>3 DEF Bijection, Injection, IsInjective, Surjection
  <2>5. ExistsBijection(1 .. n, S)
    BY <2>4 DEF ExistsBijection
  <2>6. IsFiniteSet(S)
    BY <2>1, <2>5, FS_NatBijection
  <2> QED BY <2>1, <2>5, <2>6, FS_CountingElements DEF S
<1>3. Values(q) = {q[i] : i \in 1 .. Len(q)}
  BY <1>1 DEF Values
<1>4. ASSUME NEW i \in 1 .. Len(q)
      PROVE  Cardinality({y \in Values(q) : y > q[i]}) = i - 1
  <2>1. i - 1 \in 0 .. Len(q)
    BY <1>1
  <2>2. {y \in Values(q) : y > q[i]} = {q[k] : k \in 1 .. i - 1}
    <3>1. \A k \in 1 .. Len(q) : q[k] > q[i] <=> k < i
      BY <1>1
    <3>2. \A k : k \in 1 .. i - 1 <=> k \in 1 .. Len(q) /\ k < i
      BY <1>1
    <3> QED BY <1>3, <3>1, <3>2
  <2> QED BY <1>2, <2>1, <2>2
<1>5. Len(q) \in 0 .. Len(q)
  BY <1>1
<1> QED BY <1>2, <1>3, <1>4, <1>5

\* The list of a set of transfers.
LEMMA NewestFirstIs ==
  ASSUME NEW S, S \subseteq Int, IsFiniteSet(S)
  PROVE  /\ Cardinality(S) \in Nat
         /\ NewestFirst(S) \in Seq(S)
         /\ Len(NewestFirst(S)) = Cardinality(S)
         /\ \A i, k \in 1 .. Cardinality(S) :
              i < k => NewestFirst(S)[i] > NewestFirst(S)[k]
         /\ \A x \in S : \E i \in 1 .. Cardinality(S) : NewestFirst(S)[i] = x
<1> DEFINE rows == [t \in S |-> t]
           N == Cardinality(S)
<1>1. \A k \in S : rows[k] \in Int /\ rows[k] = k
  OBVIOUS
<1>2. /\ N \in Nat
      /\ \E p \in [1 .. N -> S] :
           /\ InOrder(rows, S) = [n \in 1 .. N |-> rows[p[n]]]
           /\ \A k \in S : \E n \in 1 .. N : p[n] = k
           /\ \A m, n \in 1 .. N :
                m < n => \/ rows[p[m]] > rows[p[n]]
                         \/ rows[p[m]] = rows[p[n]] /\ p[m] < p[n]
  <2> HIDE DEF rows
  <2>1. Listable(rows, S)
    BY <1>1 DEF Listable
  <2>2. Arranged(rows, S)
    BY <2>1, ArrangedIs
  <2> QED BY <2>2 DEF Arranged
<1>3. NewestFirst(S) = InOrder(rows, S)
  <2> DEFINE A(x) == Cardinality(Ahead(rows, S, x))
             B(x) == Cardinality({y \in S : y > x})
  <2>1. \A x \in S : A(x) = B(x)
    <3>1. \A x \in S : Ahead(rows, S, x) = {y \in S : y > x}
      BY DEF Ahead
    <3> QED BY <3>1
  <2>2. \A i \in 1 .. N : \E x \in S : A(x) = i - 1
    <3> HIDE DEF rows
    <3>1. Listable(rows, S)
      BY <1>1 DEF Listable
    <3>2. Ranked(rows, S)
      BY <3>1, RankedIs
    <3> QED BY <3>2 DEF Ranked
  <2>3. NewestFirst(S) = [i \in 1 .. N |-> CHOOSE x \in S : B(x) = i - 1]
    BY DEF NewestFirst
  <2>4. InOrder(rows, S) = [i \in 1 .. N |-> rows[CHOOSE x \in S : A(x) = i - 1]]
    BY DEF InOrder, Ahead
  <2> HIDE DEF A, B
  <2>5. ASSUME NEW i \in 1 .. N
        PROVE  (CHOOSE x \in S : B(x) = i - 1) = rows[CHOOSE x \in S : A(x) = i - 1]
    <3>1. (CHOOSE x \in S : B(x) = i - 1) = (CHOOSE x \in S : A(x) = i - 1)
      BY <2>1
    <3>2. (CHOOSE x \in S : A(x) = i - 1) \in S
      BY <2>2
    <3> QED BY <1>1, <3>1, <3>2
  <2> QED BY <2>3, <2>4, <2>5
<1>4. PICK p \in [1 .. N -> S] :
           /\ InOrder(rows, S) = [n \in 1 .. N |-> rows[p[n]]]
           /\ \A k \in S : \E n \in 1 .. N : p[n] = k
           /\ \A m, n \in 1 .. N :
                m < n => \/ rows[p[m]] > rows[p[n]]
                         \/ rows[p[m]] = rows[p[n]] /\ p[m] < p[n]
  BY <1>2
<1>5. NewestFirst(S) = p
  BY <1>1, <1>3, <1>4
<1>6. \A m, n \in 1 .. N : m < n => p[m] > p[n]
  <2> SUFFICES ASSUME NEW m \in 1 .. N, NEW n \in 1 .. N, m < n PROVE p[m] > p[n]
    OBVIOUS
  <2>1. rows[p[m]] > rows[p[n]] \/ (rows[p[m]] = rows[p[n]] /\ p[m] < p[n])
    BY <1>4
  <2>2. p[m] \in S /\ p[n] \in S /\ p[m] \in Int /\ p[n] \in Int
    BY <1>4
  <2> QED BY <1>1, <2>1, <2>2
<1>7. N \in Nat /\ p \in Seq(S) /\ Len(p) = N
  BY <1>2, <1>4
<1> HIDE DEF rows
<1> QED BY <1>4, <1>5, <1>6, <1>7

\* A part of a set that leaves out only what has n newer ones in the part has
\* the same first n.
LEMMA HeadsAgree ==
  ASSUME NEW D, D \subseteq Int, IsFiniteSet(D), NEW n \in Nat,
         NEW q \in Seq(Int), \A i, k \in 1 .. Len(q) : i < k => q[i] > q[k],
         Values(q) \subseteq D,
         \A x \in D \ Values(q) : Cardinality({y \in Values(q) : y > x}) >= n
  PROVE  First(q, n) = First(NewestFirst(D), n)
<1> DEFINE L == NewestFirst(D)
           R == Values(q)
<1>1. /\ Cardinality(D) \in Nat /\ L \in Seq(D) /\ Len(L) = Cardinality(D)
      /\ \A i, k \in 1 .. Cardinality(D) : i < k => L[i] > L[k]
      /\ \A x \in D : \E i \in 1 .. Cardinality(D) : L[i] = x
  BY NewestFirstIs
<1>2. /\ IsFiniteSet(R) /\ Cardinality(R) = Len(q) /\ Len(q) \in Nat
      /\ \A i \in 1 .. Len(q) : Cardinality({y \in R : y > q[i]}) = i - 1
  BY RankIs
<1>3. /\ DOMAIN q = 1 .. Len(q) /\ \A i \in 1 .. Len(q) : q[i] \in Int /\ q[i] \in R
      /\ \A x \in R : \E i \in 1 .. Len(q) : q[i] = x
  BY DEF Values
<1>4. L \in Seq(Int) /\ Values(L) = D
  <2> HIDE DEF L
  <2>1. /\ DOMAIN L = 1 .. Cardinality(D) /\ Len(L) \in Nat
        /\ \A i \in 1 .. Cardinality(D) : L[i] \in D
    BY <1>1, SeqIs
  <2>2. L \in Seq(Int)
    BY <1>1, WiderSeq
  <2>3. Values(L) = D
    BY <1>1, <2>1 DEF Values
  <2> QED BY <2>2, <2>3
<1>5. \A i \in 1 .. Len(L) : Cardinality({y \in D : y > L[i]}) = i - 1
  <2> HIDE DEF L
  <2> QED BY <1>1, <1>4, RankIs
<1> HIDE DEF L, R
<1>6. ASSUME NEW x \in D \ R
      PROVE  n <= Len(q) /\ Cardinality({y \in R : y > x}) >= n
  <2>1. {y \in R : y > x} \in SUBSET R
    OBVIOUS
  <2>2. Cardinality({y \in R : y > x}) <= Len(q)
    BY <1>2, <2>1, FS_Subset
  <2>3. Cardinality({y \in R : y > x}) >= n
    BY DEF R
  <2>4. Cardinality({y \in R : y > x}) \in Nat
    BY <1>2, <2>1, FS_Subset, FS_CardinalityType
  <2> QED BY <1>2, <2>2, <2>3, <2>4
<1>7. ASSUME NEW i \in 1 .. Len(q), i <= n
      PROVE  i \in 1 .. Len(L) /\ L[i] = q[i]
  <2>1. q[i] \in D /\ q[i] \in Int
    BY <1>3 DEF R
  <2>2. PICK k \in 1 .. Cardinality(D) : L[k] = q[i]
    BY <1>1, <2>1
  <2>3. {y \in D : y > q[i]} = {y \in R : y > q[i]}
    <3> SUFFICES ASSUME NEW y \in D \ R, y > q[i] PROVE FALSE
      BY DEF R
    <3>1. /\ {z \in R : z > y} \in SUBSET {z \in R : z > q[i]}
          /\ {z \in R : z > q[i]} \in SUBSET R
      <4>1. y \in Int /\ q[i] \in Int /\ \A z \in R : z \in Int
        BY <2>1 DEF R
      <4>2. \A z \in R : z > y => z > q[i]
        BY <4>1
      <4> QED BY <4>2
    <3>2. IsFiniteSet({z \in R : z > q[i]})
      BY <1>2, <3>1, FS_Subset
    <3>3. IsFiniteSet({z \in R : z > y})
      BY <3>1, <3>2, FS_Subset
    <3>4. Cardinality({z \in R : z > y}) <= Cardinality({z \in R : z > q[i]})
      BY <3>1, <3>2, FS_Subset
    <3>5. Cardinality({z \in R : z > y}) \in Nat
      BY <3>3, FS_CardinalityType
    <3>6. Cardinality({z \in R : z > q[i]}) = i - 1
      BY <1>2
    <3>7. Cardinality({z \in R : z > y}) >= n
      BY <1>6
    <3> QED BY <1>2, <1>7, <3>4, <3>5, <3>6, <3>7
  <2>4. k - 1 = i - 1
    BY <1>1, <1>2, <1>5, <2>2, <2>3
  <2> QED BY <1>1, <2>2, <2>4
<1>8. Less(n, Len(q)) = Less(n, Len(L))
  <2>1. CASE D = R
    BY <1>1, <1>2, <2>1
  <2>2. CASE D # R
    <3>1. n <= Len(q)
      BY <1>6, <2>2 DEF R
    <3>2. Cardinality(R) <= Cardinality(D)
      BY FS_Subset DEF R
    <3> QED BY <1>1, <1>2, <3>1, <3>2 DEF Less
  <2> QED BY <2>1, <2>2
<1>9. /\ First(q, n) \in Seq(Int) /\ Len(First(q, n)) = Less(n, Len(q))
      /\ \A i \in 1 .. Len(First(q, n)) : i \in 1 .. Len(q) /\ First(q, n)[i] = q[i]
  BY FirstIs
<1>10. /\ First(L, n) \in Seq(Int) /\ Len(First(L, n)) = Less(n, Len(L))
       /\ \A i \in 1 .. Len(First(L, n)) : i \in 1 .. Len(L) /\ First(L, n)[i] = L[i]
  BY <1>4, FirstIs
<1>11. \A i \in 1 .. Less(n, Len(q)) : First(q, n)[i] = First(L, n)[i]
  <2> SUFFICES ASSUME NEW i \in 1 .. Less(n, Len(q)) PROVE First(q, n)[i] = First(L, n)[i]
    OBVIOUS
  <2>1. i \in 1 .. Len(q) /\ i <= n
    BY <1>2 DEF Less
  <2> QED BY <1>7, <1>8, <1>9, <1>10, <2>1
<1>12. First(q, n) = First(L, n)
  BY <1>8, <1>9, <1>10, <1>11
<1> QED BY <1>12 DEF L

\* The rows q are the first of the list of S.
Leads(q, S) ==
  Len(q) <= Cardinality(S) /\ \A i \in 1 .. Len(q) : q[i] = NewestFirst(S)[i]

\* They leave out only what has all of them before it.
TopOf(q, S) ==
  /\ Values(q) \subseteq S
  /\ \A i, k \in 1 .. Len(q) : i < k => q[i] > q[k]
  /\ Len(q) = Cardinality(S) => Values(q) = S
  /\ \A x \in S \ Values(q) :
       /\ {y \in Values(q) : y > x} = Values(q)
       /\ Cardinality({y \in Values(q) : y > x}) = Len(q)

LEMMA PrefixIsTop ==
  ASSUME NEW S, S \subseteq Int, IsFiniteSet(S),
         NEW q \in Seq(Int), Leads(q, S)
  PROVE  TopOf(q, S)
<1> USE DEF Leads
<1> DEFINE L == NewestFirst(S)
<1>1. /\ Cardinality(S) \in Nat /\ L \in Seq(S) /\ Len(L) = Cardinality(S)
      /\ \A i, k \in 1 .. Cardinality(S) : i < k => L[i] > L[k]
      /\ \A x \in S : \E i \in 1 .. Cardinality(S) : L[i] = x
  BY NewestFirstIs
<1> HIDE DEF L
<1>2. \A i \in 1 .. Len(q) : q[i] = L[i] /\ i \in 1 .. Cardinality(S) /\ L[i] \in S
  BY <1>1 DEF L
<1>3. Len(q) \in Nat /\ DOMAIN q = 1 .. Len(q)
  OBVIOUS
<1>4. Values(q) \subseteq S /\ \A i, k \in 1 .. Len(q) : i < k => q[i] > q[k]
  BY <1>1, <1>2, <1>3 DEF Values
<1>5. Cardinality(Values(q)) = Len(q)
  BY <1>4, RankIs
<1>6. Len(q) = Cardinality(S) => Values(q) = S
  BY <1>4, <1>5, FS_Subset
<1>7. ASSUME NEW x \in S \ Values(q)
      PROVE  /\ {y \in Values(q) : y > x} = Values(q)
             /\ Cardinality({y \in Values(q) : y > x}) = Len(q)
  <2>1. PICK i \in 1 .. Cardinality(S) : L[i] = x
    BY <1>1
  <2>2. i > Len(q)
    BY <1>1, <1>2, <1>3, <2>1 DEF Values
  <2>3. ASSUME NEW y \in Values(q) PROVE y > x
    <3>1. PICK k \in 1 .. Len(q) : q[k] = y
      BY <1>3 DEF Values
    <3>2. k \in 1 .. Cardinality(S) /\ k < i /\ L[k] = y
      BY <1>1, <1>2, <1>3, <2>2, <3>1
    <3> QED BY <1>1, <2>1, <3>2
  <2>4. {y \in Values(q) : y > x} = Values(q)
    BY <2>3
  <2> QED BY <1>5, <2>4
<1> QED BY <1>4, <1>6, <1>7 DEF TopOf

\* A merged list has the rows that count, in falling order.
LEMMA MergedIs ==
  ASSUME NEW j, NEW q \in Seq(1 .. Pending), MaxTx \in Nat
  PROVE  /\ Merged(j, q) \in Seq(1 .. Pending)
         /\ Values(Merged(j, q)) = {t \in Values(q) : Counts(j, t)}
         /\ (\A i, k \in DOMAIN q : q[i] = q[k] /\ Counts(j, q[i]) => i = k)
              => \A m, n \in 1 .. Len(Merged(j, q)) :
                   m < n => Merged(j, q)[m] > Merged(j, q)[n]
<1> DEFINE K == {i \in DOMAIN q : Counts(j, q[i])}
           N == Cardinality(K)
<1>1. Len(q) \in Nat /\ DOMAIN q = 1 .. Len(q) /\ \A i \in DOMAIN q : q[i] \in 1 .. Pending
  BY SeqIs
<1>2. K \in SUBSET (1 .. Len(q)) /\ \A i \in K : q[i] \in 1 .. Pending /\ q[i] \in Int
  BY <1>1 DEF Pending
<1>3. IsFiniteSet(1 .. Len(q))
  BY <1>1, FS_Interval
<1>4. IsFiniteSet(K) /\ K \subseteq Int
  <2> HIDE DEF K
  <2>1. 1 .. Len(q) \subseteq Int
    BY <1>1
  <2> QED BY <1>2, <1>3, <2>1, FS_Subset
<1>5. Merged(j, q) = InOrder(q, K)
  BY DEF Merged
<1>6. Values(q) = {q[i] : i \in DOMAIN q}
  BY DEF Values
<1>7. {t \in Values(q) : Counts(j, t)} = {q[i] : i \in K}
  BY <1>6
<1>8. \A i : i \in K <=> i \in DOMAIN q /\ Counts(j, q[i])
  OBVIOUS
<1> HIDE DEF K
<1>9. Arranged(q, K)
  BY <1>2, <1>4, ArrangedIs DEF Listable
<1>10. N \in Nat
  BY <1>9 DEF Arranged
<1>11. PICK p \in [1 .. N -> K] :
         /\ InOrder(q, K) = [n \in 1 .. N |-> q[p[n]]]
         /\ \A k \in K : \E n \in 1 .. N : p[n] = k
         /\ \A m, n \in 1 .. N :
              m < n => \/ q[p[m]] > q[p[n]]
                       \/ q[p[m]] = q[p[n]] /\ p[m] < p[n]
  BY <1>9 DEF Arranged
<1> DEFINE r == Merged(j, q)
<1>12. /\ r \in Seq(1 .. Pending) /\ Len(r) = N /\ DOMAIN r = 1 .. N
       /\ \A n \in 1 .. N : r[n] = q[p[n]] /\ p[n] \in K
  <2>1. r = [n \in 1 .. N |-> q[p[n]]]
    BY <1>5, <1>11
  <2>2. \A n \in 1 .. N : q[p[n]] \in 1 .. Pending /\ p[n] \in K
    BY <1>2, <1>11
  <2> HIDE DEF r, N
  <2> QED BY <1>10, <2>1, <2>2
<1> HIDE DEF r, N
<1>13. Values(r) = {q[i] : i \in K}
  <2>1. \A k \in K : \E n \in 1 .. N : r[n] = q[k]
    BY <1>11, <1>12
  <2>2. \A n \in 1 .. N : \E k \in K : r[n] = q[k]
    BY <1>12
  <2>3. Values(r) = {r[n] : n \in 1 .. N}
    BY <1>12 DEF Values
  <2>4. ASSUME NEW y \in Values(r) PROVE y \in {q[i] : i \in K}
    BY <2>2, <2>3
  <2>5. ASSUME NEW k \in K PROVE q[k] \in Values(r)
    BY <2>1, <2>3
  <2> QED BY <2>4, <2>5
<1>14. ASSUME \A i, k \in DOMAIN q : q[i] = q[k] /\ Counts(j, q[i]) => i = k,
              NEW m \in 1 .. N, NEW n \in 1 .. N, m < n
       PROVE  r[m] > r[n]
  <2>1. /\ p[m] \in K /\ p[n] \in K /\ p[m] \in Int /\ p[n] \in Int
        /\ r[m] = q[p[m]] /\ r[n] = q[p[n]]
    BY <1>4, <1>12
  <2>2. q[p[m]] > q[p[n]] \/ (q[p[m]] = q[p[n]] /\ p[m] < p[n])
    BY <1>11, <1>14
  <2>3. q[p[m]] = q[p[n]] => p[m] = p[n]
    BY <1>8, <1>14, <2>1
  <2> QED BY <2>1, <2>2, <2>3
<1> QED BY <1>7, <1>12, <1>13, <1>14 DEF r

\* What is needed of the rows q of all streams F.
Ready(j, q, F, now) ==
  /\ q \in Seq(1 .. Pending)
  /\ Rows(j, q, UNION F) /\ Whole(j, q, UNION F, now) /\ Top(j, q, F, now)

\* The transfers of the streams that are looked at, n of each.
Looked(j, F, n) == UNION {Newest(Offered(j, S), n) : S \in F}

\* The transfers of a report.
Own(j, S) == {t \in Part(j, S) : Counts(j, t)}

\* It has the newest of what is looked at.
IsExact(j, q, F) ==
  \E n \in Reach(j) :
    First(Merged(j, q), j.limit)
      = First(NewestFirst(Own(j, UNION F) \cap Looked(j, F, n)), j.limit)

\* The report made of the rows q of all streams.
LEMMA ReportIs ==
  ASSUME CollectAssumption, NEW now \in 0 .. MaxTx, NEW F, UNION F \subseteq 1 .. now,
         NEW j, j.limit \in Nat, j.from \in Nat, j.until \in Nat,
         j.network = "bitcoin" => j.until <= now,
         j.truncated \in BOOLEAN,
         NEW q, Ready(j, q, F, now)
  PROVE  /\ First(Merged(j, q), j.limit) \in Seq(1 .. Pending)
         /\ Still(j, now)
              => \/ j.truncated \/ Len(Merged(j, q)) > j.limit
                 \/ Own(j, UNION F) \subseteq Values(First(Merged(j, q), j.limit))
         /\ QuietTill(j, now) => IsExact(j, q, F)
<1> DEFINE r == Merged(j, q)
           R == Values(r)
           S == UNION F
<1>1. MaxTx \in Nat /\ Pending = MaxTx + 1 /\ q \in Seq(1 .. Pending)
  BY DEF CollectAssumption, Pending, Ready
<1>2. /\ r \in Seq(1 .. Pending)
      /\ R = {t \in Values(q) : Counts(j, t)}
      /\ (\A i, k \in DOMAIN q : q[i] = q[k] /\ Counts(j, q[i]) => i = k)
           => \A m, n \in 1 .. Len(r) : m < n => r[m] > r[n]
  <2>1. q \in Seq(1 .. Pending) /\ MaxTx \in Nat
    BY <1>1
  <2> QED BY <2>1, MergedIs
<1>3. Len(r) \in Nat /\ DOMAIN r = 1 .. Len(r) /\ R = {r[i] : i \in 1 .. Len(r)}
  <2> HIDE DEF r
  <2> QED BY <1>2, SeqIs DEF Values
<1>4. S \subseteq 1 .. now /\ S \subseteq Int /\ IsFiniteSet(Own(j, S))
  <2>1. IsFiniteSet(1 .. now) /\ 1 .. now \subseteq Int
    BY <1>1, FS_Interval
  <2>2. Own(j, S) \subseteq 1 .. now
    BY DEF Own, Part
  <2> QED BY <2>1, <2>2, FS_Subset
<1> HIDE DEF r, S
<1>5. /\ First(r, j.limit) \in Seq(1 .. Pending)
      /\ Len(First(r, j.limit)) = Less(j.limit, Len(r))
      /\ \A i \in 1 .. Len(First(r, j.limit)) :
           i \in 1 .. Len(r) /\ First(r, j.limit)[i] = r[i]
  BY <1>2, FirstIs
<1>6. ASSUME Still(j, now), ~j.truncated, ~(Len(r) > j.limit)
      PROVE  Own(j, S) \subseteq Values(First(r, j.limit))
  <2>1. Part(j, S) \subseteq Values(q)
    BY <1>6 DEF Ready, Whole, S
  <2>2. Own(j, S) \subseteq R
    BY <1>2, <2>1 DEF Own
  <2>3. /\ Len(First(r, j.limit)) = Len(r)
        /\ \A i \in 1 .. Len(r) : First(r, j.limit)[i] = r[i]
    BY <1>3, <1>5, <1>6 DEF Less
  <2>4. DOMAIN First(r, j.limit) = 1 .. Len(r)
    BY <1>5, <2>3, SeqIs
  <2>5. R \subseteq Values(First(r, j.limit))
    BY <1>3, <2>3, <2>4 DEF Values
  <2> QED BY <2>2, <2>5
<1>7. ASSUME QuietTill(j, now)
      PROVE  IsExact(j, q, F)
  <2>1. PICK n \in Reach(j) : News(q) = Looked(j, F, n)
    BY <1>7 DEF Ready, Top, Looked
  <2>2. ASSUME NEW i \in DOMAIN q, Counts(j, q[i])
        PROVE  q[i] \in Own(j, S) /\ q[i] \in News(q) /\ q[i] # Pending
    <3>1. CASE q[i] = Pending /\ j.network = "bitcoin"
      <4>1. InPeriod(j, Pending)
        BY <2>2, <3>1 DEF Counts
      <4> QED BY <1>1, <3>1, <4>1 DEF InPeriod
    <3>2. CASE q[i] \in S /\ (j.network = "tron" => InPeriod(j, q[i]))
      <4>1. q[i] \in 1 .. now
        BY <1>4, <3>2
      <4>2. q[i] # Pending /\ q[i] \in Transfer
        BY <1>1, <4>1 DEF Transfer
      <4>3. InPeriod(j, q[i])
        BY <2>2, <3>2 DEF Counts
      <4> QED BY <2>2, <3>2, <4>2, <4>3 DEF Own, Part, News, Values
    <3> QED BY <3>1, <3>2 DEF Ready, Rows, S
  <2>3. R = Own(j, S) \cap Looked(j, F, n)
    <3>1. R \subseteq Own(j, S) \cap News(q)
      BY <1>2, <2>2 DEF Values
    <3>2. Own(j, S) \cap News(q) \subseteq R
      BY <1>2 DEF Own, News
    <3> QED BY <2>1, <3>1, <3>2
  <2>4. \A m, l \in 1 .. Len(r) : m < l => r[m] > r[l]
    <3>1. \A i, k \in DOMAIN q : q[i] = q[k] /\ Counts(j, q[i]) => i = k
      BY <1>7, <2>2 DEF Distinct, Ready, Top
    <3> QED BY <1>2, <3>1
  <2>5. r \in Seq(Int) /\ j.limit \in Nat
    <3>1. 1 .. Pending \subseteq Int
      BY <1>1
    <3> QED BY <1>2, <3>1, WiderSeq
  <2> DEFINE D == Own(j, S) \cap Looked(j, F, n)
  <2>6. D \subseteq Int /\ IsFiniteSet(D)
    <3>1. D \subseteq Own(j, S) /\ Own(j, S) \subseteq S
      BY DEF Own, Part
    <3> QED BY <1>4, <3>1, FS_Subset
  <2>7. Values(r) \subseteq D /\ D \ Values(r) = {}
    BY <2>3
  <2> HIDE DEF D
  <2>8. First(r, j.limit) = First(NewestFirst(D), j.limit)
    BY <2>4, <2>5, <2>6, <2>7, HeadsAgree
  <2> QED BY <2>1, <2>8, Zenon DEF D, r, S, IsExact
<1> QED BY <1>5, <1>6, <1>7 DEF r, S

LEMMA RowsAreThere ==
  ASSUME CollectAssumption, NEW now \in 0 .. MaxTx, NEW S, S \subseteq 1 .. now,
         NEW j, NEW V, NEW q \in Seq(V), Rows(j, q, S)
  PROVE  q \in Seq(1 .. Pending)
<1>1. MaxTx \in Nat /\ Pending = MaxTx + 1
  BY DEF CollectAssumption, Pending
<1>2. /\ Len(q) \in Nat /\ DOMAIN q = 1 .. Len(q) /\ q \in [1 .. Len(q) -> V]
  BY SeqIs
<1>3. \A i \in 1 .. Len(q) : q[i] \in 1 .. Pending
  <2> SUFFICES ASSUME NEW i \in 1 .. Len(q) PROVE q[i] \in 1 .. Pending
    OBVIOUS
  <2>1. q[i] \in S \/ q[i] = Pending
    BY <1>2 DEF Rows
  <2>2. q[i] \in S => q[i] \in 1 .. now
    OBVIOUS
  <2> QED BY <1>1, <2>1, <2>2
<1>4. q \in [1 .. Len(q) -> 1 .. Pending]
  BY <1>2, <1>3
<1> QED BY <1>2, <1>4, SeqOf

\* The rows of one stream alone.
LEMMA OneStreamIsReady ==
  ASSUME CollectAssumption, NEW now \in 0 .. MaxTx, NEW S, S \subseteq 1 .. now,
         NEW j, NEW V, NEW q \in Seq(V), Complete(j, q, S, now)
  PROVE  Ready(j, q, {S}, now)
<1>1. UNION {S} = S
  OBVIOUS
<1> QED BY <1>1, RowsAreThere DEF Complete, Ready

\* The rows of two streams that have no transfer in common.
LEMMA TwoStreamsAreReady ==
  ASSUME CollectAssumption, NEW now \in 0 .. MaxTx,
         NEW A, A \subseteq 1 .. now, NEW B, B \subseteq 1 .. now, A \cap B = {},
         NEW j, j.network # "bitcoin", j.limit \in Nat, j.truncated \in BOOLEAN,
         NEW V, NEW a \in Seq(V), Complete(j, a, A, now),
         NEW W, NEW b \in Seq(W), Complete(j, b, B, now)
  PROVE  Ready(j, a \o b, {A, B}, now)
<1> DEFINE q == a \o b
           S == A \cup B
<1>1. a \in Seq(1 .. Pending) /\ b \in Seq(1 .. Pending)
  BY RowsAreThere DEF Complete
<1>2. /\ q \in Seq(1 .. Pending)
      /\ Len(q) = Len(a) + Len(b)
      /\ \A i \in 1 .. Len(a) : q[i] = a[i]
      /\ \A i \in 1 .. Len(b) : q[Len(a) + i] = b[i]
  BY <1>1, JoinedIs
<1>3. /\ Len(a) \in Nat /\ DOMAIN a = 1 .. Len(a)
      /\ Len(b) \in Nat /\ DOMAIN b = 1 .. Len(b)
  BY <1>1, SeqIs
<1> HIDE DEF q
<1>4. DOMAIN q = 1 .. Len(a) + Len(b)
  BY <1>2, <1>3, SeqIs
<1>5. ASSUME NEW i \in DOMAIN q
      PROVE  \/ i \in DOMAIN a /\ q[i] = a[i]
             \/ i - Len(a) \in DOMAIN b /\ q[i] = b[i - Len(a)] /\ i > Len(a)
  <2>1. CASE i <= Len(a)
    BY <1>2, <1>3, <1>4, <2>1
  <2>2. CASE i > Len(a)
    <3>1. i - Len(a) \in 1 .. Len(b) /\ Len(a) + (i - Len(a)) = i
      BY <1>3, <1>4, <2>2
    <3> QED BY <1>2, <1>3, <2>2, <3>1
  <2> QED BY <1>3, <1>4, <2>1, <2>2
<1>6. Values(q) = Values(a) \cup Values(b)
  <2>1. \A i \in DOMAIN a : i \in DOMAIN q /\ q[i] = a[i]
    BY <1>2, <1>3, <1>4
  <2>2. \A i \in DOMAIN b : Len(a) + i \in DOMAIN q /\ q[Len(a) + i] = b[i]
    BY <1>2, <1>3, <1>4
  <2> QED BY <1>5, <2>1, <2>2 DEF Values
<1>7. Part(j, S) = Part(j, A) \cup Part(j, B)
  BY DEF Part
<1>8. Rows(j, q, S)
  BY <1>5 DEF Complete, Rows
<1>9. Whole(j, q, S, now)
  BY <1>6, <1>7 DEF Complete, Whole
<1>10. ASSUME QuietTill(j, now) PROVE Distinct(q)
  <2> SUFFICES ASSUME NEW i \in DOMAIN q, NEW k \in DOMAIN q, q[i] = q[k], q[i] # Pending
               PROVE  i = k
    BY DEF Distinct
  <2>1. Distinct(a) /\ Distinct(b)
    BY <1>10 DEF Complete, Top
  <2>2. /\ \A n \in DOMAIN a : a[n] # Pending => a[n] \in A
        /\ \A n \in DOMAIN b : b[n] # Pending => b[n] \in B
    BY DEF Complete, Rows
  <2>3. CASE i \in DOMAIN a /\ q[i] = a[i]
    <3>1. q[k] \notin B
      BY <2>2, <2>3
    <3>2. k \in DOMAIN a /\ q[k] = a[k]
      BY <1>5, <2>2, <3>1
    <3> QED BY <2>1, <2>3, <3>2 DEF Distinct
  <2>4. CASE i - Len(a) \in DOMAIN b /\ q[i] = b[i - Len(a)] /\ i > Len(a)
    <3>1. q[k] \notin A
      BY <2>2, <2>4
    <3>2. k - Len(a) \in DOMAIN b /\ q[k] = b[k - Len(a)]
      BY <1>5, <2>2, <3>1
    <3>3. i - Len(a) = k - Len(a)
      BY <2>1, <2>4, <3>2 DEF Distinct
    <3> QED BY <1>3, <1>4, <3>3
  <2> QED BY <1>5, <2>3, <2>4
<1>11. ASSUME QuietTill(j, now)
       PROVE  \E n \in Reach(j) : News(q) = UNION {Newest(Offered(j, X), n) : X \in {A, B}}
  <2>1. /\ News(a) = Newest(Offered(j, A), j.limit)
        /\ News(b) = Newest(Offered(j, B), j.limit)
    <3>1. Reach(j) = {j.limit}
      BY DEF Reach
    <3>2. /\ \E n \in Reach(j) : News(a) = UNION {Newest(Offered(j, X), n) : X \in {A}}
          /\ \E n \in Reach(j) : News(b) = UNION {Newest(Offered(j, X), n) : X \in {B}}
      BY <1>11 DEF Complete, Top
    <3> QED BY <3>1, <3>2
  <2>2. News(q) = News(a) \cup News(b)
    BY <1>6 DEF News
  <2>3. j.limit \in Reach(j)
    BY DEF Reach
  <2>4. UNION {Newest(Offered(j, X), j.limit) : X \in {A, B}}
          = Newest(Offered(j, A), j.limit) \cup Newest(Offered(j, B), j.limit)
    OBVIOUS
  <2> QED BY <2>1, <2>2, <2>3, <2>4
<1>12. Top(j, q, {A, B}, now)
  BY <1>10, <1>11 DEF Top
<1>13. UNION {A, B} = S
  OBVIOUS
<1> QED BY <1>2, <1>8, <1>9, <1>12, <1>13 DEF Ready, q
-----------------------------------------------------------------------------
(***************************************************************************)
(* Pages.                                                                  *)
(***************************************************************************)
LEMMA OfferedIs ==
  ASSUME CollectAssumption, NEW now \in 0 .. MaxTx, NEW S, S \subseteq 1 .. now, NEW j
  PROVE  /\ IsFiniteSet(S) /\ S \subseteq Int
         /\ Cardinality(S) \in Nat /\ Cardinality(S) <= now
         /\ Offered(j, S) \subseteq S /\ Part(j, S) \subseteq Offered(j, S)
         /\ IsFiniteSet(Offered(j, S)) /\ Offered(j, S) \subseteq Int
         /\ Cardinality(Offered(j, S)) \in Nat /\ Cardinality(Offered(j, S)) <= now
<1>1. now \in Nat /\ 1 .. now \subseteq Int
  BY DEF CollectAssumption
<1>2. IsFiniteSet(1 .. now) /\ Cardinality(1 .. now) = now
  BY <1>1, FS_Interval
<1>3. ASSUME NEW T, T \subseteq 1 .. now
      PROVE  IsFiniteSet(T) /\ Cardinality(T) \in Nat /\ Cardinality(T) <= now
  <2>1. IsFiniteSet(T) /\ Cardinality(T) <= now
    BY <1>2, <1>3, FS_Subset
  <2>2. Cardinality(T) \in Nat
    BY <2>1, FS_CardinalityType
  <2> QED BY <1>1, <2>1, <2>2
<1>4. Offered(j, S) \subseteq S /\ Part(j, S) \subseteq Offered(j, S)
  BY DEF Offered, Part
<1> QED BY <1>1, <1>3, <1>4

\* Rows above all others of a set, n of them or all.
LEMMA NewestIs ==
  ASSUME NEW S, S \subseteq Int, IsFiniteSet(S), NEW R, R \subseteq S, NEW n \in Nat,
         \A x \in S \ R : \A y \in R : y > x,
         \/ Cardinality(R) = n
         \/ R = S /\ Cardinality(S) <= n
  PROVE  R = Newest(S, n)
<1> DEFINE Above(x) == {u \in S : u > x}
<1>1. Newest(S, n) = {x \in S : Cardinality(Above(x)) < n}
  BY DEF Newest
<1>2. IsFiniteSet(R) /\ Cardinality(R) \in Nat /\ Cardinality(S) \in Nat
  BY FS_Subset, FS_CardinalityType
<1>3. \A x : IsFiniteSet(Above(x)) /\ Cardinality(Above(x)) \in Nat
  <2> TAKE x
  <2>1. Above(x) \subseteq S
    OBVIOUS
  <2> QED BY <2>1, FS_Subset, FS_CardinalityType
<1>4. ASSUME NEW x \in R
      PROVE  Cardinality(Above(x)) < n
  <2>1. Above(x) \subseteq R /\ x \notin Above(x)
    <3>1. ASSUME NEW u \in Above(x) PROVE u \in R
      <4>1. u \in S /\ u \in Int /\ x \in Int /\ u > x
        BY <1>4
      <4>2. u \notin R => x > u
        BY <1>4, <4>1
      <4> QED BY <4>1, <4>2
    <3>2. x \notin Above(x)
      <4>1. x \in Int
        BY <1>4
      <4> QED BY <4>1
    <3> HIDE DEF Above
    <3> QED BY <3>1, <3>2
  <2>2. Above(x) # R
    BY <1>4, <2>1
  <2> HIDE DEF Above
  <2>3. Cardinality(Above(x)) <= Cardinality(R) /\ Cardinality(Above(x)) # Cardinality(R)
    BY <1>2, <2>1, <2>2, FS_Subset
  <2> QED BY <1>2, <1>3, <2>3
<1>5. ASSUME NEW x \in S \ R
      PROVE  Cardinality(Above(x)) >= n
  <2>1. R \subseteq Above(x) /\ Cardinality(R) = n
    BY <1>5
  <2> HIDE DEF Above
  <2>2. Cardinality(R) <= Cardinality(Above(x))
    BY <1>3, <2>1, FS_Subset
  <2> QED BY <2>1, <2>2
<1> HIDE DEF Above
<1>6. \A x \in S : x \in R <=> Cardinality(Above(x)) < n
  BY <1>3, <1>4, <1>5
<1> QED BY <1>1, <1>6

\* One stream.
LEMMA TopIs ==
  ASSUME NEW j, NEW q, NEW S, NEW now,
         QuietTill(j, now) =>
           /\ Distinct(q)
           /\ \E n \in Reach(j) : News(q) = Newest(Offered(j, S), n)
  PROVE  Top(j, q, {S}, now)
<1>1. \A n : UNION {Newest(Offered(j, X), n) : X \in {S}} = Newest(Offered(j, S), n)
  OBVIOUS
<1> QED BY <1>1 DEF Top

\* The first rows of a list O, as many as the limit or all.
LEMMA PrefixIsNewest ==
  ASSUME CollectAssumption, NEW now \in 0 .. MaxTx, NEW O, O \subseteq 1 .. now,
         NEW n \in Nat,
         NEW q \in Seq(Int), Leads(q, O), Len(q) = Less(n, Cardinality(O))
  PROVE  /\ Distinct(q)
         /\ News(q) = Newest(O, n)
         /\ Len(q) = Cardinality(O) => Values(q) = O
<1>1. IsFiniteSet(O) /\ O \subseteq Int /\ Cardinality(O) \in Nat
  BY OfferedIs
<1>2. /\ Values(q) \subseteq O
      /\ \A i, k \in 1 .. Len(q) : i < k => q[i] > q[k]
      /\ Len(q) = Cardinality(O) => Values(q) = O
      /\ \A x \in O \ Values(q) : {y \in Values(q) : y > x} = Values(q)
  <2>1. TopOf(q, O)
    BY <1>1, PrefixIsTop
  <2> QED BY <2>1 DEF TopOf
<1>3. Len(q) \in Nat /\ DOMAIN q = 1 .. Len(q) /\ \A i \in DOMAIN q : q[i] \in Int
  BY SeqIs
<1>4. Distinct(q)
  BY <1>2, <1>3 DEF Distinct
<1>5. News(q) = Values(q)
  <2>1. 1 .. now \subseteq Transfer
    BY DEF Transfer, CollectAssumption
  <2> QED BY <1>2, <2>1 DEF News
<1>6. Cardinality(Values(q)) = Len(q)
  BY <1>2, RankIs
<1>7. \A x \in O \ Values(q) : \A y \in Values(q) : y > x
  BY <1>2
<1>8. Cardinality(Values(q)) = n \/ (Values(q) = O /\ Cardinality(O) <= n)
  BY <1>1, <1>2, <1>6 DEF Less
<1>9. Values(q) = Newest(O, n)
  BY <1>1, <1>2, <1>7, <1>8, NewestIs
<1> QED BY <1>2, <1>4, <1>5, <1>9

\* A stream of Tronscan is complete with the rows it has room for.
LEMMA TronIsComplete ==
  ASSUME CollectAssumption, NEW now \in 0 .. MaxTx, NEW S, S \subseteq 1 .. now,
         NEW j, j.network = "tron", j.limit \in Nat,
         NEW q \in Seq(Int), Values(q) \subseteq Offered(j, S),
         Still(j, now) =>
           /\ Leads(q, Offered(j, S))
           /\ Len(q) = Less(j.limit, Cardinality(Offered(j, S)))
           /\ Len(q) < Cardinality(Offered(j, S)) => j.truncated
  PROVE  Complete(j, q, S, now)
<1> DEFINE O == Offered(j, S)
<1>1. O \subseteq 1 .. now /\ O = Part(j, S) /\ Cardinality(O) \in Nat
  BY OfferedIs DEF Offered
<1>2. Rows(j, q, S)
  BY DEF Rows, Values, Offered, Part
<1> HIDE DEF O
<1>3. ASSUME Still(j, now)
      PROVE  /\ Distinct(q)
             /\ News(q) = Newest(O, j.limit)
             /\ j.truncated \/ Part(j, S) \subseteq Values(q)
  <2>1. /\ Leads(q, O)
        /\ Len(q) = Less(j.limit, Cardinality(O))
        /\ Len(q) < Cardinality(O) => j.truncated
    BY <1>3 DEF O
  <2>2. /\ Distinct(q) /\ News(q) = Newest(O, j.limit)
        /\ Len(q) = Cardinality(O) => Values(q) = O
    BY <1>1, <2>1, PrefixIsNewest
  <2>3. Len(q) = Cardinality(O) \/ Len(q) < Cardinality(O)
    BY <1>1, <2>1, SeqIs DEF Leads
  <2> QED BY <1>1, <2>1, <2>2, <2>3
<1>4. Whole(j, q, S, now)
  BY <1>3 DEF Whole
<1>5. QuietTill(j, now) => Still(j, now)
  BY DEF QuietTill, Still, CollectAssumption
<1>6. Top(j, q, {S}, now)
  <2>1. j.limit \in Reach(j)
    BY DEF Reach
  <2> QED BY <1>3, <1>5, <2>1, TopIs DEF O
<1> QED BY <1>2, <1>4, <1>6 DEF Complete

\* Nothing is there yet.
LEMMA NoRows ==
  ASSUME CollectAssumption, NEW now \in 0 .. MaxTx, NEW S, S \subseteq 1 .. now,
         NEW j, j.network \in Network, j.limit \in Nat \ {0}, j.page = 1, j.raw = <<>>
  PROVE  NumberedPages(j, S, now)
<1>1. Len(j.raw) = 0 /\ DOMAIN j.raw = {}
  OBVIOUS
<1>2. PageLimit[j.network] \in Nat
  BY DEF CollectAssumption
<1>3. (j.page - 1) * PageLimit[j.network] = 0
  BY <1>2
<1>4. \A x : Cardinality({y \in S : y > x}) >= 0
  <2> TAKE x
  <2>1. IsFiniteSet(S) /\ {y \in S : y > x} \subseteq S
    BY OfferedIs
  <2>2. Cardinality({y \in S : y > x}) \in Nat
    BY <2>1, FS_Subset, FS_CardinalityType
  <2> QED BY <2>2
<1>5. Cardinality(S) \in Nat
  BY OfferedIs
<1>6. Rows(j, j.raw, S)
  BY <1>1 DEF Rows
<1>7. \A x \in S : x <= j.asked =>
        \/ x \in Values(j.raw)
        \/ Cardinality({y \in S : y > x}) >= (j.page - 1) * PageLimit[j.network]
  BY <1>3, <1>4
<1>8. /\ Len(j.raw) = (j.page - 1) * PageLimit[j.network] /\ Len(j.raw) <= Cardinality(S)
      /\ \A i \in DOMAIN j.raw : j.raw[i] = NewestFirst(S)[i]
  BY <1>1, <1>3, <1>5
<1>9. j.page \in Nat \ {0} /\ Len(j.raw) < j.limit
  BY <1>1
<1> QED BY <1>6, <1>7, <1>8, <1>9 DEF NumberedPages

\* What is asked of a report: a mark may be added, nothing else.
SameReport(j, k) ==
  /\ k.network = j.network /\ k.limit = j.limit /\ k.from = j.from /\ k.until = j.until
  /\ k.asked = j.asked /\ k.pooled = j.pooled
  /\ j.truncated => k.truncated

LEMMA SameOffered ==
  ASSUME NEW j, NEW k, SameReport(j, k), NEW S
  PROVE  /\ Offered(k, S) = Offered(j, S) /\ Part(k, S) = Part(j, S)
         /\ \A now : Still(k, now) = Still(j, now) /\ QuietTill(k, now) = QuietTill(j, now)
<1>1. \A t : InPeriod(k, t) = InPeriod(j, t)
  BY DEF SameReport, InPeriod
<1>2. Offered(k, S) = Offered(j, S) /\ Part(k, S) = Part(j, S)
  BY <1>1 DEF SameReport, Offered, Part
<1> QED BY <1>1, <1>2 DEF SameReport, Still, QuietTill

LEMMA SameComplete ==
  ASSUME NEW j, NEW k, SameReport(j, k), NEW S, NEW now, NEW q, Complete(j, q, S, now)
  PROVE  Complete(k, q, S, now)
<1>1. /\ Part(k, S) = Part(j, S)
      /\ Still(k, now) = Still(j, now) /\ QuietTill(k, now) = QuietTill(j, now)
  BY SameOffered
<1>2. Rows(k, q, S)
  BY DEF SameReport, Complete, Rows, InPeriod
<1>3. Whole(k, q, S, now)
  BY <1>1 DEF SameReport, Complete, Whole
<1>4. Top(k, q, {S}, now)
  <2>1. Reach(k) = Reach(j) /\ \A X : Offered(k, X) = Offered(j, X)
    BY SameOffered DEF SameReport, Reach
  <2> QED BY <1>1, <2>1 DEF Complete, Top
<1> QED BY <1>2, <1>3, <1>4 DEF Complete

\* The list of some of the transfers there are.
IsList(O, now) ==
  /\ O \subseteq Int /\ IsFiniteSet(O)
  /\ Cardinality(O) \in Nat /\ Cardinality(O) <= now
  /\ NewestFirst(O) \in Seq(O) /\ Len(NewestFirst(O)) = Cardinality(O)
  /\ NewestFirst(O) \in Seq(Int)
  /\ DOMAIN NewestFirst(O) = 1 .. Cardinality(O)
  /\ \A i \in 1 .. Cardinality(O) : NewestFirst(O)[i] \in O

LEMMA ListIs ==
  ASSUME NEW now \in Nat, NEW O, O \subseteq 1 .. now
  PROVE  IsList(O, now)
<1>1. IsFiniteSet(1 .. now) /\ Cardinality(1 .. now) = now /\ O \subseteq Int
  BY FS_Interval
<1>2. IsFiniteSet(O) /\ Cardinality(O) <= now
  BY <1>1, FS_Subset
<1>3. /\ Cardinality(O) \in Nat
      /\ NewestFirst(O) \in Seq(O) /\ Len(NewestFirst(O)) = Cardinality(O)
  BY <1>1, <1>2, NewestFirstIs
<1>4. /\ DOMAIN NewestFirst(O) = 1 .. Cardinality(O)
      /\ \A i \in 1 .. Cardinality(O) : NewestFirst(O)[i] \in O
  BY <1>3, SeqIs
<1>5. NewestFirst(O) \in Seq(Int)
  BY <1>1, <1>3, WiderSeq
<1> QED BY <1>1, <1>2, <1>3, <1>4, <1>5 DEF IsList

\* What a stream lists.
LEMMA OfferedIsList ==
  ASSUME CollectAssumption, NEW now \in 0 .. MaxTx, NEW S, S \subseteq 1 .. now, NEW j
  PROVE  IsList(S, now) /\ IsList(Offered(j, S), now) /\ Offered(j, S) \subseteq 1 .. now
<1>1. now \in Nat
  BY DEF CollectAssumption
<1>2. Offered(j, S) \subseteq 1 .. now
  BY DEF Offered, Part
<1> QED BY <1>1, <1>2, ListIs

\* The first rows of such a list.
IsHead(q, O, n) ==
  /\ q \in Seq(Int) /\ q \in Seq(O) /\ Len(q) = Less(n, Cardinality(O)) /\ Len(q) \in Nat
  /\ DOMAIN q = 1 .. Len(q) /\ Leads(q, O) /\ Values(q) \subseteq O
  /\ \A i \in 1 .. Len(q) : q[i] \in O

LEMMA HeadIs ==
  ASSUME NEW now, NEW O, IsList(O, now), NEW n \in Nat
  PROVE  IsHead(First(NewestFirst(O), n), O, n)
<1> DEFINE q == First(NewestFirst(O), n)
<1>1. NewestFirst(O) \in Seq(O)
  BY DEF IsList
<1>2. /\ q \in Seq(O) /\ Len(q) = Less(n, Cardinality(O))
      /\ \A i \in 1 .. Len(q) : q[i] = NewestFirst(O)[i]
  BY <1>1, FirstIs DEF IsList
<1> HIDE DEF q
<1>3. q \in Seq(Int)
  BY <1>2, WiderSeq DEF IsList
<1>4. Len(q) \in Nat /\ DOMAIN q = 1 .. Len(q) /\ \A i \in 1 .. Len(q) : q[i] \in O
  BY <1>2, SeqIs
<1>5. Len(q) <= Cardinality(O)
  BY <1>2 DEF Less, IsList
<1>6. Values(q) \subseteq O
  BY <1>4 DEF Values
<1>7. IsHead(q, O, n)
  BY <1>2, <1>3, <1>4, <1>5, <1>6 DEF IsHead, Leads
<1> QED BY <1>7 DEF q

\* The first page is all there is to have.
FirstEnds(O, rows, P, limit) ==
  \/ Len(rows) >= Less(Cardinality(O), limit)
  \/ Len(rows) < Less(P, limit)

LEMMA FirstPageCompletes ==
  ASSUME CollectAssumption, NEW now \in 0 .. MaxTx, NEW S, S \subseteq 1 .. now,
         NEW j, j.network = "tron", j.network \in Network, j.limit \in Nat \ {0},
         NEW rows,
         IsHead(rows, Offered(j, S), Less(PageLimit[j.network], j.limit)),
         FirstEnds(Offered(j, S), rows, PageLimit[j.network], j.limit),
         Cardinality(Offered(j, S)) > Len(rows) => j.truncated
  PROVE  Complete(j, rows, S, now)
<1> DEFINE O == Offered(j, S)
           P == PageLimit[j.network]
<1>1. /\ rows \in Seq(Int) /\ Len(rows) = Less(Less(P, j.limit), Cardinality(O))
      /\ Len(rows) \in Nat /\ Leads(rows, O) /\ Values(rows) \subseteq O
  BY DEF IsHead
<1>2. P \in Nat \ {0} /\ Cardinality(O) \in Nat
  BY OfferedIsList DEF CollectAssumption, IsList
<1>3. Len(rows) = Less(j.limit, Cardinality(O))
  BY <1>1, <1>2 DEF FirstEnds, Less
<1>4. Len(rows) < Cardinality(O) => j.truncated
  BY <1>1, <1>2
<1> HIDE DEF O
<1>5. Values(rows) \subseteq Offered(j, S) /\ Leads(rows, Offered(j, S))
  BY <1>1 DEF O
<1>6. rows \in Seq(Int)
  BY <1>1
<1> QED BY <1>3, <1>4, <1>5, <1>6, TronIsComplete DEF O

\* After the first page the others are to be asked for.
LEMMA FirstPageRests ==
  ASSUME CollectAssumption, NEW now \in 0 .. MaxTx, NEW S, S \subseteq 1 .. now,
         NEW j, j.network \in Network, j.limit \in Nat \ {0},
         NEW O, O = Offered(j, S), NEW P, P = PageLimit[j.network],
         IsHead(j.raw, O, Less(P, j.limit)),
         ~FirstEnds(O, j.raw, P, j.limit),
         j.target = Cardinality(O),
         j.todo = RestOffsets(j, Len(j.raw), Less(Cardinality(O), j.limit))
  PROVE  RestPages(j, S, now, j.todo) /\ j.todo \subseteq 0 .. MaxTx
<1> DEFINE n == Len(j.raw)
           total == Less(Cardinality(O), j.limit)
<1>1. /\ j.raw \in Seq(O) /\ n = Less(Less(P, j.limit), Cardinality(O)) /\ n \in Nat
      /\ Leads(j.raw, O) /\ Values(j.raw) \subseteq O
  BY DEF IsHead
<1>2. /\ P \in Nat \ {0} /\ Cardinality(O) \in Nat
      /\ O \subseteq 1 .. now /\ Cardinality(O) <= now /\ now \in Nat /\ now <= MaxTx
      /\ MaxTx \in Nat
  <2>1. IsList(O, now) /\ O \subseteq 1 .. now
    BY OfferedIsList
  <2>2. P \in Nat \ {0} /\ MaxTx \in Nat
    BY DEF CollectAssumption
  <2> QED BY <2>1, <2>2 DEF IsList
<1>3. n < total /\ n >= 1 /\ total \in Nat /\ total <= now
  BY <1>1, <1>2 DEF FirstEnds, Less
<1>4. j.todo \subseteq 0 .. total - 1 /\ j.todo \subseteq 0 .. MaxTx
  BY <1>2, <1>3 DEF RestOffsets
<1>5. Total(j) = total
  BY DEF Total
<1>6. DOMAIN j.raw = 1 .. n /\ \A i \in 1 .. n : j.raw[i] \in O /\ j.raw[i] # 0
  <2>1. DOMAIN j.raw = 1 .. n /\ \A i \in 1 .. n : j.raw[i] \in O
    BY <1>1, SeqIs
  <2> QED BY <1>2, <2>1
<1>7. \A i \in DOMAIN j.raw : j.raw[i] = NewestFirst(O)[i]
  BY <1>6 , <1>1 DEF Leads
<1>8. ASSUME NEW i \in 1 .. total
      PROVE  \/ i <= n /\ j.raw[i] # 0
             \/ \E o \in j.todo : o < i /\ i <= o + PageLimit[j.network]
  <2>1. CASE i <= n
    BY <1>3, <1>6, <2>1
  <2>2. CASE i > n
    <3>1. i - 1 \in Nat /\ n <= i - 1
      BY <1>2, <1>3, <2>2
    <3> HIDE DEF n, total
    <3>2. PICK o \in Nat : n <= o /\ o <= i - 1 /\ i - 1 < o + P /\ (o - n) % P = 0
      <4>1. n \in Nat /\ P \in Nat \ {0} /\ i - 1 \in Nat /\ n <= i - 1
        BY <1>1, <1>2, <3>1 DEF n
      <4> QED BY <4>1, PageOf
    <3>3. o \in 1 .. total - 1 /\ o < i /\ i <= o + P
      BY <1>1, <1>2, <1>3, <3>2 DEF n
    <3>4. o \in j.todo
      BY <3>2, <3>3 DEF RestOffsets, n, total
    <3> QED BY <3>3, <3>4
  <2> QED BY <1>2, <1>3, <2>1, <2>2
<1> HIDE DEF n, total
<1>9. j.target <= Cardinality(O) /\ Len(j.raw) <= Total(j)
  BY <1>2, <1>3, <1>5 DEF n
<1>10. \A i \in DOMAIN j.raw : j.raw[i] \in O
  BY <1>6
<1> QED BY <1>4, <1>5, <1>7, <1>8, <1>9, <1>10 DEF RestPages, n

\* A page that arrives.
IsPlaced(j, o) ==
  /\ Len(Placed(j, o)) = Total(j) /\ DOMAIN Placed(j, o) = 1 .. Total(j)
  /\ Total(j) \in Nat /\ Total(j) <= j.target
  /\ Placed(j, o) = [i \in 1 .. Total(j) |-> Placed(j, o)[i]]
  /\ \A i \in 1 .. Total(j) :
       Placed(j, o)[i] =
         IF o < i /\ i <= o + PageLimit[j.network] THEN Served(j)[i]
         ELSE IF i <= Len(j.raw) THEN j.raw[i] ELSE 0

\* A page of n of the t places from o on, inside a list of l.
LEMMA PageInside ==
  ASSUME NEW n \in Nat, NEW t \in Nat, NEW o \in Nat, NEW d \in Nat, NEW l \in Nat,
         n <= t - o, o < t, t <= d, d <= l
  PROVE  o < l /\ n <= l - o /\ n \in Int /\ l - o \in Int
OBVIOUS

\* The places a page of at most p from o on fills.
LEMMA SpanOfPage ==
  ASSUME NEW p \in Nat, NEW t \in Nat, NEW o \in Nat, NEW i \in 1 .. t
  PROVE  i \in o + 1 .. o + Less(p, t - o) <=> o < i /\ i <= o + p
BY DEF Less

LEMMA PlaceInPage ==
  ASSUME NEW l \in Nat, NEW o \in Nat, NEW i \in Nat, i \in o + 1 .. o + l
  PROVE  i - o \in 1 .. l /\ o + (i - o) = i
OBVIOUS

LEMMA PlacedIs ==
  ASSUME NEW j, j.limit \in Nat, j.target \in Nat, PageLimit[j.network] \in Nat \ {0},
         j.raw \in Seq(Int), Len(j.raw) <= Total(j),
         Served(j) \in Seq(Int), j.target <= Len(Served(j)),
         NEW o \in 0 .. Total(j) - 1
  PROVE  IsPlaced(j, o)
<1> DEFINE P == PageLimit[j.network]
           list == Served(j)
           total == Total(j)
           n == Less(P, total - o)
           page == Slice(list, o, n)
<1>1. total \in Nat /\ total <= j.target
  BY DEF Total, Less
<1>2. /\ P \in Nat \ {0} /\ total - o \in Nat /\ o \in Nat /\ o < total
      /\ list \in Seq(Int) /\ Len(list) \in Nat /\ j.target <= Len(list)
  <2> HIDE DEF total
  <2>1. Len(list) \in Nat
    OBVIOUS
  <2>2. o \in Nat /\ o < total /\ total - o \in Nat
    BY <1>1 DEF total
  <2> QED BY <2>1, <2>2 DEF total
<1>3. DOMAIN j.raw = 1 .. Len(j.raw) /\ Len(j.raw) \in Nat
  BY SeqIs
<1> HIDE DEF list, total, P
<1>4. n \in Nat
  BY <1>1, <1>2 DEF Less
<1> HIDE DEF n
<1>5. /\ Len(page) = IF o >= Len(list) THEN 0 ELSE Less(n, Len(list) - o)
      /\ \A i \in 1 .. Len(page) : page[i] = list[o + i]
  BY <1>2, <1>4, SliceIs
<1>6. Len(page) = Less(P, total - o)
  <2>1. o < Len(list) /\ n <= Len(list) - o /\ n \in Int /\ Len(list) - o \in Int
    <3>1. n <= total - o
      BY <1>1, <1>2 DEF n, Less
    <3> QED BY <1>1, <1>2, <1>4, <3>1, PageInside
  <2>2. Less(n, Len(list) - o) = n
    BY <2>1 DEF Less
  <2>3. Len(page) = n
    <3> HIDE DEF page
    <3> QED BY <1>2, <1>5, <2>1, <2>2
  <2> QED BY <2>3 DEF n
<1>7. Placed(j, o) =
        [i \in 1 .. total |->
           IF i \in o + 1 .. o + Len(page) THEN page[i - o]
           ELSE IF i \in DOMAIN j.raw THEN j.raw[i] ELSE 0]
  BY DEF Placed, Total, total, list, P, n
<1> HIDE DEF page
<1>8. ASSUME NEW i \in 1 .. total
      PROVE  Placed(j, o)[i] =
               IF o < i /\ i <= o + P THEN list[i]
               ELSE IF i <= Len(j.raw) THEN j.raw[i] ELSE 0
  <2>1. i \in o + 1 .. o + Len(page) <=> o < i /\ i <= o + P
    BY <1>1, <1>2, <1>6, SpanOfPage
  <2>2. i \in DOMAIN j.raw <=> i <= Len(j.raw)
    BY <1>1, <1>3
  <2>3. ASSUME o < i /\ i <= o + P
        PROVE  page[i - o] = list[i]
    <3>1. i - o \in 1 .. Len(page) /\ o + (i - o) = i
      <4>1. Len(page) \in Nat /\ o \in Nat /\ i \in Nat
        BY <1>1, <1>2, <1>6 DEF Less
      <4>2. i \in o + 1 .. o + Len(page)
        BY <2>1, <2>3
      <4> QED BY <4>1, <4>2, PlaceInPage, Zenon
    <3> QED BY <1>5, <3>1
  <2> QED BY <1>7, <2>1, <2>2, <2>3
<1>9. Len(Placed(j, o)) = total /\ DOMAIN Placed(j, o) = 1 .. total
  BY <1>1, <1>7
<1>10. Placed(j, o) = [i \in 1 .. total |-> Placed(j, o)[i]]
  BY <1>7
<1> QED BY <1>1, <1>8, <1>9, <1>10 DEF IsPlaced, total, list, P

LEMMA RestPageKeeps ==
  ASSUME CollectAssumption, NEW now \in 0 .. MaxTx, NEW S, S \subseteq 1 .. now,
         NEW j, j.network \in Network, j.limit \in Nat, j.target \in Nat,
         j.raw \in Seq(Int),
         NEW A, RestPages(j, S, now, A), NEW o \in A,
         Served(j) = NewestFirst(Offered(j, S)),
         NEW k, SameReport(j, k), k.target = j.target, k.raw = Placed(j, o),
         NEW B, B \subseteq A, A \ {o} \subseteq B
  PROVE  RestPages(k, S, now, B) /\ Len(k.raw) = Total(k) /\ k.raw \in Seq(0 .. Pending)
<1> DEFINE O == Offered(j, S)
           P == PageLimit[j.network]
           list == NewestFirst(O)
           total == Total(j)
<1>1. /\ j.target <= Cardinality(O) /\ Len(j.raw) <= total
      /\ A \subseteq 0 .. total - 1
      /\ \A i \in 1 .. total :
           \/ i <= Len(j.raw) /\ j.raw[i] # 0
           \/ \E p \in A : p < i /\ i <= p + P
      /\ \A i \in DOMAIN j.raw : j.raw[i] # 0 => j.raw[i] \in O
      /\ Still(j, now) =>
           /\ j.target = Cardinality(O)
           /\ \A i \in DOMAIN j.raw : j.raw[i] # 0 => j.raw[i] = list[i]
  BY DEF RestPages
<1>2. Offered(k, S) = O /\ Still(k, now) = Still(j, now) /\ Total(k) = total
  BY SameOffered DEF SameReport, Total
<1>3. /\ Cardinality(O) \in Nat /\ O \subseteq 1 .. now
      /\ \A i \in 1 .. Cardinality(O) : list[i] \in O
      /\ list \in Seq(Int) /\ Len(list) = Cardinality(O)
  BY OfferedIsList DEF IsList
<1>11. DOMAIN j.raw = 1 .. Len(j.raw) /\ Len(j.raw) \in Nat /\ P \in Nat \ {0}
  BY SeqIs DEF CollectAssumption
<1>4. /\ o \in 0 .. Total(j) - 1 /\ j.target <= Len(Served(j)) /\ Len(j.raw) <= Total(j)
      /\ Served(j) \in Seq(Int) /\ PageLimit[j.network] \in Nat \ {0} /\ Served(j) = list
  BY <1>1, <1>3, <1>11
<1>12. IsPlaced(j, o)
  BY <1>4, PlacedIs
<1> HIDE DEF list, total, O
<1>5. /\ Len(k.raw) = total /\ DOMAIN k.raw = 1 .. total
      /\ total \in Nat /\ total <= j.target
      /\ \A i \in 1 .. total :
           k.raw[i] = IF o < i /\ i <= o + P THEN list[i]
                      ELSE IF i <= Len(j.raw) THEN j.raw[i] ELSE 0
  BY <1>4, <1>12 DEF IsPlaced, total
<1>6. \A i \in 1 .. total : i \in 1 .. Cardinality(O) /\ list[i] \in O /\ list[i] # 0
  BY <1>1, <1>3, <1>5
<1>7. ASSUME NEW i \in 1 .. total
      PROVE  /\ \/ i <= Len(k.raw) /\ k.raw[i] # 0
                \/ \E p \in B : p < i /\ i <= p + PageLimit[k.network]
             /\ k.raw[i] # 0 => k.raw[i] \in O
             /\ Still(k, now) => (k.raw[i] # 0 => k.raw[i] = list[i])
  <2>1. CASE o < i /\ i <= o + P
    BY <1>5, <1>6, <2>1
  <2>2. CASE ~(o < i /\ i <= o + P)
    <3>1. k.raw[i] = IF i <= Len(j.raw) THEN j.raw[i] ELSE 0
      BY <1>5, <2>2
    <3>2. i <= Len(j.raw) => i \in DOMAIN j.raw
      BY <1>5, <1>11
    <3>3. \/ i <= Len(k.raw) /\ k.raw[i] # 0
          \/ \E p \in B : p < i /\ i <= p + P
      <4>1. CASE i <= Len(j.raw) /\ j.raw[i] # 0
        BY <1>5, <3>1, <4>1
      <4>2. CASE \E p \in A : p < i /\ i <= p + P
        BY <2>2, <4>2
      <4> QED BY <1>1, <4>1, <4>2
    <3>4. PageLimit[k.network] = P
      BY DEF SameReport
    <3>5. k.raw[i] # 0 => k.raw[i] \in O
      BY <1>1, <3>1, <3>2
    <3>6. Still(k, now) => (k.raw[i] # 0 => k.raw[i] = list[i])
      BY <1>1, <1>2, <3>1, <3>2
    <3> QED BY <3>3, <3>4, <3>5, <3>6
  <2> QED BY <2>1, <2>2
<1>8. B \subseteq 0 .. Total(k) - 1
  BY <1>1, <1>2
<1>9. k.target <= Cardinality(O) /\ Len(k.raw) <= Total(k)
  BY <1>1, <1>2, <1>5
<1>10. Still(k, now) => k.target = Cardinality(O)
  BY <1>1, <1>2
<1>13. k.raw \in Seq(0 .. Pending)
  <2>1. \A i \in 1 .. total : k.raw[i] = 0 \/ k.raw[i] \in 1 .. now
    BY <1>3, <1>7
  <2>2. k.raw = [i \in 1 .. total |-> k.raw[i]]
    BY <1>12 DEF IsPlaced, total
  <2>3. 1 .. now \subseteq 0 .. Pending /\ 0 \in 0 .. Pending
    BY DEF Pending, CollectAssumption
  <2>4. k.raw \in [1 .. total -> 0 .. Pending]
    BY <2>1, <2>2, <2>3
  <2> QED BY <1>5, <2>4, SeqOf
<1> QED BY <1>2, <1>5, <1>7, <1>8, <1>9, <1>10, <1>13 DEF RestPages, list

\* No page is missing.
LEMMA RestPagesComplete ==
  ASSUME CollectAssumption, NEW now \in 0 .. MaxTx, NEW S, S \subseteq 1 .. now,
         NEW j, j.network = "tron", j.limit \in Nat, j.target \in Nat,
         j.raw \in Seq(Int), Len(j.raw) = Total(j),
         RestPages(j, S, now, {}), j.target > Len(j.raw) => j.truncated
  PROVE  Complete(j, j.raw, S, now)
<1> DEFINE O == Offered(j, S)
           q == j.raw
<1>1. /\ Len(q) \in Nat /\ DOMAIN q = 1 .. Len(q)
      /\ Cardinality(O) \in Nat /\ O \subseteq Int
  BY OfferedIsList, SeqIs DEF IsList
<1>2. \A i \in 1 .. Len(q) : q[i] # 0 /\ q[i] \in O
  BY <1>1 DEF RestPages
<1>3. Values(q) \subseteq O
  BY <1>1, <1>2 DEF Values
<1>4. q \in Seq(Int)
  OBVIOUS
<1>5. Len(q) = Less(j.target, j.limit) /\ j.target <= Cardinality(O)
  BY DEF Total, RestPages
<1>6. ASSUME Still(j, now)
      PROVE  /\ Leads(q, O)
             /\ Len(q) = Less(j.limit, Cardinality(O))
             /\ Len(q) < Cardinality(O) => j.truncated
  <2>1. j.target = Cardinality(O) /\ \A i \in 1 .. Len(q) : q[i] = NewestFirst(O)[i]
    BY <1>1, <1>2, <1>6 DEF RestPages
  <2> QED BY <1>1, <1>5, <2>1 DEF Leads, Less
<1> HIDE DEF O, q
<1>7. Complete(j, q, S, now)
  BY <1>3, <1>4, <1>6, TronIsComplete DEF O
<1> QED BY <1>7 DEF q

\* A member of a list is where its newer ones end.
LEMMA PlaceIs ==
  ASSUME NEW now, NEW S, IsList(S, now), NEW x \in S
  PROVE  \E i \in 1 .. Cardinality(S) :
           NewestFirst(S)[i] = x /\ Cardinality({y \in S : y > x}) = i - 1
<1> DEFINE list == NewestFirst(S)
<1>1. /\ S \subseteq Int /\ IsFiniteSet(S) /\ Cardinality(S) \in Nat
      /\ list \in Seq(Int) /\ list \in Seq(S) /\ Len(list) = Cardinality(S)
      /\ DOMAIN list = 1 .. Cardinality(S)
      /\ \A i \in 1 .. Cardinality(S) : list[i] \in S
  BY DEF IsList
<1>2. /\ \A i, k \in 1 .. Cardinality(S) : i < k => list[i] > list[k]
      /\ \A z \in S : \E i \in 1 .. Cardinality(S) : list[i] = z
  BY <1>1, NewestFirstIs
<1> HIDE DEF list
<1>3. Values(list) = S
  BY <1>1, <1>2 DEF Values
<1>4. \A i \in 1 .. Len(list) : Cardinality({y \in Values(list) : y > list[i]}) = i - 1
  BY <1>1, <1>2, RankIs
<1>5. PICK i \in 1 .. Cardinality(S) : list[i] = x
  BY <1>2
<1>6. Cardinality({y \in S : y > x}) = i - 1
  BY <1>1, <1>3, <1>4, <1>5
<1> QED BY <1>5, <1>6 DEF list

\* Up to n rows of a list, after the first start rows.
IsPage(rows, S, start, n) ==
  /\ rows \in Seq(S) /\ rows \in Seq(Int) /\ Len(rows) \in Nat
  /\ Len(rows) = IF start >= Cardinality(S) THEN 0 ELSE Less(n, Cardinality(S) - start)
  /\ \A i \in 1 .. Len(rows) :
       start + i \in 1 .. Cardinality(S) /\ rows[i] = NewestFirst(S)[start + i]

LEMMA PageIs ==
  ASSUME NEW now, NEW S, IsList(S, now), NEW start \in Nat, NEW n \in Nat
  PROVE  IsPage(Slice(NewestFirst(S), start, n), S, start, n)
<1> DEFINE list == NewestFirst(S)
           rows == Slice(list, start, n)
<1>1. list \in Seq(S) /\ Len(list) = Cardinality(S) /\ S \subseteq Int
  BY DEF IsList
<1> HIDE DEF list
<1>2. /\ rows \in Seq(S)
      /\ Len(rows) = IF start >= Len(list) THEN 0 ELSE Less(n, Len(list) - start)
      /\ \A i \in 1 .. Len(rows) : start + i \in 1 .. Len(list) /\ rows[i] = list[start + i]
  BY <1>1, SliceIs
<1> HIDE DEF rows
<1>3. rows \in Seq(S) /\ S \subseteq Int
  BY <1>1, <1>2
<1>4. rows \in Seq(Int)
  BY <1>3, WiderSeq, Zenon
<1>5. Len(rows) \in Nat
  BY <1>3, SeqIs, Zenon
<1> QED BY <1>1, <1>2, <1>4, <1>5 DEF IsPage, rows, list

\* Etherscan's page, with n rows or the last of the list.
EtherRows(j, S, n) == Slice(NewestFirst(S), (j.page - 1) * n, n)

LEMMA EtherRowsAre ==
  ASSUME NEW now, NEW S, IsList(S, now),
         NEW j, j.page \in Nat \ {0}, NEW n \in Nat
  PROVE  IsPage(EtherRows(j, S, n), S, (j.page - 1) * n, n)
<1>1. (j.page - 1) * n \in Nat
  OBVIOUS
<1> QED BY <1>1, PageIs, Zenon DEF EtherRows

\* A limit that is a multiple of the page's length has full pages only.
RoomForPages(P, L, m, k, n) ==
  /\ P \in Nat \ {0} /\ L \in Nat /\ (L <= P \/ L % P = 0)
  /\ m \in Nat /\ k = m * P /\ k < L /\ n = Less(P, L - k)

LEMMA FullPages ==
  ASSUME NEW P, NEW L, NEW m, NEW k, NEW n, RoomForPages(P, L, m, k, n)
  PROVE  m * n = k
<1> USE DEF RoomForPages
<1>1. m * P \in Nat
  OBVIOUS
<1>2. CASE m = 0
  <2>1. n \in Nat
    BY <1>1 DEF Less
  <2> QED BY <1>2, <2>1
<1>3. CASE m # 0
  <2>1. m * P >= P
    <3>1. m = (m - 1) + 1 /\ m - 1 \in Nat
      BY <1>3
    <3>2. m * P = (m - 1) * P + P /\ (m - 1) * P \in Nat
      BY <3>1
    <3> QED BY <3>2
  <2>2. L % P = 0
    BY <1>1, <2>1
  <2>3. PICK d \in Nat : L = d * P
    <3>1. L \div P \in Nat /\ L = (P * (L \div P)) + (L % P)
      OBVIOUS
    <3>2. P * (L \div P) = (L \div P) * P
      BY <3>1
    <3>3. L = (L \div P) * P
      BY <2>2, <3>1, <3>2
    <3> QED BY <3>1, <3>3, Zenon
  <2>4. m < d
    <3> SUFFICES ASSUME d <= m PROVE FALSE
      BY <2>3
    <3>1. m = d + (m - d) /\ m - d \in Nat
      BY <2>3
    <3>2. m * P = d * P + (m - d) * P /\ (m - d) * P \in Nat
      BY <2>3, <3>1
    <3> QED BY <1>1, <2>3, <3>2
  <2>5. d * P >= m * P + P
    <3>1. d = (m + 1) + (d - m - 1) /\ d - m - 1 \in Nat
      BY <2>3, <2>4
    <3>2. d * P = (m + 1) * P + (d - m - 1) * P /\ (d - m - 1) * P \in Nat
      BY <2>3, <3>1
    <3>3. (m + 1) * P = m * P + P
      OBVIOUS
    <3> QED BY <1>1, <3>2, <3>3
  <2>6. n = P
    BY <1>1, <2>3, <2>5 DEF Less
  <2> QED BY <2>6
<1> QED BY <1>2, <1>3

\* What a report has after a page: the rows of both, none of them lost.
LEMMA LongerIs ==
  ASSUME NEW a \in Seq(Int), NEW b \in Seq(Int)
  PROVE  /\ a \o b \in Seq(Int) /\ Len(a \o b) = Len(a) + Len(b)
         /\ DOMAIN (a \o b) = 1 .. Len(a) + Len(b)
         /\ DOMAIN a = 1 .. Len(a) /\ DOMAIN b = 1 .. Len(b)
         /\ Len(a) \in Nat /\ Len(b) \in Nat
         /\ \A i \in 1 .. Len(a) : (a \o b)[i] = a[i]
         /\ \A i \in 1 .. Len(b) : (a \o b)[Len(a) + i] = b[i]
         /\ \A i \in 1 .. Len(a) + Len(b) :
              i > Len(a) => i - Len(a) \in 1 .. Len(b) /\ (a \o b)[i] = b[i - Len(a)]
         /\ Values(a \o b) = Values(a) \cup Values(b)
<1> DEFINE q == a \o b
<1>1. /\ q \in Seq(Int) /\ Len(q) = Len(a) + Len(b)
      /\ \A i \in 1 .. Len(a) : q[i] = a[i]
      /\ \A i \in 1 .. Len(b) : q[Len(a) + i] = b[i]
  BY JoinedIs
<1>2. /\ DOMAIN a = 1 .. Len(a) /\ DOMAIN b = 1 .. Len(b)
      /\ Len(a) \in Nat /\ Len(b) \in Nat
  BY SeqIs
<1> HIDE DEF q
<1>3. DOMAIN q = 1 .. Len(a) + Len(b)
  BY <1>1, SeqIs
<1>4. ASSUME NEW i \in 1 .. Len(a) + Len(b), i > Len(a)
      PROVE  i - Len(a) \in 1 .. Len(b) /\ q[i] = b[i - Len(a)]
  <2>1. i - Len(a) \in 1 .. Len(b) /\ Len(a) + (i - Len(a)) = i
    BY <1>2, <1>4
  <2> QED BY <1>1, <2>1
<1>5. Values(q) = Values(a) \cup Values(b)
  <2>1. \A i \in DOMAIN a : i \in DOMAIN q /\ q[i] = a[i]
    BY <1>1, <1>2, <1>3
  <2>2. \A i \in DOMAIN b : Len(a) + i \in DOMAIN q /\ q[Len(a) + i] = b[i]
    BY <1>1, <1>2, <1>3
  <2>3. \A i \in DOMAIN q :
          (i \in DOMAIN a /\ q[i] = a[i]) \/ \E k \in DOMAIN b : q[i] = b[k]
    <3> TAKE i \in DOMAIN q
    <3>1. CASE i <= Len(a)
      BY <1>1, <1>2, <1>3, <3>1
    <3>2. CASE i > Len(a)
      BY <1>2, <1>3, <1>4, <3>2
    <3> QED BY <1>2, <1>3, <3>1, <3>2
  <2> QED BY <2>1, <2>2, <2>3 DEF Values
<1> QED BY <1>1, <1>2, <1>3, <1>4, <1>5 DEF q

\* Whatever has full pages before it and is not there is on a later page.
Behind(rows, S, m, P, n, x) ==
  /\ m \in Nat /\ P \in Nat /\ n \in Nat /\ n <= P
  /\ IsPage(rows, S, m * n, n) /\ x \in S /\ x \notin Values(rows)
  /\ Cardinality({y \in S : y > x}) >= m * P

LEMMA EtherPageReaches ==
  ASSUME NEW now, NEW S, IsList(S, now),
         NEW m, NEW P, NEW n, NEW rows, NEW x, Behind(rows, S, m, P, n, x)
  PROVE  /\ Len(rows) = n
         /\ Cardinality({y \in S : y > x}) >= m * n + n
<1> USE DEF Behind
<1> DEFINE start == m * n
<1>1. start \in Nat /\ m * P \in Nat /\ start <= m * P
  <2>1. P = n + (P - n) /\ P - n \in Nat
    OBVIOUS
  <2>2. m * P = m * n + m * (P - n) /\ m * n \in Nat /\ m * (P - n) \in Nat
    BY <2>1
  <2> QED BY <2>2
<1>2. IsPage(rows, S, start, n) /\ Cardinality(S) \in Nat
  BY DEF IsList
<1>3. PICK i \in 1 .. Cardinality(S) :
        NewestFirst(S)[i] = x /\ Cardinality({y \in S : y > x}) = i - 1
  BY PlaceIs
<1>4. i - 1 >= start
  BY <1>1, <1>2, <1>3
<1> HIDE DEF start
<1>5. /\ rows \in Seq(S) /\ Len(rows) \in Nat /\ DOMAIN rows = 1 .. Len(rows)
      /\ Len(rows) = IF start >= Cardinality(S) THEN 0 ELSE Less(n, Cardinality(S) - start)
      /\ \A k \in 1 .. Len(rows) : rows[k] = NewestFirst(S)[start + k]
  BY <1>2, SeqIs DEF IsPage
<1>6. ~(i - start <= Len(rows))
  <2> SUFFICES ASSUME i - start <= Len(rows) PROVE FALSE
    OBVIOUS
  <2>1. i - start \in 1 .. Len(rows) /\ start + (i - start) = i
    BY <1>1, <1>2, <1>4, <1>5
  <2>2. rows[i - start] = x
    BY <1>3, <1>5, <2>1
  <2> QED BY <1>5, <2>1, <2>2 DEF Values
<1>7. Len(rows) = n /\ i - 1 >= start + n
  BY <1>1, <1>2, <1>4, <1>5, <1>6 DEF Less
<1> QED BY <1>3, <1>7 DEF start

\* Of a wallet at rest the pages join.
LEMMA EtherPagesJoin ==
  ASSUME CollectAssumption, NEW now \in 0 .. MaxTx, NEW S, IsList(S, now),
         NEW j, j.network = "ethereum", j.network \in Network, j.limit \in Nat \ {0},
         j.raw \in Seq(Int), NumberedPages(j, S, now), QuietTill(j, now),
         NEW n, n = Less(PageLimit[j.network], j.limit - Len(j.raw))
  PROVE  /\ Leads(j.raw \o EtherRows(j, S, n), S)
         /\ Len(EtherRows(j, S, n)) < n
              => Len(j.raw \o EtherRows(j, S, n)) = Cardinality(S)
<1> DEFINE P == PageLimit[j.network]
           L == j.limit
           k == Len(j.raw)
           m == j.page - 1
           rows == EtherRows(j, S, n)
           q == j.raw \o rows
<1>1. /\ P \in Nat \ {0} /\ Cardinality(S) \in Nat /\ m \in Nat /\ k \in Nat /\ k < L
      /\ k = m * P /\ k <= Cardinality(S) /\ L \in Nat
      /\ L <= P \/ L % P = 0
      /\ DOMAIN j.raw = 1 .. k /\ \A i \in 1 .. k : j.raw[i] = NewestFirst(S)[i]
  <2>1. P \in Nat \ {0} /\ Cardinality(S) \in Nat
    BY DEF CollectAssumption, IsList
  <2>2. k \in Nat /\ DOMAIN j.raw = 1 .. k
    BY SeqIs
  <2>3. m \in Nat /\ k < L /\ k = m * P /\ k <= Cardinality(S)
        /\ \A i \in DOMAIN j.raw : j.raw[i] = NewestFirst(S)[i]
    BY DEF NumberedPages
  <2>4. L <= P \/ L % P = 0
    BY DEF QuietTill
  <2> QED BY <2>1, <2>2, <2>3, <2>4
<1>2. n \in Nat /\ n = Less(P, L - k)
  BY <1>1 DEF Less
<1>3. IsPage(rows, S, m * n, n)
  <2>1. j.page \in Nat \ {0}
    BY DEF NumberedPages
  <2> QED BY <1>2, <2>1, EtherRowsAre, Zenon
<1> HIDE DEF P, L, k, m, rows
<1>4. m * n = k
  <2>1. RoomForPages(P, L, m, k, n)
    BY <1>1, <1>2 DEF RoomForPages
  <2> QED BY <2>1, FullPages
<1>5. /\ rows \in Seq(Int) /\ Len(rows) \in Nat
      /\ Len(rows) = IF k >= Cardinality(S) THEN 0 ELSE Less(n, Cardinality(S) - k)
      /\ \A i \in 1 .. Len(rows) :
           /\ k + i \in 1 .. Cardinality(S) /\ rows[i] = NewestFirst(S)[k + i]
  BY <1>3, <1>4 DEF IsPage
<1>6. /\ Len(q) = k + Len(rows)
      /\ \A i \in 1 .. k : q[i] = j.raw[i]
      /\ \A i \in 1 .. k + Len(rows) :
           i > k => i - k \in 1 .. Len(rows) /\ q[i] = rows[i - k]
  BY <1>5, LongerIs DEF k
<1> HIDE DEF q
<1>7. Len(q) <= Cardinality(S) /\ (Len(rows) < n => Len(q) = Cardinality(S))
  BY <1>1, <1>2, <1>5, <1>6 DEF Less
<1>8. \A i \in 1 .. Len(q) : q[i] = NewestFirst(S)[i]
  <2> SUFFICES ASSUME NEW i \in 1 .. k + Len(rows)
               PROVE  q[i] = NewestFirst(S)[i]
    BY <1>6
  <2>1. CASE i <= k
    <3>1. i \in 1 .. k
      BY <1>1, <2>1
    <3> QED BY <1>1, <1>6, <3>1
  <2>2. CASE i > k
    <3>1. i - k \in 1 .. Len(rows) /\ q[i] = rows[i - k]
      BY <1>6, <2>2
    <3>2. rows[i - k] = NewestFirst(S)[k + (i - k)] /\ k + (i - k) = i
      BY <1>1, <1>5, <3>1
    <3> QED BY <3>1, <3>2
  <2> QED BY <1>1, <1>5, <2>1, <2>2
<1> QED BY <1>7, <1>8 DEF q, rows, Leads

\* After a full page of Etherscan.
LEMMA EtherPageKeeps ==
  ASSUME CollectAssumption, NEW now \in 0 .. MaxTx, NEW S, S \subseteq 1 .. now,
         NEW j, j.network = "ethereum", j.network \in Network, j.limit \in Nat \ {0},
         j.raw \in Seq(Int), NumberedPages(j, S, now),
         NEW n, n = Less(PageLimit[j.network], j.limit - Len(j.raw)),
         NEW k, SameReport(j, k), k.page = j.page + 1,
         k.raw = j.raw \o EtherRows(j, S, n),
         Len(EtherRows(j, S, n)) >= n, Len(k.raw) < j.limit
  PROVE  NumberedPages(k, S, now)
<1> DEFINE P == PageLimit[j.network]
           rows == EtherRows(j, S, n)
           m == j.page - 1
<1>1. /\ P \in Nat \ {0} /\ Cardinality(S) \in Nat /\ IsList(S, now)
  BY OfferedIsList DEF CollectAssumption, IsList
<1>2. /\ Len(j.raw) \in Nat /\ Len(j.raw) < j.limit /\ n \in Nat /\ n <= P
      /\ m \in Nat /\ j.page \in Nat \ {0}
  BY <1>1, SeqIs DEF NumberedPages, Less
<1>13. IsPage(rows, S, m * n, n)
  BY <1>1, <1>2, EtherRowsAre, Zenon
<1> HIDE DEF rows
<1>3. /\ rows \in Seq(S) /\ rows \in Seq(Int)
      /\ Len(rows) = IF m * n >= Cardinality(S) THEN 0 ELSE Less(n, Cardinality(S) - m * n)
  BY <1>13 DEF IsPage
<1>4. /\ Len(k.raw) = Len(j.raw) + Len(rows) /\ Len(rows) \in Nat
      /\ Values(k.raw) = Values(j.raw) \cup Values(rows)
      /\ DOMAIN k.raw = 1 .. Len(k.raw) /\ k.raw \in Seq(Int)
  BY <1>3, LongerIs DEF rows
<1>5. Len(rows) = n /\ n = P
  <2>4. Len(rows) >= n /\ Len(j.raw) + Len(rows) < j.limit
    BY <1>4 DEF rows
  <2>5. n = P \/ n = j.limit - Len(j.raw)
    BY DEF Less
  <2> HIDE DEF P, m
  <2>1. m * n \in Nat
    BY <1>2
  <2>2. Len(rows) <= n
    BY <1>1, <1>2, <1>3, <2>1 DEF Less
  <2>6. j.limit \in Nat
    OBVIOUS
  <2> QED BY <1>2, <1>4, <2>2, <2>4, <2>5, <2>6
<1>6. \A i \in 1 .. Len(rows) : rows[i] \in S
  BY <1>3, SeqIs
<1>7. Rows(k, k.raw, S)
  <2>1. \A y \in Values(j.raw) : y \in S
    BY DEF NumberedPages, Rows, Values
  <2>2. \A y \in Values(rows) : y \in S
    BY <1>3, <1>6, SeqIs DEF Values
  <2>3. \A i \in DOMAIN k.raw : k.raw[i] \in S
    BY <1>4, <2>1, <2>2 DEF Values
  <2> QED BY <2>3 DEF Rows, SameReport
<1>8. m * P + P = (k.page - 1) * PageLimit[k.network] /\ k.page \in Nat \ {0}
  <2>1. k.page - 1 = m + 1 /\ k.page \in Nat \ {0} /\ PageLimit[k.network] = P
    BY <1>2 DEF SameReport
  <2> HIDE DEF m, P
  <2>2. (m + 1) * P = m * P + P
    BY <1>1, <1>2
  <2> QED BY <2>1, <2>2
<1>9. ASSUME NEW x \in S, x <= k.asked
      PROVE  \/ x \in Values(k.raw)
             \/ Cardinality({y \in S : y > x}) >= (k.page - 1) * PageLimit[k.network]
  <2>1. x <= j.asked
    BY <1>9 DEF SameReport
  <2>2. CASE x \in Values(j.raw) \/ x \in Values(rows)
    BY <1>4, <2>2
  <2>3. CASE x \notin Values(j.raw) /\ x \notin Values(rows)
    <3>1. Cardinality({y \in S : y > x}) >= m * P
      BY <2>1, <2>3 DEF NumberedPages
    <3>2. Cardinality({y \in S : y > x}) >= m * n + n
      <4> HIDE DEF m, P
      <4>1. Behind(rows, S, m, P, n, x)
        BY <1>1, <1>2, <1>13, <2>3, <3>1 DEF Behind
      <4> QED BY <1>1, <4>1, EtherPageReaches
    <3> QED BY <1>5, <1>8, <3>2
  <2> QED BY <2>2, <2>3
<1>10. ASSUME QuietTill(k, now)
       PROVE  /\ Len(k.raw) = (k.page - 1) * PageLimit[k.network]
              /\ Len(k.raw) <= Cardinality(S)
              /\ \A i \in DOMAIN k.raw : k.raw[i] = NewestFirst(S)[i]
  <2>1. QuietTill(j, now)
    BY <1>10, SameOffered
  <2>2. Leads(k.raw, S)
    BY <1>1, <2>1, EtherPagesJoin
  <2>3. Len(j.raw) = m * P
    BY <2>1 DEF NumberedPages
  <2> QED BY <1>4, <1>5, <1>8, <2>2, <2>3 DEF Leads
<1>11. Len(k.raw) < k.limit
  BY DEF SameReport
<1> QED BY <1>7, <1>8, <1>9, <1>10, <1>11 DEF NumberedPages

LEMMA LessIs ==
  ASSUME NEW a \in Nat, NEW b \in Nat, NEW c \in Nat, a <= b, a <= c, a >= b \/ a = c
  PROVE  a = Less(b, c)
BY DEF Less

\* The last page of Etherscan, or the limit.
LEMMA EtherPageCompletes ==
  ASSUME CollectAssumption, NEW now \in 0 .. MaxTx, NEW S, S \subseteq 1 .. now,
         NEW j, j.network = "ethereum", j.network \in Network, j.limit \in Nat \ {0},
         j.until \in Nat, j.asked \in Nat, j.until <= j.asked,
         j.raw \in Seq(Int), NumberedPages(j, S, now),
         NEW n, n = Less(PageLimit[j.network], j.limit - Len(j.raw)),
         NEW k, SameReport(j, k), k.raw = j.raw \o EtherRows(j, S, n),
         \/ Len(EtherRows(j, S, n)) < n
         \/ Len(k.raw) >= j.limit /\ k.truncated
  PROVE  Complete(k, k.raw, S, now)
<1> DEFINE P == PageLimit[j.network]
           rows == EtherRows(j, S, n)
           m == j.page - 1
<1>1. /\ P \in Nat \ {0} /\ Cardinality(S) \in Nat /\ IsList(S, now)
  BY OfferedIsList DEF CollectAssumption, IsList
<1>2. /\ Len(j.raw) \in Nat /\ Len(j.raw) < j.limit /\ n \in Nat /\ n <= P
      /\ m \in Nat /\ j.page \in Nat \ {0}
  BY <1>1, SeqIs DEF NumberedPages, Less
<1>13. IsPage(rows, S, m * n, n)
  BY <1>1, <1>2, EtherRowsAre, Zenon
<1> HIDE DEF rows
<1>3. rows \in Seq(S) /\ rows \in Seq(Int)
  BY <1>13 DEF IsPage
<1>4. /\ Len(k.raw) = Len(j.raw) + Len(rows) /\ Len(rows) \in Nat
      /\ Values(k.raw) = Values(j.raw) \cup Values(rows)
      /\ DOMAIN k.raw = 1 .. Len(k.raw) /\ k.raw \in Seq(Int)
  BY <1>3, LongerIs DEF rows
<1>6. \A i \in 1 .. Len(rows) : rows[i] \in S
  BY <1>3, SeqIs
<1>7. Rows(k, k.raw, S)
  <2>1. \A y \in Values(j.raw) : y \in S
    BY DEF NumberedPages, Rows, Values
  <2>2. \A y \in Values(rows) : y \in S
    BY <1>3, <1>6, SeqIs DEF Values
  <2>3. \A i \in DOMAIN k.raw : k.raw[i] \in S
    BY <1>4, <2>1, <2>2 DEF Values
  <2> QED BY <2>3 DEF Rows, SameReport
<1>8. Whole(k, k.raw, S, now)
  <2> SUFFICES ASSUME ~k.truncated, NEW x \in Part(k, S)
               PROVE  x \in Values(k.raw)
    BY DEF Whole
  <2>1. Len(rows) < n
    BY DEF rows
  <2>2. x \in S /\ x <= j.asked
    BY DEF Part, InPeriod, SameReport
  <2>3. CASE x \in Values(j.raw) \/ x \in Values(rows)
    BY <1>4, <2>3
  <2>4. CASE x \notin Values(j.raw) /\ x \notin Values(rows)
    <3>1. Cardinality({y \in S : y > x}) >= m * P
      BY <2>2, <2>4 DEF NumberedPages
    <3>2. Len(rows) = n
      <4> HIDE DEF m, P
      <4>1. Behind(rows, S, m, P, n, x)
        BY <1>1, <1>2, <1>13, <2>2, <2>4, <3>1 DEF Behind
      <4>2. /\ Len(rows) = n
            /\ Cardinality({y \in S : y > x}) >= m * n + n
        BY <1>1, <4>1, EtherPageReaches
      <4> QED BY <4>2
    <3> QED BY <1>2, <2>1, <3>2
  <2> QED BY <2>3, <2>4
<1>9. ASSUME QuietTill(k, now)
      PROVE  Distinct(k.raw) /\ News(k.raw) = Newest(S, k.limit)
  <2>1. QuietTill(j, now)
    BY <1>9, SameOffered
  <2>2. /\ Leads(j.raw \o EtherRows(j, S, n), S)
        /\ Len(EtherRows(j, S, n)) < n
             => Len(j.raw \o EtherRows(j, S, n)) = Cardinality(S)
    BY <1>1, <2>1, EtherPagesJoin, Zenon
  <2>3. /\ Leads(k.raw, S)
        /\ Len(EtherRows(j, S, n)) < n => Len(k.raw) = Cardinality(S)
    BY <2>2
  <2>4. k.limit \in Nat /\ k.limit = j.limit
    BY DEF SameReport
  <2>5. Len(k.raw) <= k.limit
    <3>1. Len(rows) <= n
      <4> HIDE DEF P, m
      <4>1. m * n \in Nat
        BY <1>2
      <4> QED BY <1>1, <1>2, <1>13, <4>1 DEF IsPage, Less
    <3>2. n + Len(j.raw) <= k.limit
      <4> HIDE DEF P
      <4> QED BY <1>1, <1>2, <2>4 DEF Less, P
    <3>3. /\ Len(j.raw) \in Nat /\ Len(rows) \in Nat /\ n \in Nat /\ k.limit \in Nat
          /\ Len(k.raw) = Len(j.raw) + Len(rows)
      BY <1>2, <1>4, <2>4, Zenon
    <3> HIDE DEF P, m
    <3>4. \A a, b, c, d \in Nat : b <= c /\ c + a <= d => a + b <= d
      OBVIOUS
    <3>5. Len(j.raw) + Len(rows) <= k.limit
      BY <3>1, <3>2, <3>3, <3>4
    <3> QED BY <3>3, <3>5, Zenon
  <2>6. Len(k.raw) = Less(k.limit, Cardinality(S))
    <3>1. Len(k.raw) <= Cardinality(S)
      BY <2>3 DEF Leads
    <3>2. Len(k.raw) >= k.limit \/ Len(k.raw) = Cardinality(S)
      BY <2>3, Zenon DEF SameReport
    <3>3. Len(k.raw) \in Nat
      BY <1>4, SeqIs, Zenon
    <3> QED BY <1>1, <2>4, <2>5, <3>1, <3>2, <3>3, LessIs, Zenon
  <2> QED BY <1>4, <2>3, <2>4, <2>6, PrefixIsNewest
<1>10. Top(k, k.raw, {S}, now)
  <2>1. k.limit \in Reach(k) /\ Offered(k, S) = S
    BY DEF Reach, Offered, SameReport
  <2> QED BY <1>9, <2>1, TopIs
<1> QED BY <1>7, <1>8, <1>10 DEF Complete

\* What the chain lists after the last transaction seen.
Later(j, S) ==
  IF j.raw = <<>> \/ j.raw[Len(j.raw)] = Pending THEN S
  ELSE {t \in S : t < j.raw[Len(j.raw)]}

LEMMA LaterIs ==
  ASSUME CollectAssumption, NEW now \in 0 .. MaxTx, NEW S, S \subseteq 1 .. now,
         NEW j, j.raw \in Seq(Int), NEW n \in Nat, LinkedPages(j, S, n)
  PROVE  /\ IsList(Later(j, S), now) /\ Later(j, S) \subseteq S
         /\ Len(j.raw) = n => Later(j, S) = S
         /\ Len(j.raw) > n => Later(j, S) = {t \in S : t < j.raw[Len(j.raw)]}
<1>1. Later(j, S) \subseteq S
  BY DEF Later
<1>2. IsList(Later(j, S), now)
  <2>1. now \in Nat
    BY DEF CollectAssumption
  <2> QED BY <1>1, <2>1, ListIs
<1>3. Len(j.raw) \in Nat /\ n <= Len(j.raw)
  BY SeqIs DEF LinkedPages
<1>4. ASSUME Len(j.raw) = n PROVE Later(j, S) = S
  <2>1. CASE n = 0
    BY <1>4, <2>1 DEF Later
  <2>2. CASE n # 0
    <3>1. Len(j.raw) \in 1 .. n
      BY <1>3, <1>4, <2>2
    <3> QED BY <3>1 DEF Later, LinkedPages
  <2> QED BY <2>1, <2>2
<1>5. ASSUME Len(j.raw) > n PROVE Later(j, S) = {t \in S : t < j.raw[Len(j.raw)]}
  <2>1. j.raw # <<>>
    BY <1>5
  <2>2. Len(j.raw) \in n + 1 .. Len(j.raw)
    BY <1>3, <1>5
  <2>3. j.raw[Len(j.raw)] \in 1 .. now
    BY <2>2 DEF LinkedPages
  <2>4. j.raw[Len(j.raw)] # Pending
    BY <2>3 DEF Pending, CollectAssumption
  <2> QED BY <2>1, <2>4 DEF Later
<1> QED BY <1>1, <1>2, <1>4, <1>5

\* A page of Blockstream, or its last.
ChainRows(j, S) == First(NewestFirst(Later(j, S)), PageLimit[j.network])

\* The rows so far, with another page.
Linked(j, k, S, n, now) ==
  /\ SameReport(j, k) /\ k.target = j.target
  /\ k.raw = j.raw \o ChainRows(j, S)
  /\ n \in Nat /\ LinkedPages(j, S, n)

LEMMA ChainRowsAre ==
  ASSUME CollectAssumption, NEW now \in 0 .. MaxTx, NEW S, S \subseteq 1 .. now,
         NEW j, j.network \in Network, j.raw \in Seq(Int), NEW n \in Nat, LinkedPages(j, S, n)
  PROVE  IsHead(ChainRows(j, S), Later(j, S), PageLimit[j.network])
<1>1. PageLimit[j.network] \in Nat
  BY DEF CollectAssumption
<1>2. IsList(Later(j, S), now)
  BY LaterIs
<1> QED BY <1>1, <1>2, HeadIs DEF ChainRows

LEMMA ChainPageIs ==
  ASSUME CollectAssumption, NEW now \in 0 .. MaxTx, NEW S, S \subseteq 1 .. now,
         NEW j, j.network \in Network, j.raw \in Seq(Int), NEW n, NEW k,
         Linked(j, k, S, n, now)
  PROVE  /\ LinkedPages(k, S, n) /\ k.raw \in Seq(Int)
         /\ Len(ChainRows(j, S)) < PageLimit[j.network]
              => \A x \in S : x <= j.asked => x \in Values(k.raw)
<1> DEFINE rows == ChainRows(j, S)
           O == Later(j, S)
           last == j.raw[Len(j.raw)]
           P == PageLimit[j.network]
<1> USE DEF Linked
<1>1. /\ rows \in Seq(Int) /\ Len(rows) = Less(P, Cardinality(O)) /\ Len(rows) \in Nat
      /\ DOMAIN rows = 1 .. Len(rows) /\ Leads(rows, O) /\ Values(rows) \subseteq O
      /\ \A i \in 1 .. Len(rows) : rows[i] \in O
  BY ChainRowsAre DEF IsHead
<1>2. /\ O \subseteq Int /\ IsFiniteSet(O) /\ O \subseteq S
      /\ Cardinality(O) \in Nat /\ P \in Nat \ {0}
      /\ Len(j.raw) = n => O = S
      /\ Len(j.raw) > n => O = {t \in S : t < last}
  <2>1. /\ IsList(O, now) /\ O \subseteq S
        /\ Len(j.raw) = n => O = S
        /\ Len(j.raw) > n => O = {t \in S : t < last}
    BY LaterIs
  <2>2. P \in Nat \ {0}
    BY DEF CollectAssumption
  <2> QED BY <2>1, <2>2 DEF IsList
<1> HIDE DEF rows, O
<1>3. /\ \A i, m \in 1 .. Len(rows) : i < m => rows[i] > rows[m]
      /\ Len(rows) = Cardinality(O) => Values(rows) = O
      /\ \A x \in O \ Values(rows) :
           /\ {y \in Values(rows) : y > x} = Values(rows)
           /\ Cardinality({y \in Values(rows) : y > x}) = Len(rows)
  <2>1. /\ O \subseteq Int /\ IsFiniteSet(O) /\ rows \in Seq(Int) /\ Leads(rows, O)
    BY <1>1, <1>2
  <2>2. TopOf(rows, O)
    BY <2>1, PrefixIsTop
  <2> QED BY <2>2 DEF TopOf
<1>4. /\ k.raw \in Seq(Int) /\ Len(k.raw) = Len(j.raw) + Len(rows)
      /\ Len(j.raw) \in Nat /\ DOMAIN j.raw = 1 .. Len(j.raw)
      /\ \A i \in 1 .. Len(j.raw) : k.raw[i] = j.raw[i]
      /\ \A i \in 1 .. Len(k.raw) :
           i > Len(j.raw) =>
             i - Len(j.raw) \in 1 .. Len(rows) /\ k.raw[i] = rows[i - Len(j.raw)]
      /\ Values(k.raw) = Values(j.raw) \cup Values(rows)
  <2>1. k.raw = j.raw \o rows /\ rows \in Seq(Int) /\ j.raw \in Seq(Int)
    BY <1>1 DEF rows
  <2>2. /\ j.raw \o rows \in Seq(Int) /\ Len(j.raw \o rows) = Len(j.raw) + Len(rows)
        /\ DOMAIN j.raw = 1 .. Len(j.raw) /\ Len(j.raw) \in Nat
        /\ \A i \in 1 .. Len(j.raw) : (j.raw \o rows)[i] = j.raw[i]
        /\ \A i \in 1 .. Len(j.raw) + Len(rows) :
             i > Len(j.raw) =>
               i - Len(j.raw) \in 1 .. Len(rows) /\ (j.raw \o rows)[i] = rows[i - Len(j.raw)]
        /\ Values(j.raw \o rows) = Values(j.raw) \cup Values(rows)
    BY <2>1, LongerIs
  <2> QED BY <2>1, <2>2
<1>5. /\ n \in Nat /\ n <= Len(j.raw)
      /\ j.target = Less(MaxItems, j.limit + n)
      /\ \A i \in 1 .. n : j.raw[i] = Pending
      /\ \A i \in n + 1 .. Len(j.raw) : j.raw[i] \in S
      /\ \A i, m \in n + 1 .. Len(j.raw) : i < m => j.raw[i] > j.raw[m]
      /\ \A x \in S :
           x <= j.asked /\ Len(j.raw) > n => x \in Values(j.raw) \/ x < last
  BY DEF LinkedPages
<1>6. n <= Len(k.raw) /\ k.target = Less(MaxItems, k.limit + n)
  BY <1>1, <1>4, <1>5 DEF SameReport
<1>7. \A i \in 1 .. n : k.raw[i] = Pending
  <2> SUFFICES ASSUME NEW i \in 1 .. n PROVE k.raw[i] = Pending
    OBVIOUS
  <2>1. i \in 1 .. Len(j.raw)
    BY <1>4, <1>5
  <2> QED BY <1>4, <1>5, <2>1
<1>8. \A i \in n + 1 .. Len(k.raw) :
        \/ i \in n + 1 .. Len(j.raw) /\ k.raw[i] = j.raw[i] /\ i \in 1 .. Len(j.raw)
        \/ /\ i > Len(j.raw) /\ i - Len(j.raw) \in 1 .. Len(rows)
           /\ k.raw[i] = rows[i - Len(j.raw)]
  <2> SUFFICES ASSUME NEW i \in n + 1 .. Len(k.raw)
               PROVE  \/ /\ i \in n + 1 .. Len(j.raw) /\ k.raw[i] = j.raw[i]
                         /\ i \in 1 .. Len(j.raw)
                      \/ /\ i > Len(j.raw) /\ i - Len(j.raw) \in 1 .. Len(rows)
                         /\ k.raw[i] = rows[i - Len(j.raw)]
    OBVIOUS
  <2>1. i \in 1 .. Len(k.raw)
    BY <1>1, <1>4, <1>5
  <2>2. CASE i <= Len(j.raw)
    <3>1. i \in 1 .. Len(j.raw) /\ i \in n + 1 .. Len(j.raw)
      BY <1>4, <1>5, <2>2
    <3> QED BY <1>4, <3>1
  <2>3. CASE i > Len(j.raw)
    BY <1>4, <2>1, <2>3
  <2> QED BY <1>4, <1>5, <2>2, <2>3
<1>9. \A i \in n + 1 .. Len(k.raw) : k.raw[i] \in S
  BY <1>1, <1>2, <1>5, <1>8
<1>10. ASSUME NEW i \in n + 1 .. Len(k.raw), NEW m \in n + 1 .. Len(k.raw), i < m
       PROVE  k.raw[i] > k.raw[m]
  <2>1. CASE m \in n + 1 .. Len(j.raw) /\ k.raw[m] = j.raw[m]
    <3>1. i \in n + 1 .. Len(j.raw) /\ k.raw[i] = j.raw[i]
      BY <1>4, <1>5, <1>8, <1>10, <2>1
    <3> QED BY <1>5, <1>10, <2>1, <3>1
  <2>2. CASE /\ m > Len(j.raw) /\ m - Len(j.raw) \in 1 .. Len(rows)
             /\ k.raw[m] = rows[m - Len(j.raw)]
    <3>1. CASE i \in n + 1 .. Len(j.raw) /\ k.raw[i] = j.raw[i]
      <4>1. Len(j.raw) > n /\ Len(j.raw) \in n + 1 .. Len(j.raw)
        BY <1>4, <1>5, <3>1
      <4>2. k.raw[m] < last
        BY <1>1, <1>2, <2>2, <4>1
      <4>3. j.raw[i] > last \/ i = Len(j.raw)
        BY <1>5, <3>1, <4>1
      <4>4. j.raw[i] \in Int /\ last \in Int /\ k.raw[m] \in Int
        <5>1. j.raw[i] \in S /\ last \in S /\ k.raw[m] \in S /\ S \subseteq Int
          BY <1>5, <1>9, <3>1, <4>1
        <5> QED BY <5>1
      <4> QED BY <3>1, <4>2, <4>3, <4>4
    <3>2. CASE /\ i > Len(j.raw) /\ i - Len(j.raw) \in 1 .. Len(rows)
               /\ k.raw[i] = rows[i - Len(j.raw)]
      <4>1. i - Len(j.raw) < m - Len(j.raw)
        BY <1>4, <1>10
      <4> QED BY <1>3, <2>2, <3>2, <4>1
    <3> QED BY <1>8, <3>1, <3>2
  <2> QED BY <1>8, <2>1, <2>2
<1>11. ASSUME NEW x \in S, x <= j.asked, x \notin Values(j.raw)
       PROVE  x \in O
  BY <1>2, <1>4, <1>5, <1>11
<1>12. ASSUME NEW x \in S, x <= k.asked, Len(k.raw) > n
       PROVE  x \in Values(k.raw) \/ x < k.raw[Len(k.raw)]
  <2> SUFFICES ASSUME x \notin Values(j.raw), x \notin Values(rows)
               PROVE  x < k.raw[Len(k.raw)]
    BY <1>4
  <2>1. x \in O /\ x <= j.asked
    BY <1>11, <1>12 DEF SameReport
  <2>2. CASE Len(rows) = 0
    <3>1. Len(k.raw) = Len(j.raw) /\ Len(j.raw) > n /\ Len(k.raw) \in 1 .. Len(j.raw)
      BY <1>4, <1>5, <1>12, <2>2
    <3>2. k.raw[Len(k.raw)] = last
      BY <1>4, <3>1
    <3> QED BY <1>5, <2>1, <3>1, <3>2
  <2>3. CASE Len(rows) # 0
    <3>1. Len(k.raw) \in 1 .. Len(k.raw) /\ Len(k.raw) > Len(j.raw) /\ Len(rows) \in 1 .. Len(rows)
      BY <1>1, <1>4, <2>3
    <3>2. k.raw[Len(k.raw)] = rows[Len(rows)]
      <4>1. Len(k.raw) - Len(j.raw) = Len(rows)
        BY <1>1, <1>4
      <4> QED BY <1>4, <3>1, <4>1
    <3>3. rows[Len(rows)] \in Values(rows)
      BY <1>1, <3>1 DEF Values
    <3>4. rows[Len(rows)] > x
      BY <1>3, <2>1, <3>3
    <3>5. x \in Int /\ rows[Len(rows)] \in Int
      BY <1>1, <1>2, <2>1, <3>1
    <3> QED BY <3>2, <3>4, <3>5
  <2> QED BY <2>2, <2>3
<1>13. LinkedPages(k, S, n)
  BY <1>5, <1>6, <1>7, <1>9, <1>10, <1>12 DEF LinkedPages
<1>14. ASSUME Len(rows) < P, NEW x \in S, x <= j.asked
       PROVE  x \in Values(k.raw)
  <2>1. Values(rows) = O
    BY <1>1, <1>2, <1>3, <1>14 DEF Less
  <2> QED BY <1>4, <1>11, <1>14, <2>1
<1> QED BY <1>4, <1>13, <1>14 DEF rows

\* Why Blockstream is asked no more: its list has ended, there are rows enough,
\* or the server's cap left no room.
LinkedEnds(k, S, n) ==
  \/ /\ \A x \in S : x <= k.asked => x \in Values(k.raw)
     /\ Len(k.raw) < k.target + PageLimit[k.network]
  \/ /\ k.truncated /\ Len(k.raw) >= k.target
     /\ Len(k.raw) < k.target + PageLimit[k.network]
  \/ n >= MaxItems

LEMMA ReachIs ==
  ASSUME NEW limit \in Nat, NEW n \in Nat, NEW m \in Nat, NEW P \in Nat \ {0},
         n + m < limit + n + P
  PROVE  LET l == IF m <= limit THEN limit ELSE m
         IN /\ l \in limit .. limit + P - 1 /\ l \in Nat /\ m <= l
            /\ n + m >= limit + n => m \in limit .. limit + P - 1
OBVIOUS

\* Then its rows have the newest of the chain.
LEMMA LinkedPagesTop ==
  ASSUME CollectAssumption, NEW now \in 0 .. MaxTx, NEW S, S \subseteq 1 .. now,
         NEW k, k.network = "bitcoin", k.network \in Network, k.limit \in Nat \ {0},
         k.until \in Nat, k.asked \in Nat, k.until <= k.asked,
         k.raw \in Seq(Int), NEW n \in Nat, n = k.pooled, LinkedPages(k, S, n),
         LinkedEnds(k, S, n)
  PROVE  Complete(k, k.raw, S, now)
<1> DEFINE q == k.raw
           m == Len(q) - n
           r == [i \in 1 .. m |-> q[n + i]]
           P == PageLimit[k.network]
<1>1. /\ Len(q) \in Nat /\ DOMAIN q = 1 .. Len(q) /\ q \in Seq(Int)
      /\ \A i \in 1 .. Len(q) : q[i] \in Int
  BY SeqIs
<1>2. /\ n \in Nat /\ n <= Len(q)
      /\ k.target = Less(MaxItems, k.limit + n)
      /\ \A i \in 1 .. n : q[i] = Pending
      /\ \A i \in n + 1 .. Len(q) : q[i] \in S
      /\ \A i, l \in n + 1 .. Len(q) : i < l => q[i] > q[l]
      /\ \A x \in S : x <= k.asked /\ Len(q) > n => x \in Values(q) \/ x < q[Len(q)]
  BY DEF LinkedPages
<1>3. \A i \in 1 .. Len(q) : i \in 1 .. n \/ i \in n + 1 .. Len(q)
  BY <1>1, <1>2
<1>4. S \subseteq Int /\ Pending \notin S /\ S \subseteq Transfer /\ Pending \notin Transfer
  BY DEF Pending, Transfer, CollectAssumption
<1>14. \/ /\ \A x \in S : x <= k.asked => x \in Values(q)
          /\ Len(q) < k.target + P
       \/ k.truncated /\ Len(q) >= k.target /\ Len(q) < k.target + P
       \/ n >= MaxItems
  BY DEF LinkedEnds
<1>15. P \in Nat \ {0} /\ MaxItems \in Nat \ {0}
  BY DEF CollectAssumption
<1> HIDE DEF q, P
<1>5. Rows(k, q, S)
  <2>1. \A i \in 1 .. Len(q) : q[i] \in S \/ q[i] = Pending
    BY <1>2, <1>3
  <2> QED BY <1>1, <2>1 DEF Rows
<1>6. Part(k, S) \subseteq S /\ \A x \in Part(k, S) : x <= k.asked
  <2>1. \A x \in Part(k, S) : x \in S /\ x <= k.until
    BY DEF Part, InPeriod
  <2>2. ASSUME NEW x \in Part(k, S) PROVE x <= k.asked
    <3>1. x \in Int /\ x <= k.until
      BY <1>4, <2>1
    <3> QED BY <3>1
  <2> QED BY <2>1, <2>2
<1>7. Whole(k, q, S, now)
  <2> SUFFICES ASSUME Still(k, now), ~k.truncated PROVE Part(k, S) \subseteq Values(q)
    BY DEF Whole
  <2>1. ~(n >= MaxItems)
    BY <1>15 DEF Still
  <2> QED BY <1>6, <1>14, <2>1
<1>8. Distinct(q)
  <2> SUFFICES ASSUME NEW i \in 1 .. Len(q), NEW l \in 1 .. Len(q), q[i] = q[l], q[i] # Pending
               PROVE  i = l
    BY <1>1 DEF Distinct
  <2>1. i \in n + 1 .. Len(q) /\ l \in n + 1 .. Len(q)
    BY <1>2, <1>3
  <2>2. ~(i < l) /\ ~(l < i)
    BY <1>1, <1>2, <2>1
  <2> QED BY <2>2
<1>9. ASSUME QuietTill(k, now)
      PROVE  \E l \in Reach(k) : News(q) = Newest(S, l)
  <2>1. /\ now = k.asked /\ k.limit + n <= MaxItems /\ k.target = k.limit + n
        /\ ~(n >= MaxItems)
    BY <1>2, <1>9, <1>15 DEF QuietTill, Less
  <2>2. m \in Nat
    BY <1>1, <1>2
  <2>3. \A x \in S : x <= k.asked
    BY <2>1
  <2>4. \A i \in 1 .. m : n + i \in n + 1 .. Len(q) /\ n + i \in 1 .. Len(q)
    <3>1. Len(q) \in Nat /\ n <= Len(q)
      BY <1>1, <1>2
    <3> QED BY <3>1
  <2>5. r \in Seq(Int) /\ Len(r) = m /\ DOMAIN r = 1 .. m
    <3>1. r \in [1 .. m -> Int]
      BY <1>1, <2>4
    <3> HIDE DEF r, m
    <3>2. r \in Seq(Int) /\ Len(r) = m
      BY <2>2, <3>1, SeqOf
    <3> QED BY <3>1, <3>2
  <2>6. \A i, l \in 1 .. m : i < l => r[i] > r[l]
    <3> SUFFICES ASSUME NEW i \in 1 .. m, NEW l \in 1 .. m, i < l PROVE r[i] > r[l]
      OBVIOUS
    <3>1. n + i < n + l
      BY <1>2
    <3> QED BY <1>2, <2>4, <3>1
  <2>7. Cardinality(Values(r)) = m
    <3> HIDE DEF r, m
    <3> QED BY <2>5, <2>6, RankIs
  <2>8. News(q) = Values(r)
    <3>1. ASSUME NEW i \in 1 .. m PROVE r[i] \in News(q)
      <4>1. q[n + i] \in S /\ q[n + i] \in Values(q)
        BY <1>1, <1>2, <2>4 DEF Values
      <4> QED BY <1>4, <4>1 DEF News
    <3>2. ASSUME NEW i \in 1 .. Len(q), q[i] \in Transfer PROVE q[i] \in Values(r)
      <4>1. i \in n + 1 .. Len(q)
        BY <1>2, <1>3, <1>4, <3>2
      <4>2. i - n \in 1 .. m /\ n + (i - n) = i
        <5>1. Len(q) \in Nat /\ n \in Nat /\ i \in n + 1 .. Len(q)
          BY <1>1, <1>2, <4>1
        <5> QED BY <5>1
      <4> QED BY <2>5, <4>2 DEF Values
    <3>3. Values(r) \subseteq News(q)
      BY <2>5, <3>1 DEF Values
    <3>4. News(q) \subseteq Values(r)
      <4>1. ASSUME NEW x \in News(q) PROVE x \in Values(r)
        <5>1. PICK i \in 1 .. Len(q) : x = q[i] /\ q[i] \in Transfer
          BY <1>1, <4>1 DEF News, Values
        <5> QED BY <3>2, <5>1
      <4> QED BY <4>1
    <3> QED BY <3>3, <3>4
  <2>9. ASSUME NEW x \in S \ News(q), NEW y \in News(q)
        PROVE  y > x
    <3>1. PICK i \in 1 .. m : y = q[n + i]
      BY <2>5, <2>8 DEF Values
    <3>2. Len(q) > n /\ n + i \in n + 1 .. Len(q) /\ Len(q) \in n + 1 .. Len(q)
      <4>1. Len(q) \in Nat /\ n \in Nat /\ n + i \in n + 1 .. Len(q) /\ n + i \in Int
        BY <1>1, <1>2, <2>4
      <4> QED BY <4>1
    <3>3. x < q[Len(q)]
      BY <1>2, <1>4, <2>3, <2>9, <3>2 DEF News
    <3>4. y > q[Len(q)] \/ y = q[Len(q)]
      <4>1. n + i < Len(q) \/ n + i = Len(q)
        <5>1. Len(q) \in Nat /\ n + i <= Len(q) /\ n + i \in Int
          BY <1>1, <1>2, <3>2
        <5> QED BY <5>1
      <4>2. \A a, b \in n + 1 .. Len(q) : a < b => q[a] > q[b]
        BY <1>2
      <4> QED BY <3>1, <3>2, <4>1, <4>2
    <3>5. x \in Int /\ y \in Int /\ q[Len(q)] \in Int
      BY <1>2, <1>4, <3>1, <3>2
    <3> QED BY <3>3, <3>4, <3>5
  <2>10. S \subseteq Int /\ IsFiniteSet(S) /\ News(q) \subseteq S
    <3>1. \A i \in 1 .. m : r[i] \in S
      BY <1>2, <2>4
    <3>2. Values(r) \subseteq S
      <4> HIDE DEF r, m
      <4> QED BY <2>5, <3>1 DEF Values
    <3>3. S \subseteq Int /\ IsFiniteSet(S)
      BY OfferedIs
    <3> QED BY <2>8, <3>2, <3>3
  <2>11. Reach(k) = k.limit .. k.limit + P - 1
    BY DEF Reach, P
  <2> HIDE DEF r
  <2>12. Len(q) = n + m
    BY <1>1, <1>2
  <2> HIDE DEF m
  <2>13. CASE /\ \A x \in S : x <= k.asked => x \in Values(q)
              /\ Len(q) < k.target + P
    <3>1. News(q) = S
      BY <1>4, <2>3, <2>10, <2>13 DEF News
    <3>2. Cardinality(S) = m
      BY <2>7, <2>8, <3>1
    <3> DEFINE l == IF m <= k.limit THEN k.limit ELSE m
    <3>3. l \in Reach(k) /\ l \in Nat /\ m <= l
      <4>1. n + m < k.limit + n + P /\ k.limit \in Nat
        BY <2>1, <2>12, <2>13
      <4> QED BY <1>15, <2>2, <2>11, <4>1, ReachIs
    <3> HIDE DEF l
    <3>4. News(q) = Newest(S, l)
      BY <2>9, <2>10, <3>1, <3>2, <3>3, NewestIs
    <3> QED BY <3>3, <3>4
  <2>14. CASE Len(q) >= k.target /\ Len(q) < k.target + P
    <3>1. m \in Reach(k)
      <4>1. n + m < k.limit + n + P /\ n + m >= k.limit + n /\ k.limit \in Nat
        BY <2>1, <2>12, <2>14
      <4> QED BY <1>15, <2>2, <2>11, <4>1, ReachIs
    <3>2. Cardinality(News(q)) = m
      BY <2>7, <2>8
    <3>3. News(q) = Newest(S, m)
      BY <2>2, <2>9, <2>10, <3>2, NewestIs
    <3> QED BY <3>1, <3>3
  <2> QED BY <1>14, <2>1, <2>13, <2>14
<1>10. Top(k, q, {S}, now)
  <2>1. Offered(k, S) = S
    BY DEF Offered
  <2> QED BY <1>8, <1>9, <2>1, TopIs
<1> QED BY <1>5, <1>7, <1>10 DEF Complete, q
-----------------------------------------------------------------------------
(***************************************************************************)
(* The end of a stream.                                                    *)
(***************************************************************************)
\* What is known of the report, its rows and its result.
JobInv == job \in Job /\ Paged /\ Collected /\ QuietIsExact /\ UnmarkedIsWhole

\* The stream that ends is complete, and no page is out.
Ending(j) ==
  /\ j \in Job /\ j.pc \in UnderWay /\ j.todo = {}
  /\ Going(j, chain["coin"], clock)
  /\ Complete(j, j.raw, chain[j.stream], clock)

LEMMA ChainIs ==
  ASSUME CollectTypeOK, Numbered
  PROVE  /\ clock \in 0 .. MaxTx /\ chain["coin"] \subseteq 1 .. clock
         /\ chain["token"] \subseteq 1 .. clock /\ chain["coin"] \cap chain["token"] = {}
         /\ \A s \in Stream : chain[s] \subseteq 1 .. clock
BY DEF CollectTypeOK, Numbered, Stream

LEMMA EndOfFirstStream ==
  ASSUME CollectAssumption, CollectTypeOK, Numbered, chain' = chain, clock' = clock,
         NEW j, Ending(j), j.network # "bitcoin", j.stream = "coin", EndStream(j),
         \A c \in Caller : offset'[c] = NoOffset
  PROVE  JobInv'
<1>1. job' = [j EXCEPT !.pc = Opening(j.network), !.stream = "token",
                       !.got = j.raw, !.raw = <<>>, !.page = 1, !.target = 0,
                       !.truncated = j.truncated]
  BY DEF EndStream, KeepMark
<1>2. /\ j \in Job /\ j.todo = {} /\ j.network \in Network /\ j.limit \in Nat \ {0}
      /\ Complete(j, j.raw, chain["coin"], clock)
  BY DEF Ending, Going
<1>3. /\ j.raw \in Seq(0 .. Pending) /\ j.truncated \in BOOLEAN
  BY <1>2 DEF Job
<1>4. j.raw \in Seq(1 .. Pending)
  <2>1. clock \in 0 .. MaxTx /\ chain["coin"] \subseteq 1 .. clock
    BY ChainIs
  <2> QED BY <1>2, <1>3, <2>1, RowsAreThere DEF Complete
<1> DEFINE k == job'
<1>5. /\ k.pc = Opening(j.network) /\ k.stream = "token" /\ k.got = j.raw /\ k.raw = <<>>
      /\ k.page = 1 /\ k.target = 0 /\ k.truncated = j.truncated /\ k.todo = {}
      /\ k.network = j.network /\ k.limit = j.limit /\ k.from = j.from
      /\ k.until = j.until /\ k.asked = j.asked /\ k.pooled = j.pooled
  BY <1>1, <1>2 DEF Job
<1>6. \/ k.network = "tron" /\ k.pc = "first"
      \/ k.network = "ethereum" /\ k.pc = "page"
  BY <1>2, <1>5 DEF Opening, CollectAssumption
<1>7. job' \in Job
  <2>1. Opening(j.network) \in {"first", "page"}
    BY <1>5, <1>6
  <2>2. <<>> \in Seq(0 .. Pending) /\ "token" \in Stream /\ 1 \in Nat /\ 0 \in Nat
    BY DEF Stream
  <2> QED BY <1>1, <1>2, <1>3, <1>4, <2>1, <2>2 DEF Job
<1> HIDE DEF k
<1>8. SameReport(j, k)
  BY <1>5 DEF SameReport
<1>9. Complete(k, k.got, chain["coin"], clock)
  <2>1. Complete(k, j.raw, chain["coin"], clock)
    BY <1>2, <1>8, SameComplete
  <2> QED BY <1>5, <2>1
<1>10. Going(k, chain["coin"], clock)
  BY <1>2, <1>5, <1>6, <1>9 DEF Ending, Going
<1>11. Collected'
  <2>1. k.network = NetworkOf(k.pc) /\ k.pc # "done"
    BY <1>6 DEF NetworkOf
  <2> QED BY <1>10, <2>1 DEF Collected, k
<1>12. NumberedPages(k, chain[k.stream], clock)
  <2>1. clock \in 0 .. MaxTx /\ chain[k.stream] \subseteq 1 .. clock
    BY <1>5, ChainIs
  <2>2. k.network \in Network /\ k.limit \in Nat \ {0} /\ k.page = 1 /\ k.raw = <<>>
    BY <1>2, <1>5
  <2> QED BY <2>1, <2>2, NoRows
<1>13. Paged'
  <2>1. k.pc \in {"first", "page"}
    BY <1>6
  <2> QED BY <1>5, <1>12, <2>1 DEF Paged, k
<1>14. QuietIsExact' /\ UnmarkedIsWhole'
  <2>1. k.pc # "done"
    BY <1>6
  <2> QED BY <2>1 DEF QuietIsExact, UnmarkedIsWhole, k
<1> QED BY <1>7, <1>11, <1>13, <1>14 DEF JobInv

\* All streams of a report.
All(j) == {chain[s] : s \in Streams(j)}

LEMMA AllIs ==
  ASSUME CollectTypeOK, Numbered, NEW j
  PROVE  /\ All(j) = IF j.network = "bitcoin" THEN {chain["coin"]}
                     ELSE {chain["coin"], chain["token"]}
         /\ UNION All(j) \subseteq 1 .. clock
<1>1. CASE j.network = "bitcoin"
  <2>1. Streams(j) = {"coin"}
    BY <1>1 DEF Streams
  <2>2. All(j) = {chain["coin"]}
    BY <2>1 DEF All
  <2> QED BY <1>1, <2>2, ChainIs
<1>2. CASE j.network # "bitcoin"
  <2>1. Streams(j) = {"coin", "token"}
    BY <1>2 DEF Streams, Stream
  <2>2. All(j) = {chain["coin"], chain["token"]}
    BY <2>1 DEF All
  <2> QED BY <1>2, <2>2, ChainIs
<1> QED BY <1>1, <1>2

\* The rows a report is made of.
LEMMA EndIsReady ==
  ASSUME CollectAssumption, CollectTypeOK, Numbered, NEW j, Ending(j),
         j.network = "bitcoin" \/ j.stream # "coin"
  PROVE  Ready(j, j.got \o j.raw, All(j), clock)
<1>1. /\ clock \in 0 .. MaxTx /\ chain["coin"] \subseteq 1 .. clock
      /\ chain["token"] \subseteq 1 .. clock /\ chain["coin"] \cap chain["token"] = {}
  BY ChainIs
<1>2. /\ j.raw \in Seq(0 .. Pending) /\ j.got \in Seq(1 .. Pending) /\ j.stream \in Stream
      /\ j.limit \in Nat /\ j.truncated \in BOOLEAN
  BY DEF Ending, Job
<1>3. CASE j.network = "bitcoin"
  <2>1. j.got = <<>> /\ Complete(j, j.raw, chain["coin"], clock)
    BY <1>3 DEF Ending, Going
  <2>2. j.got \o j.raw = j.raw
    BY <1>2, <2>1
  <2>3. Ready(j, j.raw, {chain["coin"]}, clock)
    BY <1>1, <1>2, <2>1, OneStreamIsReady
  <2> QED BY <1>3, <2>2, <2>3, AllIs
<1>4. CASE j.network # "bitcoin"
  <2>1. j.stream = "token"
    BY <1>2, <1>4 DEF Stream
  <2>2. /\ Complete(j, j.got, chain["coin"], clock)
        /\ Complete(j, j.raw, chain["token"], clock)
    BY <2>1 DEF Ending, Going
  <2>3. Ready(j, j.got \o j.raw, {chain["coin"], chain["token"]}, clock)
    BY <1>1, <1>2, <1>4, <2>2, TwoStreamsAreReady
  <2> QED BY <1>4, <2>3, AllIs
<1> QED BY <1>3, <1>4

\* What had been listed when a report was asked for is what is offered, if
\* nothing has appeared since.
LEMMA ListedIs ==
  ASSUME CollectAssumption, CollectTypeOK, Numbered, NEW k
  PROVE  /\ Due(k) \subseteq Own(k, UNION All(k))
         /\ k.asked = clock =>
              /\ Due(k) = Own(k, UNION All(k))
              /\ \A n : UNION {Newest(Listed(k, s), n) : s \in Streams(k)}
                          = Looked(k, All(k), n)
<1>1. \A s \in Streams(k) : Listed(k, s) \subseteq Offered(k, chain[s])
  BY DEF Listed, Offered, Part
<1>2. Due(k) \subseteq Own(k, UNION All(k))
  <2>1. ASSUME NEW t \in Due(k) PROVE t \in Own(k, UNION All(k))
    <3>1. PICK s \in Streams(k) : t \in Listed(k, s)
      BY DEF Due
    <3>2. t \in chain[s] /\ InPeriod(k, t) /\ Counts(k, t)
      BY <3>1 DEF Due, Listed
    <3> QED BY <3>2 DEF Own, Part, All
  <2> QED BY <2>1
<1>3. ASSUME k.asked = clock
      PROVE  /\ Own(k, UNION All(k)) \subseteq Due(k)
             /\ \A s \in Streams(k) : Listed(k, s) = Offered(k, chain[s])
  <2>1. \A s \in Streams(k) : \A t \in chain[s] : t <= k.asked
    <3>1. Streams(k) \subseteq Stream
      BY DEF Streams, Stream
    <3>2. \A s \in Stream : \A t \in chain[s] : t \in 1 .. clock
      BY DEF Numbered
    <3> QED BY <1>3, <3>1, <3>2 DEF CollectTypeOK
  <2>2. \A s \in Streams(k) : Listed(k, s) = Offered(k, chain[s])
    BY <2>1 DEF Listed, Offered, Part
  <2>3. ASSUME NEW t \in Own(k, UNION All(k)) PROVE t \in Due(k)
    <3>1. PICK s \in Streams(k) : t \in chain[s]
      BY DEF Own, Part, All
    <3>2. InPeriod(k, t) /\ Counts(k, t)
      BY DEF Own, Part
    <3>3. t \in Listed(k, s)
      BY <2>1, <3>1, <3>2 DEF Listed
    <3> QED BY <3>2, <3>3 DEF Due
  <2> QED BY <2>2, <2>3
<1>4. ASSUME k.asked = clock, NEW n
      PROVE  UNION {Newest(Listed(k, s), n) : s \in Streams(k)} = Looked(k, All(k), n)
  <2>1. \A s \in Streams(k) : Newest(Listed(k, s), n) = Newest(Offered(k, chain[s]), n)
    BY <1>3, <1>4
  <2>2. Looked(k, All(k), n) = UNION {Newest(Offered(k, chain[s]), n) : s \in Streams(k)}
    BY DEF Looked, All
  <2> QED BY <2>1, <2>2
<1> QED BY <1>2, <1>3, <1>4

LEMMA EndOfReport ==
  ASSUME CollectAssumption, CollectTypeOK, Numbered, chain' = chain, clock' = clock,
         NEW j, Ending(j), j.network = "bitcoin" \/ j.stream # "coin", EndStream(j),
         \A c \in Caller : offset'[c] = NoOffset
  PROVE  JobInv'
<1> DEFINE q == j.got \o j.raw
           k == job'
           F == All(j)
<1>1. job' = [Idle EXCEPT
                !.pc = "done", !.network = j.network, !.limit = j.limit,
                !.from = j.from, !.until = j.until, !.asked = j.asked,
                !.stream = j.stream, !.pooled = j.pooled,
                !.got = First(Merged(j, q), j.limit),
                !.truncated = j.truncated \/ Len(Merged(j, q)) > j.limit,
                !.ended = clock]
  BY DEF EndStream
<1>2. /\ j.network \in Network /\ j.limit \in Nat /\ j.from \in Nat
      /\ j.until \in 0 .. Pending /\ j.until \in Nat
      /\ j.network = "bitcoin" => j.until <= clock
      /\ j.asked \in 0 .. MaxTx /\ j.asked <= clock /\ j.pooled \in 0 .. MaxPool
      /\ j.truncated \in BOOLEAN /\ j.stream \in Stream
  <2>1. j \in Job /\ Going(j, chain["coin"], clock)
    BY DEF Ending
  <2>2. /\ j.limit \in Nat /\ j.from \in Nat /\ j.until \in 0 .. Pending
        /\ j.asked \in 0 .. MaxTx /\ j.pooled \in 0 .. MaxPool
        /\ j.truncated \in BOOLEAN /\ j.stream \in Stream
    BY <2>1 DEF Job
  <2>3. /\ j.network \in Network /\ j.asked <= clock
        /\ j.network # "tron" => j.until <= j.asked
    BY <2>1 DEF Going
  <2>4. clock \in Nat /\ j.until \in Nat /\ j.asked \in Nat
    BY <2>2 DEF CollectAssumption, CollectTypeOK, Pending
  <2> QED BY <2>2, <2>3, <2>4
<1>3. clock \in 0 .. MaxTx /\ UNION F \subseteq 1 .. clock
  BY ChainIs, AllIs
<1>4. Ready(j, q, F, clock)
  BY EndIsReady
<1> HIDE DEF q, F
<1>5. /\ First(Merged(j, q), j.limit) \in Seq(1 .. Pending)
      /\ Still(j, clock)
           => \/ j.truncated \/ Len(Merged(j, q)) > j.limit
              \/ Own(j, UNION F) \subseteq Values(First(Merged(j, q), j.limit))
      /\ QuietTill(j, clock) => IsExact(j, q, F)
  <2>1. /\ j.limit \in Nat /\ j.from \in Nat /\ j.until \in Nat
        /\ j.network = "bitcoin" => j.until <= clock
        /\ j.truncated \in BOOLEAN
    BY <1>2
  <2> QED BY <1>3, <1>4, <2>1, ReportIs, Zenon
<1>6. /\ k.pc = "done" /\ k.network = j.network /\ k.limit = j.limit /\ k.from = j.from
      /\ k.until = j.until /\ k.asked = j.asked /\ k.pooled = j.pooled
      /\ k.got = First(Merged(j, q), j.limit)
      /\ k.truncated = (j.truncated \/ Len(Merged(j, q)) > j.limit)
      /\ k.ended = clock /\ k.todo = {}
  BY <1>1 DEF Idle
<1>7. job' \in Job
  <2> DEFINE got == First(Merged(j, q), j.limit)
             mark == j.truncated \/ Len(Merged(j, q)) > j.limit
  <2>1. got \in Seq(1 .. Pending) /\ mark \in BOOLEAN
    BY <1>2, <1>5
  <2>2. job' = [Idle EXCEPT
                  !.pc = "done", !.network = j.network, !.limit = j.limit,
                  !.from = j.from, !.until = j.until, !.asked = j.asked,
                  !.stream = j.stream, !.pooled = j.pooled,
                  !.got = got, !.truncated = mark, !.ended = clock]
    BY <1>1
  <2> HIDE DEF got, mark
  <2>3. <<>> \in Seq(0 .. Pending)
    OBVIOUS
  <2> QED BY <1>2, <1>3, <2>1, <2>2, <2>3 DEF Job, Idle
<1> HIDE DEF k
<1>8. /\ All(k) = F
      /\ \A t : InPeriod(k, t) = InPeriod(j, t) /\ Counts(k, t) = Counts(j, t)
  BY <1>6 DEF Streams, InPeriod, Counts, All, F
<1>9. /\ Own(k, UNION F) = Own(j, UNION F) /\ Reach(k) = Reach(j)
      /\ \A n : Looked(k, F, n) = Looked(j, F, n)
  <2>1. \A X : Part(k, X) = Part(j, X)
    BY <1>8 DEF Part
  <2>2. \A X : Offered(k, X) = Offered(j, X)
    BY <1>6, <2>1 DEF Offered
  <2>3. Own(k, UNION F) = Own(j, UNION F)
    BY <1>8, <2>1 DEF Own
  <2>4. \A n : Looked(k, F, n) = Looked(j, F, n)
    BY <2>2 DEF Looked
  <2> QED BY <1>6, <2>3, <2>4 DEF Reach
<1>10. /\ Due(job)' = Due(k) /\ \A s : Listed(job, s)' = Listed(k, s)
  BY DEF Due, Listed, k
<1>11. QuietIsExact'
  <2> SUFFICES ASSUME Quiet(k)
               PROVE  \E n \in Reach(k) :
                        k.got = First(NewestFirst(Due(k) \cap
                                  UNION {Newest(Listed(k, s), n) : s \in Streams(k)}), k.limit)
    BY <1>10 DEF QuietIsExact, k
  <2>1. QuietTill(j, clock) /\ k.asked = clock
    BY <1>6 DEF Quiet, QuietTill
  <2>2. PICK n \in Reach(k) :
          k.got = First(NewestFirst(Own(k, UNION F) \cap Looked(k, F, n)), k.limit)
    <3>1. IsExact(j, q, F)
      BY <1>5, <2>1
    <3> QED BY <1>6, <1>9, <3>1 DEF IsExact
  <2>3. /\ Due(k) = Own(k, UNION F)
        /\ UNION {Newest(Listed(k, s), n) : s \in Streams(k)} = Looked(k, F, n)
    BY <1>8, <2>1, ListedIs
  <2> QED BY <2>2, <2>3
<1>12. UnmarkedIsWhole'
  <2> SUFFICES ASSUME ~k.truncated, Settled(k), k.network = "bitcoin" => k.pooled < MaxItems
               PROVE  Due(k) \subseteq {k.got[i] : i \in DOMAIN k.got}
    BY <1>10 DEF UnmarkedIsWhole, Settled, InPeriod, k
  <2>1. Still(j, clock)
    BY <1>6, <1>8 DEF Settled, Still
  <2>2. Own(j, UNION F) \subseteq Values(k.got)
    BY <1>5, <1>6, <2>1
  <2>3. Due(k) \subseteq Own(k, UNION F)
    BY <1>8, ListedIs
  <2> QED BY <1>9, <2>2, <2>3 DEF Values
<1>13. Collected'
  BY <1>2, <1>3, <1>6 DEF Collected, UnderWay, k
<1>14. Paged'
  BY <1>6 DEF Paged, k
<1> QED BY <1>7, <1>11, <1>12, <1>13, <1>14 DEF JobInv

\* A stream that is complete ends well.
LEMMA EndStreamInv ==
  ASSUME CollectAssumption, CollectTypeOK, Numbered, chain' = chain, clock' = clock,
         NEW j, Ending(j), EndStream(j), \A c \in Caller : offset'[c] = NoOffset
  PROVE  JobInv'
<1>1. CASE j.network # "bitcoin" /\ j.stream = "coin"
  BY <1>1, EndOfFirstStream
<1>2. CASE j.network = "bitcoin" \/ j.stream # "coin"
  BY <1>2, EndOfReport
<1> QED BY <1>1, <1>2
-----------------------------------------------------------------------------
(***************************************************************************)
(* The steps of a report.                                                  *)
(***************************************************************************)
CollectInv == CollectTypeOK /\ Calls /\ Numbered /\ JobInv

LEMMA ServedIs ==
  ASSUME NEW j
  PROVE  Served(j) = NewestFirst(Offered(j, chain[j.stream]))
BY DEF Served, Offered, Part

LEMMA SameGoing ==
  ASSUME NEW j, NEW k, SameReport(j, k), k.stream = j.stream, k.got = j.got,
         NEW S, NEW now, Going(j, S, now)
  PROVE  Going(k, S, now)
<1>1. ASSUME Complete(j, j.got, S, now) PROVE Complete(k, k.got, S, now)
  <2>1. Complete(k, j.got, S, now)
    BY <1>1, SameComplete
  <2> QED BY <2>1
<1> QED BY <1>1 DEF SameReport, Going

\* The report that is under way.
LEMMA UnderWayIs ==
  ASSUME CollectAssumption, CollectInv, job.pc \in UnderWay
  PROVE  /\ job \in Job /\ Going(job, chain["coin"], clock) /\ job.network = NetworkOf(job.pc)
         /\ job.network \in Network /\ job.limit \in Nat \ {0} /\ job.from \in Nat
         /\ job.until \in Nat /\ job.raw \in Seq(0 .. Pending) /\ job.raw \in Seq(Int)
         /\ job.stream \in Stream /\ job.target \in Nat /\ job.page \in Nat
         /\ job.truncated \in BOOLEAN
         /\ job.asked \in Nat /\ job.asked <= clock /\ job.pooled \in Nat
         /\ job.network # "tron" => job.until <= job.asked
         /\ clock \in 0 .. MaxTx /\ clock \in Nat /\ chain[job.stream] \subseteq 1 .. clock
<1>1. job \in Job /\ Going(job, chain["coin"], clock) /\ job.network = NetworkOf(job.pc)
  BY DEF CollectInv, JobInv, Collected
<1>2. /\ job.network \in Network /\ job.limit \in Nat \ {0} /\ job.asked <= clock
      /\ job.network # "tron" => job.until <= job.asked
  BY <1>1 DEF Going
<1>3. /\ job.from \in Nat /\ job.until \in 0 .. Pending /\ job.raw \in Seq(0 .. Pending)
      /\ job.stream \in Stream /\ job.target \in Nat /\ job.page \in Nat
      /\ job.truncated \in BOOLEAN /\ job.asked \in 0 .. MaxTx /\ job.pooled \in 0 .. MaxPool
  BY <1>1 DEF Job
<1>4. clock \in 0 .. MaxTx /\ chain[job.stream] \subseteq 1 .. clock
  BY <1>3, ChainIs DEF CollectInv
<1>5. job.raw \in Seq(Int)
  <2>1. 0 .. Pending \subseteq Int
    BY DEF Pending, CollectAssumption
  <2> QED BY <1>3, <2>1, WiderSeq
<1>6. job.until \in Nat /\ clock \in Nat /\ job.asked \in Nat /\ job.pooled \in Nat
  BY <1>3, <1>4 DEF CollectAssumption, Pending
<1> QED BY <1>1, <1>2, <1>3, <1>4, <1>5, <1>6

\* The first page of Tronscan.
LEMMA TronFirstInv ==
  ASSUME CollectAssumption, CollectInv, job.pc = "first", TronFirst(job),
         chain' = chain, clock' = clock, \A c \in Caller : offset'[c] = NoOffset
  PROVE  JobInv'
<1> DEFINE S == chain[job.stream]
           O == Offered(job, S)
           P == PageLimit[job.network]
           rows == First(NewestFirst(O), Less(P, job.limit))
           total == Less(Cardinality(O), job.limit)
           done == [job EXCEPT !.raw = rows,
                               !.truncated = job.truncated \/ Cardinality(O) > Len(rows)]
           rest == [job EXCEPT !.pc = "rest", !.raw = rows, !.target = Cardinality(O),
                               !.todo = RestOffsets(job, Len(rows), total)]
<1>1. /\ job \in Job /\ Going(job, chain["coin"], clock) /\ job.network = "tron"
      /\ job.network \in Network /\ job.limit \in Nat \ {0} /\ job.from \in Nat
      /\ job.stream \in Stream /\ job.truncated \in BOOLEAN
      /\ clock \in 0 .. MaxTx /\ S \subseteq 1 .. clock
  <2>1. job.pc \in UnderWay /\ NetworkOf(job.pc) = "tron"
    BY DEF UnderWay, NetworkOf
  <2> QED BY <2>1, UnderWayIs
<1>2. job.raw = <<>> /\ job.todo = {}
  BY DEF CollectInv, JobInv, Paged
<1>3. P \in Nat \ {0} /\ Less(P, job.limit) \in Nat /\ Less(P, job.limit) \in Nat \ {0}
  BY <1>1 DEF CollectAssumption, Less
<1>4. IsList(O, clock) /\ O \subseteq 1 .. clock
  BY <1>1, OfferedIsList
<1>5. IsHead(rows, O, Less(P, job.limit))
  <2> HIDE DEF O, P
  <2> QED BY <1>3, <1>4, HeadIs
<1>6. /\ rows \in Seq(0 .. Pending) /\ Cardinality(O) \in Nat /\ Len(rows) \in Nat
      /\ Len(rows) = Less(Less(P, job.limit), Cardinality(O))
  <2>1. rows \in Seq(O) /\ Len(rows) \in Nat /\ Len(rows) = Less(Less(P, job.limit), Cardinality(O))
    BY <1>5 DEF IsHead
  <2>2. O \subseteq 0 .. Pending
    <3> HIDE DEF O
    <3> QED BY <1>1, <1>4 DEF Pending, CollectAssumption
  <2>3. Cardinality(O) \in Nat
    BY <1>4 DEF IsList
  <2> HIDE DEF rows, O
  <2> QED BY <2>1, <2>2, <2>3, WiderSeq
<1>7. IF FirstEnds(O, rows, P, job.limit)
        THEN EndStream(IF rows = <<>> THEN job ELSE done)
        ELSE job' = rest
  <2>1. Served(job) = NewestFirst(O) /\ Len(NewestFirst(O)) = Cardinality(O)
    BY <1>4, ServedIs DEF IsList
  <2> QED BY <2>1 DEF TronFirst, FirstLimit, FirstEnds
<1> HIDE DEF O, P, rows, total
<1>8. CASE FirstEnds(O, rows, P, job.limit)
  <2> DEFINE e == IF rows = <<>> THEN job ELSE done
  <2>1. EndStream(e)
    BY <1>7, <1>8
  <2>2. /\ e \in Job /\ e.raw = rows /\ e.pc = "first" /\ e.todo = {} /\ e.stream = job.stream
        /\ e.got = job.got /\ e.network = job.network /\ e.limit = job.limit
        /\ e.from = job.from /\ e.until = job.until
        /\ e.asked = job.asked /\ e.pooled = job.pooled
        /\ (job.truncated => e.truncated)
        /\ (Cardinality(O) > Len(rows) => e.truncated)
    <3>1. CASE rows = <<>>
      <4>1. e = job /\ Len(rows) = 0
        BY <3>1
      <4>2. Cardinality(O) = 0
        BY <1>1, <1>3, <1>6, <4>1 DEF Less
      <4> HIDE DEF e
      <4> QED BY <1>1, <1>2, <3>1, <4>1, <4>2
    <3>2. CASE rows # <<>>
      <4> DEFINE mark == job.truncated \/ Cardinality(O) > Len(rows)
      <4>1. e = [job EXCEPT !.raw = rows, !.truncated = mark] /\ mark \in BOOLEAN
        BY <1>1, <3>2
      <4>2. (job.truncated => mark) /\ (Cardinality(O) > Len(rows) => mark)
        OBVIOUS
      <4> HIDE DEF e, mark
      <4> QED BY <1>1, <1>2, <1>6, <4>1, <4>2 DEF Job
    <3> QED BY <3>1, <3>2
  <2> HIDE DEF e
  <2>3. SameReport(job, e)
    BY <2>2 DEF SameReport
  <2>4. Going(e, chain["coin"], clock)
    BY <1>1, <2>2, <2>3, SameGoing
  <2>5. Offered(e, S) = O
    BY <2>3, SameOffered DEF O
  <2>6. Complete(e, rows, S, clock)
    <3>1. /\ e.network = "tron" /\ e.network \in Network /\ e.limit \in Nat \ {0} /\ e.from \in Nat
          /\ IsHead(rows, Offered(e, S), Less(PageLimit[e.network], e.limit))
          /\ FirstEnds(Offered(e, S), rows, PageLimit[e.network], e.limit)
          /\ Cardinality(Offered(e, S)) > Len(rows) => e.truncated
      BY <1>1, <1>5, <1>8, <2>2, <2>5 DEF P
    <3> QED BY <1>1, <3>1, FirstPageCompletes
  <2>7. Ending(e)
    BY <2>2, <2>4, <2>6 DEF Ending, UnderWay
  <2> QED BY <2>1, <2>7, EndStreamInv DEF CollectInv
<1>9. CASE ~FirstEnds(O, rows, P, job.limit)
  <2> DEFINE k == job'
             todo == RestOffsets(job, Len(rows), total)
  <2>1. job' = rest
    BY <1>7, <1>9
  <2>2. /\ k.pc = "rest" /\ k.raw = rows /\ k.target = Cardinality(O) /\ k.todo = todo
        /\ k.stream = job.stream /\ k.got = job.got /\ k.truncated = job.truncated
        /\ k.network = job.network /\ k.limit = job.limit /\ k.from = job.from
        /\ k.until = job.until
        /\ k.asked = job.asked /\ k.pooled = job.pooled
    <3> HIDE DEF todo
    <3> QED BY <1>1, <2>1 DEF Job, todo
  <2>3. SameReport(job, k)
    <3> HIDE DEF k
    <3> QED BY <2>2 DEF SameReport
  <2> HIDE DEF k
  <2>4. Offered(k, S) = O
    BY <2>3, SameOffered DEF O
  <2>5. RestPages(k, S, clock, k.todo) /\ k.todo \subseteq 0 .. MaxTx
    <3>1. todo = RestOffsets(k, Len(k.raw), Less(Cardinality(O), k.limit))
      BY <2>2 DEF RestOffsets, total
    <3>2. /\ k.network \in Network /\ k.limit \in Nat \ {0}
          /\ O = Offered(k, S) /\ P = PageLimit[k.network]
          /\ IsHead(k.raw, O, Less(P, k.limit))
          /\ ~FirstEnds(O, k.raw, P, k.limit)
          /\ k.target = Cardinality(O)
          /\ k.todo = RestOffsets(k, Len(k.raw), Less(Cardinality(O), k.limit))
      BY <1>1, <1>5, <1>9, <2>2, <2>4, <3>1 DEF P
    <3> QED BY <1>1, <3>2, FirstPageRests
  <2>6. job' \in Job
    <3> HIDE DEF todo
    <3>1. todo \in SUBSET (0 .. MaxTx)
      BY <2>2, <2>5
    <3> QED BY <1>1, <1>6, <2>1, <3>1 DEF Job, todo
  <2>7. AskedFor' = k.todo
    BY DEF AskedFor, k
  <2>8. Paged'
    BY <2>2, <2>5, <2>7 DEF Paged, k
  <2>9. Collected'
    <3>1. Going(k, chain["coin"], clock)
      BY <1>1, <2>2, <2>3, SameGoing
    <3>2. k.network = NetworkOf(k.pc) /\ k.pc # "done"
      BY <1>1, <2>2 DEF NetworkOf
    <3> QED BY <3>1, <3>2 DEF Collected, k
  <2>10. QuietIsExact' /\ UnmarkedIsWhole'
    BY <2>2 DEF QuietIsExact, UnmarkedIsWhole, k
  <2> QED BY <2>6, <2>8, <2>9, <2>10 DEF JobInv
<1> QED BY <1>8, <1>9

\* A page at another offset.
LEMMA TronRestInv ==
  ASSUME CollectAssumption, CollectInv, job.pc = "rest",
         NEW c \in Caller, offset[c] # NoOffset,
         offset' = [offset EXCEPT ![c] = NoOffset],
         NEW last, last = (job.todo = {} /\ \A d \in Caller \ {c} : offset[d] = NoOffset),
         TronRest(job, offset[c], last),
         chain' = chain, clock' = clock
  PROVE  JobInv'
<1> DEFINE S == chain[job.stream]
           o == offset[c]
           A == AskedFor
           all == [job EXCEPT !.raw = Placed(job, o)]
           full == [all EXCEPT !.truncated = @ \/ job.target > Len(all.raw)]
           B == job.todo \cup {offset'[d] : d \in {e \in Caller : offset'[e] # NoOffset}}
<1>1. /\ job \in Job /\ Going(job, chain["coin"], clock) /\ job.network = "tron"
      /\ job.network \in Network /\ job.limit \in Nat \ {0} /\ job.from \in Nat
      /\ job.raw \in Seq(Int) /\ job.target \in Nat
      /\ job.stream \in Stream /\ job.truncated \in BOOLEAN
      /\ clock \in 0 .. MaxTx /\ S \subseteq 1 .. clock
  <2>1. job.pc \in UnderWay /\ NetworkOf(job.pc) = "tron"
    BY DEF UnderWay, NetworkOf
  <2> QED BY <2>1, UnderWayIs
<1>2. RestPages(job, S, clock, A) /\ o \in A
  BY DEF CollectInv, JobInv, Paged, AskedFor
<1>3. offset \in [Caller -> (0 .. MaxTx) \cup {NoOffset}]
  BY DEF CollectInv, CollectTypeOK
<1>4. offset'[c] = NoOffset /\ \A d \in Caller \ {c} : offset'[d] = offset[d]
  BY <1>3
<1>5. B \subseteq A /\ A \ {o} \subseteq B
  <2>1. ASSUME NEW p \in B PROVE p \in A
    <3>1. CASE p \in job.todo
      BY <3>1 DEF AskedFor
    <3>2. CASE p \notin job.todo
      <4>1. PICK d \in Caller : offset'[d] # NoOffset /\ offset'[d] = p
        BY <2>1, <3>2
      <4>2. offset[d] = p /\ offset[d] # NoOffset
        BY <1>4, <4>1
      <4> QED BY <4>2 DEF AskedFor
    <3> QED BY <3>1, <3>2
  <2>2. ASSUME NEW p \in A \ {o} PROVE p \in B
    <3>1. CASE p \in job.todo
      BY <3>1
    <3>2. CASE p \notin job.todo
      <4>1. PICK d \in Caller : offset[d] # NoOffset /\ offset[d] = p
        BY <2>2, <3>2 DEF AskedFor
      <4>2. offset'[d] = p /\ offset'[d] # NoOffset
        BY <1>4, <2>2, <4>1
      <4> QED BY <4>2
    <3> QED BY <3>1, <3>2
  <2> QED BY <2>1, <2>2
<1>6. Served(job) = NewestFirst(Offered(job, S))
  BY ServedIs
<1>7. ASSUME NEW k, SameReport(job, k), k.target = job.target, k.raw = Placed(job, o)
      PROVE  /\ RestPages(k, S, clock, B) /\ Len(k.raw) = Total(k)
             /\ k.raw \in Seq(0 .. Pending)
  <2> HIDE DEF S, A, B, o
  <2> QED BY <1>1, <1>2, <1>5, <1>6, <1>7, RestPageKeeps
<1>8. /\ all.raw = Placed(job, o) /\ all.target = job.target /\ all.pc = "rest"
      /\ all.todo = job.todo /\ all.stream = job.stream /\ all.got = job.got
      /\ all.truncated = job.truncated /\ all.network = job.network
      /\ all.limit = job.limit /\ all.from = job.from /\ all.until = job.until
      /\ all.asked = job.asked /\ all.pooled = job.pooled
  <2> DEFINE raw == Placed(job, o)
  <2>1. all = [job EXCEPT !.raw = raw]
    OBVIOUS
  <2> HIDE DEF all, raw
  <2>2. all.raw = raw
    BY <1>1, <2>1 DEF Job
  <2>3. /\ all.target = job.target /\ all.pc = "rest"
        /\ all.todo = job.todo /\ all.stream = job.stream /\ all.got = job.got
        /\ all.truncated = job.truncated /\ all.network = job.network
        /\ all.limit = job.limit /\ all.from = job.from /\ all.until = job.until
        /\ all.asked = job.asked /\ all.pooled = job.pooled
    BY <1>1, <2>1 DEF Job
  <2> QED BY <2>2, <2>3 DEF raw
<1>9. SameReport(job, all)
  <2> HIDE DEF all
  <2> QED BY <1>8 DEF SameReport
<1>10. /\ RestPages(all, S, clock, B) /\ Len(all.raw) = Total(all)
       /\ all.raw \in Seq(0 .. Pending)
  <2> HIDE DEF all, S, B
  <2> QED BY <1>7, <1>8, <1>9
<1>11. all \in Job
  <2> DEFINE raw == Placed(job, o)
  <2>1. all = [job EXCEPT !.raw = raw] /\ raw \in Seq(0 .. Pending)
    BY <1>8, <1>10
  <2> HIDE DEF all, raw
  <2> QED BY <1>1, <2>1 DEF Job
<1>12. IF last THEN EndStream(full) ELSE job' = all
  BY DEF TronRest
<1>13. CASE last
  <2> DEFINE mark == all.truncated \/ job.target > Len(all.raw)
  <2>1. full = [all EXCEPT !.truncated = mark]
    OBVIOUS
  <2>2. Len(all.raw) \in Nat
    BY <1>10, SeqIs
  <2>3. mark \in BOOLEAN
    BY <1>1, <1>8, <2>2
  <2>4. (job.truncated => mark) /\ (job.target > Len(all.raw) => mark)
    BY <1>8
  <2>5. job.todo = {} /\ \A d \in Caller : offset'[d] = NoOffset
    BY <1>4, <1>13
  <2> HIDE DEF all, full, mark
  <2>6. /\ full \in Job /\ full.raw = Placed(job, o) /\ full.raw = all.raw
        /\ full.target = job.target /\ full.pc = "rest"
        /\ full.todo = {} /\ full.stream = job.stream /\ full.got = job.got
        /\ full.truncated = mark /\ full.network = job.network
        /\ full.limit = job.limit /\ full.from = job.from /\ full.until = job.until
        /\ full.asked = job.asked /\ full.pooled = job.pooled
    <3>1. /\ full \in Job /\ full.raw = all.raw
          /\ full.target = all.target /\ full.pc = all.pc
          /\ full.todo = all.todo /\ full.stream = all.stream /\ full.got = all.got
          /\ full.truncated = mark /\ full.network = all.network
          /\ full.limit = all.limit /\ full.from = all.from /\ full.until = all.until
          /\ full.asked = all.asked /\ full.pooled = all.pooled
      BY <1>11, <2>1, <2>3 DEF Job
    <3> QED BY <1>8, <2>5, <3>1
  <2>7. SameReport(job, full)
    BY <2>4, <2>6 DEF SameReport
  <2>8. B = {}
    BY <2>5
  <2>9. RestPages(full, S, clock, {}) /\ Len(full.raw) = Total(full)
    BY <1>7, <2>6, <2>7, <2>8
  <2>10. Complete(full, full.raw, S, clock)
    <3>1. full.raw \in Seq(Int)
      <4>1. 0 .. Pending \subseteq Int /\ full.raw \in Seq(0 .. Pending)
        BY <1>10, <2>6 DEF Pending, CollectAssumption
      <4> QED BY <4>1, WiderSeq
    <3>2. /\ full.network = "tron" /\ full.limit \in Nat /\ full.from \in Nat
          /\ full.target \in Nat /\ (full.target > Len(full.raw) => full.truncated)
      BY <1>1, <2>4, <2>6
    <3> QED BY <1>1, <2>9, <3>1, <3>2, RestPagesComplete
  <2>11. Going(full, chain["coin"], clock)
    BY <1>1, <2>6, <2>7, SameGoing
  <2>12. Ending(full)
    BY <2>6, <2>10, <2>11 DEF Ending, UnderWay
  <2> QED BY <1>12, <1>13, <2>5, <2>12, EndStreamInv DEF CollectInv
<1>14. CASE ~last
  <2>1. job' = all
    BY <1>12, <1>14
  <2> HIDE DEF all
  <2>2. AskedFor' = B
    BY <1>8, <2>1 DEF AskedFor
  <2>3. Paged'
    BY <1>8, <1>10, <2>1, <2>2 DEF Paged
  <2>4. Collected'
    <3>1. Going(all, chain["coin"], clock)
      BY <1>1, <1>8, <1>9, SameGoing
    <3>2. all.network = NetworkOf(all.pc) /\ all.pc # "done"
      BY <1>1, <1>8 DEF NetworkOf
    <3> QED BY <2>1, <3>1, <3>2 DEF Collected
  <2>5. QuietIsExact' /\ UnmarkedIsWhole'
    BY <1>8, <2>1 DEF QuietIsExact, UnmarkedIsWhole
  <2> QED BY <1>11, <2>1, <2>3, <2>4, <2>5 DEF JobInv
<1> QED BY <1>13, <1>14

\* A page of Etherscan.
LEMMA EtherPageInv ==
  ASSUME CollectAssumption, CollectInv, EtherPage
  PROVE  JobInv'
<1> DEFINE S == chain[job.stream]
           n == Less(PageLimit[job.network], job.limit - Len(job.raw))
           rows == EtherRows(job, S, n)
           raw == job.raw \o rows
           all == [job EXCEPT !.raw = raw, !.page = job.page + 1]
           full == [all EXCEPT !.truncated = TRUE]
<1>1. job.pc = "page" /\ chain' = chain /\ clock' = clock /\ offset' = offset
  BY DEF EtherPage
<1>2. /\ job \in Job /\ Going(job, chain["coin"], clock) /\ job.network = "ethereum"
      /\ job.network \in Network /\ job.limit \in Nat \ {0}
      /\ job.raw \in Seq(Int) /\ job.raw \in Seq(0 .. Pending) /\ job.page \in Nat
      /\ job.stream \in Stream /\ job.truncated \in BOOLEAN
      /\ job.until \in Nat /\ job.asked \in Nat /\ job.until <= job.asked
      /\ clock \in 0 .. MaxTx /\ S \subseteq 1 .. clock
  <2>1. job.pc \in UnderWay /\ NetworkOf(job.pc) = "ethereum"
    BY <1>1 DEF UnderWay, NetworkOf
  <2> QED BY <2>1, UnderWayIs
<1>3. /\ NumberedPages(job, S, clock) /\ job.todo = {}
      /\ \A c \in Caller : offset'[c] = NoOffset
  BY <1>1 DEF CollectInv, JobInv, Paged
<1>4. IsList(S, clock)
  BY <1>2, OfferedIsList
<1>5. n \in Nat
  <2>1. Len(job.raw) \in Nat /\ Len(job.raw) < job.limit
    BY <1>2, <1>3, SeqIs DEF NumberedPages
  <2>2. PageLimit[job.network] \in Nat
    BY <1>2 DEF CollectAssumption
  <2> QED BY <1>2, <2>1, <2>2 DEF Less
<1>6. Served(job) = NewestFirst(S)
  <2>1. Offered(job, S) = S
    BY <1>2 DEF Offered
  <2> QED BY <2>1, ServedIs
<1>7. IF Len(rows) < n THEN EndStream(all)
      ELSE IF Len(raw) >= job.limit THEN EndStream(full)
      ELSE job' = all
  <2>1. rows = Slice(Served(job), (job.page - 1) * n, n)
    BY <1>6 DEF EtherRows
  <2>2. all.raw = raw
    BY <1>2 DEF Job
  <2> HIDE DEF S
  <2> QED BY <2>1, <2>2 DEF EtherPage
<1> HIDE DEF n
<1>8. raw \in Seq(0 .. Pending)
  <2>1. IsPage(rows, S, (job.page - 1) * n, n)
    <3>1. job.page \in Nat \ {0}
      BY <1>3 DEF NumberedPages
    <3> QED BY <1>4, <1>5, <3>1, EtherRowsAre, Zenon
  <2>2. rows \in Seq(S)
    BY <2>1 DEF IsPage
  <2>3. S \subseteq 0 .. Pending
    BY <1>2 DEF Pending, CollectAssumption
  <2> HIDE DEF rows, S
  <2>4. rows \in Seq(0 .. Pending)
    BY <2>2, <2>3, WiderSeq
  <2> QED BY <1>2, <2>4, JoinedIs
<1>9. /\ all \in Job /\ all.raw = raw /\ all.page = job.page + 1 /\ all.pc = "page"
      /\ all.todo = {} /\ all.stream = job.stream /\ all.got = job.got
      /\ all.truncated = job.truncated /\ all.network = job.network
      /\ all.limit = job.limit /\ all.from = job.from /\ all.until = job.until
      /\ all.asked = job.asked /\ all.pooled = job.pooled
  <2>1. job.page + 1 \in Nat
    BY <1>2
  <2> HIDE DEF raw
  <2> QED BY <1>1, <1>2, <1>3, <1>8, <2>1 DEF Job
<1>10. /\ full \in Job /\ full.raw = raw /\ full.pc = "page"
       /\ full.todo = {} /\ full.stream = job.stream /\ full.got = job.got
       /\ full.truncated = TRUE /\ full.network = job.network
       /\ full.limit = job.limit /\ full.from = job.from /\ full.until = job.until
       /\ full.asked = job.asked /\ full.pooled = job.pooled
  <2> HIDE DEF all, raw
  <2> QED BY <1>9 DEF Job
<1> HIDE DEF all, full
<1>11. SameReport(job, all) /\ SameReport(job, full)
  BY <1>2, <1>9, <1>10 DEF SameReport
<1>12. ASSUME NEW k, SameReport(job, k), k.raw = raw, k \in Job, k.pc = "page", k.todo = {},
              k.stream = job.stream, k.got = job.got, EndStream(k),
              Len(rows) < n \/ (Len(raw) >= job.limit /\ k.truncated)
       PROVE  JobInv'
  <2>1. Complete(k, k.raw, S, clock)
    <3>1. /\ n = Less(PageLimit[job.network], job.limit - Len(job.raw))
          /\ k.raw = job.raw \o EtherRows(job, S, n)
          /\ \/ Len(EtherRows(job, S, n)) < n
             \/ Len(k.raw) >= job.limit /\ k.truncated
      BY <1>12 DEF n
    <3> HIDE DEF S
    <3> QED BY <1>2, <1>3, <1>12, <3>1, EtherPageCompletes DEF S
  <2>2. Going(k, chain["coin"], clock)
    BY <1>2, <1>12, SameGoing
  <2>3. Ending(k)
    BY <1>12, <2>1, <2>2 DEF Ending, UnderWay
  <2> QED BY <1>1, <1>3, <1>12, <2>3, EndStreamInv DEF CollectInv
<1>13. CASE Len(rows) < n
  BY <1>7, <1>9, <1>11, <1>12, <1>13
<1>14. CASE ~(Len(rows) < n) /\ Len(raw) >= job.limit
  BY <1>7, <1>10, <1>11, <1>12, <1>14
<1>15. CASE ~(Len(rows) < n) /\ ~(Len(raw) >= job.limit)
  <2>1. job' = all
    BY <1>7, <1>15
  <2>2. NumberedPages(all, S, clock)
    <3>1. Len(rows) >= n /\ Len(raw) < job.limit
      <4>1. rows \in Seq(Int) /\ Len(raw) \in Nat
        <5>1. IsPage(rows, S, (job.page - 1) * n, n)
          <6>1. job.page \in Nat \ {0}
            BY <1>3 DEF NumberedPages
          <6> QED BY <1>4, <1>5, <6>1, EtherRowsAre, Zenon
        <5>2. Len(raw) \in Nat
          <6> HIDE DEF raw
          <6> QED BY <1>8, SeqIs
        <5> QED BY <5>1, <5>2 DEF IsPage
      <4>2. Len(rows) \in Nat
        <5> HIDE DEF rows
        <5> QED BY <4>1, SeqIs
      <4>3. job.limit \in Nat
        BY <1>2
      <4>4. ~(Len(rows) < n) /\ ~(Len(raw) >= job.limit)
        BY <1>15
      <4> HIDE DEF rows, raw
      <4>5. Len(rows) >= n
        BY <1>5, <4>2, <4>4
      <4>6. Len(raw) < job.limit
        BY <4>1, <4>3, <4>4
      <4> QED BY <4>5, <4>6
    <3>2. /\ n = Less(PageLimit[job.network], job.limit - Len(job.raw))
          /\ all.raw = job.raw \o EtherRows(job, S, n)
          /\ Len(EtherRows(job, S, n)) >= n /\ Len(all.raw) < job.limit
      BY <1>9, <3>1 DEF n
    <3> HIDE DEF S
    <3> QED BY <1>2, <1>3, <1>9, <1>11, <3>2, EtherPageKeeps DEF S
  <2>3. Paged'
    BY <1>1, <1>3, <1>9, <2>1, <2>2 DEF Paged
  <2>4. Collected'
    <3>1. Going(all, chain["coin"], clock)
      BY <1>2, <1>9, <1>11, SameGoing
    <3>2. all.network = NetworkOf(all.pc) /\ all.pc # "done"
      BY <1>2, <1>9 DEF NetworkOf
    <3> QED BY <1>1, <2>1, <3>1, <3>2 DEF Collected
  <2>5. QuietIsExact' /\ UnmarkedIsWhole'
    BY <1>9, <2>1 DEF QuietIsExact, UnmarkedIsWhole
  <2> QED BY <1>9, <2>1, <2>3, <2>4, <2>5 DEF JobInv
<1> QED BY <1>13, <1>14, <1>15

\* What is unconfirmed.
LEMMA PoolPageInv ==
  ASSUME CollectAssumption, CollectInv, PoolPage
  PROVE  JobInv'
<1>0. PICK pool \in 0 .. MaxPool :
        LET n == Less(pool, job.limit)
        IN job' = [job EXCEPT !.pc = "chain", !.raw = [i \in 1 .. n |-> Pending],
                              !.pooled = n, !.target = Less(MaxItems, job.limit + n)]
  BY DEF PoolPage
<1> DEFINE n == Less(pool, job.limit)
           raw == [i \in 1 .. n |-> Pending]
           target == Less(MaxItems, job.limit + n)
           k == [job EXCEPT !.pc = "chain", !.raw = raw, !.pooled = n, !.target = target]
           S == chain[job.stream]
<1>1. /\ job.pc = "pool" /\ chain' = chain /\ clock' = clock /\ offset' = offset
      /\ job' = k
  BY <1>0 DEF PoolPage
<1>2. /\ job \in Job /\ Going(job, chain["coin"], clock) /\ job.network = "bitcoin"
      /\ job.limit \in Nat \ {0} /\ job.stream \in Stream /\ job.truncated \in BOOLEAN
      /\ clock \in 0 .. MaxTx /\ S \subseteq 1 .. clock
  <2>1. job.pc \in UnderWay /\ NetworkOf(job.pc) = "bitcoin"
    BY <1>1 DEF UnderWay, NetworkOf
  <2> QED BY <2>1, UnderWayIs
<1>3. job.todo = {} /\ \A c \in Caller : offset[c] = NoOffset
  BY <1>1 DEF CollectInv, JobInv, Paged
<1>4. n \in Nat /\ n \in 0 .. MaxPool /\ MaxItems \in Nat
  BY <1>0, <1>2 DEF Less, CollectAssumption
<1>5. raw \in Seq(0 .. Pending) /\ Len(raw) = n /\ \A i \in 1 .. n : raw[i] = Pending
  <2>1. Pending \in 0 .. Pending
    BY DEF Pending, CollectAssumption
  <2>2. raw \in [1 .. n -> 0 .. Pending] /\ \A i \in 1 .. n : raw[i] = Pending
    BY <2>1
  <2> HIDE DEF raw, n
  <2> QED BY <1>4, <2>2, SeqOf
<1>6. target \in Nat
  BY <1>2, <1>4 DEF Less
<1> HIDE DEF n, raw, target
<1>7. /\ k \in Job /\ k.pc = "chain" /\ k.raw = raw /\ k.target = target /\ k.pooled = n
      /\ k.todo = {} /\ k.stream = job.stream /\ k.got = job.got
      /\ k.truncated = job.truncated /\ k.network = job.network
      /\ k.limit = job.limit /\ k.from = job.from /\ k.until = job.until
      /\ k.asked = job.asked
  BY <1>2, <1>3, <1>4, <1>5, <1>6 DEF Job
<1> HIDE DEF k
<1>8. LinkedPages(k, S, n)
  <2>1. n + 1 .. n = {}
    BY <1>4
  <2> QED BY <1>4, <1>5, <1>7, <2>1 DEF LinkedPages, target
<1>9. Paged'
  <2>1. ~(Len(k.raw) > k.pooled)
    BY <1>4, <1>5, <1>7
  <2> QED BY <1>1, <1>3, <1>7, <1>8, <2>1 DEF Paged
<1>10. Collected'
  <2>1. Going(k, chain["coin"], clock)
    BY <1>2, <1>7 DEF Going
  <2>2. k.network = NetworkOf(k.pc) /\ k.pc # "done"
    BY <1>2, <1>7 DEF NetworkOf
  <2> QED BY <1>1, <2>1, <2>2 DEF Collected
<1>11. QuietIsExact' /\ UnmarkedIsWhole'
  BY <1>1, <1>7 DEF QuietIsExact, UnmarkedIsWhole
<1> QED BY <1>1, <1>7, <1>9, <1>10, <1>11 DEF JobInv

\* A page of the chain.
LEMMA ChainPageInv ==
  ASSUME CollectAssumption, CollectInv, ChainPage
  PROVE  JobInv'
<1> DEFINE S == chain[job.stream]
           rows == ChainRows(job, S)
           raw == job.raw \o rows
           all == [job EXCEPT !.raw = raw]
           full == [all EXCEPT !.truncated = TRUE]
<1>1. job.pc = "chain" /\ chain' = chain /\ clock' = clock /\ offset' = offset
  BY DEF ChainPage
<1>2. /\ job \in Job /\ Going(job, chain["coin"], clock) /\ job.network = "bitcoin"
      /\ job.network \in Network /\ job.limit \in Nat \ {0}
      /\ job.until \in Nat /\ job.asked \in Nat /\ job.until <= job.asked
      /\ job.pooled \in Nat
      /\ job.raw \in Seq(Int) /\ job.raw \in Seq(0 .. Pending)
      /\ job.target \in Nat /\ job.stream \in Stream /\ job.truncated \in BOOLEAN
      /\ clock \in 0 .. MaxTx /\ S \subseteq 1 .. clock
  <2>1. job.pc \in UnderWay /\ NetworkOf(job.pc) = "bitcoin"
    BY <1>1 DEF UnderWay, NetworkOf
  <2> QED BY <2>1, UnderWayIs
<1>3. job.stream = "coin"
  BY <1>2 DEF Going
<1>4. job.todo = {} /\ \A c \in Caller : offset'[c] = NoOffset
  BY <1>1 DEF CollectInv, JobInv, Paged
<1> DEFINE n == job.pooled
<1>5. /\ n \in Nat /\ LinkedPages(job, S, n)
      /\ Len(job.raw) > n => Len(job.raw) < job.target
  BY <1>1, <1>2 DEF CollectInv, JobInv, Paged
<1> HIDE DEF n
<1>6. After(job) = Later(job, S)
  BY <1>3 DEF After, Later
<1>7. IF Len(job.raw) >= job.target THEN EndStream(job)
      ELSE IF Len(rows) < PageLimit[job.network] THEN EndStream(all)
      ELSE IF Len(raw) >= job.target THEN EndStream(full)
      ELSE job' = all
  <2>1. rows = First(NewestFirst(After(job)), PageLimit[job.network])
    BY <1>6 DEF ChainRows
  <2>2. all.raw = raw
    BY <1>2 DEF Job
  <2> HIDE DEF S
  <2> QED BY <2>1, <2>2 DEF ChainPage
<1>8. raw \in Seq(0 .. Pending)
  <2>1. IsHead(rows, Later(job, S), PageLimit[job.network])
    BY <1>2, <1>5, ChainRowsAre
  <2>2. rows \in Seq(Later(job, S))
    BY <2>1 DEF IsHead
  <2>3. Later(job, S) \subseteq 0 .. Pending
    <3>1. Later(job, S) \subseteq S
      BY DEF Later
    <3>2. S \subseteq 0 .. Pending
      BY <1>2 DEF Pending, CollectAssumption
    <3> QED BY <3>1, <3>2
  <2> HIDE DEF rows, S
  <2>4. rows \in Seq(0 .. Pending)
    BY <2>2, <2>3, WiderSeq
  <2> QED BY <1>2, <2>4, JoinedIs
<1>9. /\ all \in Job /\ all.raw = raw /\ all.target = job.target /\ all.pc = "chain"
      /\ all.todo = {} /\ all.stream = job.stream /\ all.got = job.got
      /\ all.truncated = job.truncated /\ all.network = job.network
      /\ all.limit = job.limit /\ all.from = job.from /\ all.until = job.until
      /\ all.asked = job.asked /\ all.pooled = job.pooled
  <2> HIDE DEF raw
  <2> QED BY <1>1, <1>2, <1>4, <1>8 DEF Job
<1>10. /\ full \in Job /\ full.raw = raw /\ full.target = job.target /\ full.pc = "chain"
       /\ full.todo = {} /\ full.stream = job.stream /\ full.got = job.got
       /\ full.truncated = TRUE /\ full.network = job.network
       /\ full.limit = job.limit /\ full.from = job.from /\ full.until = job.until
       /\ full.asked = job.asked /\ full.pooled = job.pooled
  <2> HIDE DEF all, raw
  <2> QED BY <1>9 DEF Job
<1> HIDE DEF all, full
<1>11. SameReport(job, all) /\ SameReport(job, full)
  BY <1>2, <1>9, <1>10 DEF SameReport
<1>12. ASSUME NEW k, SameReport(job, k), k.raw = raw, k.target = job.target
       PROVE  /\ LinkedPages(k, S, n) /\ k.raw \in Seq(Int)
              /\ Len(rows) < PageLimit[job.network]
                   => \A x \in S : x <= job.asked => x \in Values(k.raw)
  <2>1. Linked(job, k, S, n, clock)
    BY <1>5, <1>12 DEF Linked
  <2> HIDE DEF S
  <2> QED BY <1>2, <2>1, ChainPageIs DEF S
<1>13. ASSUME NEW k, SameReport(job, k), k.raw \in Seq(Int),
              k \in Job, k.pc = "chain", k.todo = {},
              k.stream = job.stream, k.got = job.got, EndStream(k),
              LinkedPages(k, S, n), LinkedEnds(k, S, n)
       PROVE  JobInv'
  <2>1. /\ k.network = "bitcoin" /\ k.network \in Network /\ k.limit \in Nat \ {0}
        /\ k.until \in Nat /\ k.asked \in Nat /\ k.until <= k.asked /\ n = k.pooled
    BY <1>2, <1>13 DEF SameReport, n
  <2>2. Complete(k, k.raw, S, clock)
    <3> HIDE DEF S
    <3> QED BY <1>2, <1>5, <1>13, <2>1, LinkedPagesTop DEF S
  <2>3. Going(k, chain["coin"], clock)
    BY <1>2, <1>13, SameGoing
  <2>4. Ending(k)
    BY <1>13, <2>2, <2>3 DEF Ending, UnderWay
  <2> QED BY <1>1, <1>4, <1>13, <2>4, EndStreamInv DEF CollectInv
<1>14. /\ Len(job.raw) \in Nat /\ Len(rows) \in Nat /\ PageLimit[job.network] \in Nat
       /\ Len(raw) = Len(job.raw) + Len(rows) /\ Len(rows) <= PageLimit[job.network]
  <2>1. IsHead(rows, Later(job, S), PageLimit[job.network])
    BY <1>2, <1>5, ChainRowsAre
  <2>2. PageLimit[job.network] \in Nat /\ Cardinality(Later(job, S)) \in Nat
    BY <1>2, <1>5, LaterIs DEF IsList, CollectAssumption
  <2>3. /\ rows \in Seq(Int) /\ Len(rows) \in Nat
        /\ Len(rows) = Less(PageLimit[job.network], Cardinality(Later(job, S)))
    BY <2>1 DEF IsHead
  <2> HIDE DEF rows, S
  <2>4. Len(job.raw) \in Nat /\ Len(raw) = Len(job.raw) + Len(rows)
    BY <1>2, <2>3, LongerIs, SeqIs
  <2>5. Len(rows) <= PageLimit[job.network]
    BY <2>2, <2>3 DEF Less
  <2> QED BY <2>2, <2>3, <2>4, <2>5
<1> HIDE DEF raw, rows
<1>15. CASE Len(job.raw) >= job.target
  <2>1. EndStream(job)
    BY <1>7, <1>15
  <2>2. SameReport(job, job)
    BY DEF SameReport
  <2>3. n >= MaxItems
    <3>1. Len(job.raw) <= n /\ n <= Len(job.raw)
      BY <1>2, <1>5, <1>14, <1>15 DEF LinkedPages
    <3>2. job.target = Less(MaxItems, job.limit + n) /\ MaxItems \in Nat
      BY <1>5 DEF LinkedPages, CollectAssumption
    <3> QED BY <1>2, <1>5, <1>14, <1>15, <3>1, <3>2 DEF Less
  <2>4. LinkedEnds(job, S, n)
    BY <2>3 DEF LinkedEnds
  <2> QED BY <1>1, <1>2, <1>4, <1>5, <1>13, <2>1, <2>2, <2>4
<1>16. CASE ~(Len(job.raw) >= job.target) /\ Len(rows) < PageLimit[job.network]
  <2>1. EndStream(all)
    BY <1>7, <1>16
  <2>2. LinkedPages(all, S, n) /\ all.raw \in Seq(Int)
    BY <1>9, <1>11, <1>12
  <2>3. \A x \in S : x <= job.asked => x \in Values(all.raw)
    BY <1>9, <1>11, <1>12, <1>16
  <2>4. Len(raw) < job.target + PageLimit[job.network]
    BY <1>2, <1>14, <1>16
  <2>5. LinkedEnds(all, S, n)
    BY <1>9, <2>3, <2>4 DEF LinkedEnds
  <2> QED BY <1>9, <1>11, <1>13, <2>1, <2>2, <2>5
<1>17. CASE /\ ~(Len(job.raw) >= job.target) /\ ~(Len(rows) < PageLimit[job.network])
            /\ Len(raw) >= job.target
  <2>1. EndStream(full)
    BY <1>7, <1>17
  <2>2. LinkedPages(full, S, n) /\ full.raw \in Seq(Int)
    BY <1>10, <1>11, <1>12
  <2>3. Len(raw) < job.target + PageLimit[job.network]
    BY <1>2, <1>14, <1>17
  <2>4. LinkedEnds(full, S, n)
    BY <1>10, <1>17, <2>3 DEF LinkedEnds
  <2> QED BY <1>10, <1>11, <1>13, <2>1, <2>2, <2>4
<1>18. CASE /\ ~(Len(job.raw) >= job.target) /\ ~(Len(rows) < PageLimit[job.network])
            /\ ~(Len(raw) >= job.target)
  <2>1. job' = all
    BY <1>7, <1>18
  <2>2. LinkedPages(all, S, n)
    BY <1>9, <1>11, <1>12
  <2>3. Paged'
    <3>1. n = all.pooled /\ Len(all.raw) < all.target
      BY <1>2, <1>9, <1>14, <1>18 DEF n
    <3> QED BY <1>1, <1>4, <1>9, <2>1, <2>2, <3>1 DEF Paged
  <2>4. Collected'
    <3>1. Going(all, chain["coin"], clock)
      BY <1>2, <1>9, <1>11, SameGoing
    <3>2. all.network = NetworkOf(all.pc) /\ all.pc # "done"
      BY <1>2, <1>9 DEF NetworkOf
    <3> QED BY <1>1, <2>1, <3>1, <3>2 DEF Collected
  <2>5. QuietIsExact' /\ UnmarkedIsWhole'
    BY <1>9, <2>1 DEF QuietIsExact, UnmarkedIsWhole
  <2> QED BY <1>9, <2>1, <2>3, <2>4, <2>5 DEF JobInv
<1> QED BY <1>15, <1>16, <1>17, <1>18
-----------------------------------------------------------------------------
(***************************************************************************)
(* A transfer appears.                                                     *)
(***************************************************************************)
\* The stream R has what S had, and perhaps the transfer after now.
Grown(S, R, now) == S \subseteq 1 .. now /\ (R = S \/ R = S \cup {now + 1})

LEMMA GrownIs ==
  ASSUME NEW now \in Nat, NEW S, NEW R, Grown(S, R, now)
  PROVE  /\ S \subseteq R /\ R \subseteq 1 .. now + 1 /\ IsFiniteSet(R)
         /\ \A T \in SUBSET R : IsFiniteSet(T) /\ Cardinality(T) \in Nat
         /\ \A U \in SUBSET R : \A T \in SUBSET U : Cardinality(T) <= Cardinality(U)
         /\ \A x \in R : x \in Int /\ (x <= now => x \in S)
<1>1. S \subseteq R /\ R \subseteq 1 .. now + 1 /\ now + 1 \in Nat
  <2>1. S \subseteq R /\ \A x \in R : x \in S \/ x = now + 1
    BY DEF Grown
  <2>2. \A x \in S : x \in 1 .. now + 1
    BY DEF Grown
  <2>3. now + 1 \in Nat /\ now + 1 \in 1 .. now + 1
    OBVIOUS
  <2> QED BY <2>1, <2>2, <2>3
<1>2. IsFiniteSet(R)
  <2>1. 1 \in Int /\ now + 1 \in Int
    OBVIOUS
  <2>2. IsFiniteSet(1 .. now + 1)
    BY <2>1, FS_Interval
  <2> QED BY <1>1, <2>2, FS_Subset
<1>3. \A T \in SUBSET R : IsFiniteSet(T) /\ Cardinality(T) \in Nat
  BY <1>2, FS_Subset, FS_CardinalityType
<1>4. \A U \in SUBSET R : \A T \in SUBSET U : Cardinality(T) <= Cardinality(U)
  BY <1>3, FS_Subset
<1>5. ASSUME NEW x \in R PROVE x \in Int /\ (x <= now => x \in S)
  BY <1>1 DEF Grown
<1> QED BY <1>1, <1>2, <1>3, <1>4, <1>5

\* It is not of the period, and the report is not quiet any more.
LEMMA GrownPart ==
  ASSUME NEW now \in Nat, NEW S, NEW R, Grown(S, R, now),
         NEW j, j.asked \in Nat, j.asked <= now
  PROVE  /\ ~QuietTill(j, now + 1)
         /\ Still(j, now + 1) => Still(j, now) /\ Part(j, R) = Part(j, S)
<1>1. ~QuietTill(j, now + 1)
  BY DEF QuietTill
<1>2. ASSUME Still(j, now + 1)
      PROVE  Still(j, now) /\ Part(j, R) = Part(j, S)
  <2>1. /\ \A t \in j.asked + 1 .. now + 1 : ~InPeriod(j, t)
        /\ j.network = "bitcoin" => j.pooled < MaxItems
    BY <1>2 DEF Still
  <2>2. /\ now + 1 \in j.asked + 1 .. now + 1
        /\ \A t \in j.asked + 1 .. now : t \in j.asked + 1 .. now + 1
    OBVIOUS
  <2>3. ~InPeriod(j, now + 1) /\ Still(j, now)
    BY <2>1, <2>2 DEF Still
  <2>4. S \subseteq R /\ \A x \in R : x \in S \/ x = now + 1
    BY DEF Grown
  <2> QED BY <2>3, <2>4 DEF Part
<1> QED BY <1>1, <1>2

LEMMA GrownComplete ==
  ASSUME NEW now \in Nat, NEW S, NEW R, Grown(S, R, now),
         NEW j, j.asked \in Nat, j.asked <= now, NEW q, Complete(j, q, S, now)
  PROVE  Complete(j, q, R, now + 1)
<1>1. /\ ~QuietTill(j, now + 1)
      /\ Still(j, now + 1) => Still(j, now) /\ Part(j, R) = Part(j, S)
  BY GrownPart
<1>2. S \subseteq R
  BY DEF Grown
<1>3. Rows(j, q, R)
  BY <1>2 DEF Complete, Rows
<1>4. Whole(j, q, R, now + 1)
  BY <1>1 DEF Complete, Whole
<1>5. Top(j, q, {R}, now + 1)
  BY <1>1 DEF Top
<1> QED BY <1>3, <1>4, <1>5 DEF Complete

LEMMA GrownRest ==
  ASSUME NEW now \in Nat, NEW S, NEW R, Grown(S, R, now),
         NEW j, j.asked \in Nat, j.asked <= now, j.network = "tron", j.target \in Nat,
         NEW A, RestPages(j, S, now, A)
  PROVE  RestPages(j, R, now + 1, A)
<1>1. Still(j, now + 1) => Still(j, now) /\ Offered(j, R) = Offered(j, S)
  BY GrownPart DEF Offered
<1>2. S \subseteq R
  BY DEF Grown
<1>3. Offered(j, S) \subseteq Offered(j, R) /\ Offered(j, R) \subseteq R
  BY <1>2 DEF Offered, Part
<1>4. /\ Cardinality(Offered(j, S)) <= Cardinality(Offered(j, R))
      /\ Cardinality(Offered(j, S)) \in Nat /\ Cardinality(Offered(j, R)) \in Nat
  <2>1. Offered(j, S) \in SUBSET Offered(j, R) /\ Offered(j, R) \in SUBSET R
    BY <1>3
  <2>2. Offered(j, S) \in SUBSET R
    BY <1>3
  <2> QED BY <2>1, <2>2, GrownIs
<1>5. j.target <= Cardinality(Offered(j, R))
  <2>1. j.target <= Cardinality(Offered(j, S))
    BY DEF RestPages
  <2> QED BY <1>4, <2>1
<1>6. \A i \in DOMAIN j.raw : j.raw[i] # 0 => j.raw[i] \in Offered(j, R)
  BY <1>3 DEF RestPages
<1>7. ASSUME Still(j, now + 1)
      PROVE  /\ j.target = Cardinality(Offered(j, R))
             /\ \A i \in DOMAIN j.raw :
                  j.raw[i] # 0 => j.raw[i] = NewestFirst(Offered(j, R))[i]
  <2>1. Still(j, now) /\ Offered(j, R) = Offered(j, S)
    BY <1>1, <1>7
  <2> QED BY <2>1 DEF RestPages
<1>8. /\ Len(j.raw) <= Total(j) /\ A \subseteq 0 .. Total(j) - 1
      /\ \A i \in 1 .. Total(j) :
           \/ i <= Len(j.raw) /\ j.raw[i] # 0
           \/ \E o \in A : o < i /\ i <= o + PageLimit[j.network]
  BY DEF RestPages
<1> HIDE DEF Grown
<1> QED BY <1>5, <1>6, <1>7, <1>8 DEF RestPages

LEMMA GrownNumbered ==
  ASSUME NEW now \in Nat, NEW S, NEW R, Grown(S, R, now),
         NEW j, j.asked \in Nat, j.asked <= now, PageLimit[j.network] \in Nat,
         NumberedPages(j, S, now)
  PROVE  NumberedPages(j, R, now + 1)
<1> DEFINE n == (j.page - 1) * PageLimit[j.network]
<1>1. ~QuietTill(j, now + 1) /\ S \subseteq R
  BY GrownPart, GrownIs
<1>2. Rows(j, j.raw, R) /\ j.page \in Nat \ {0} /\ Len(j.raw) < j.limit
  BY <1>1 DEF NumberedPages, Rows
<1>3. n \in Nat
  BY <1>2
<1> HIDE DEF n
<1>4. ASSUME NEW x \in R, x <= j.asked
      PROVE  x \in Values(j.raw) \/ Cardinality({y \in R : y > x}) >= n
  <2>1. x \in S
    <3>1. x \in Int /\ (x <= now => x \in S)
      BY GrownIs
    <3> QED BY <1>4, <3>1
  <2>2. x \in Values(j.raw) \/ Cardinality({y \in S : y > x}) >= n
    BY <1>4, <2>1 DEF NumberedPages, n
  <2>3. {y \in S : y > x} \in SUBSET {y \in R : y > x} /\ {y \in R : y > x} \in SUBSET R
    BY <1>1
  <2>4. {y \in S : y > x} \in SUBSET R
    BY <1>1
  <2>5. /\ Cardinality({y \in S : y > x}) <= Cardinality({y \in R : y > x})
        /\ Cardinality({y \in S : y > x}) \in Nat /\ Cardinality({y \in R : y > x}) \in Nat
    BY <2>3, <2>4, GrownIs
  <2> QED BY <1>3, <2>2, <2>5
<1> QED BY <1>1, <1>2, <1>4 DEF NumberedPages, n

LEMMA GrownLinked ==
  ASSUME NEW now \in Nat, NEW S, NEW R, Grown(S, R, now),
         NEW j, j.asked \in Nat, j.asked <= now,
         NEW n, LinkedPages(j, S, n)
  PROVE  LinkedPages(j, R, n)
<1>1. S \subseteq R
  BY DEF Grown
<1>2. \A i \in n + 1 .. Len(j.raw) : j.raw[i] \in R
  BY <1>1 DEF LinkedPages
<1>3. ASSUME NEW x \in R, x <= j.asked
      PROVE  x \in S
  <2>1. x \in Int /\ (x <= now => x \in S)
    BY GrownIs
  <2> QED BY <1>3, <2>1
<1> QED BY <1>2, <1>3 DEF LinkedPages

\* What has appeared is in one stream.
Appeared ==
  /\ clock' = clock + 1 /\ clock < MaxTx /\ job' = job /\ offset' = offset /\ call' = call
  /\ \E s \in Stream : chain' = [chain EXCEPT ![s] = @ \cup {clock + 1}]

LEMMA AppearedGrown ==
  ASSUME CollectAssumption, CollectInv, Appeared
  PROVE  /\ CollectTypeOK' /\ Numbered'
         /\ \A s \in Stream : Grown(chain[s], chain'[s], clock)
<1>1. PICK s \in Stream : chain' = [chain EXCEPT ![s] = @ \cup {clock + 1}]
  BY DEF Appeared
<1>2. clock' = clock + 1 /\ clock < MaxTx /\ job' = job /\ offset' = offset
  BY DEF Appeared
<1>3. /\ chain \in [Stream -> SUBSET Transfer] /\ clock \in 0 .. MaxTx /\ clock \in Nat
      /\ job \in Job /\ offset \in [Caller -> (0 .. MaxTx) \cup {NoOffset}]
  BY DEF CollectInv, CollectTypeOK, CollectAssumption
<1>4. /\ \A r \in Stream : chain[r] \subseteq 1 .. clock
      /\ chain["coin"] \cap chain["token"] = {}
  BY DEF CollectInv, Numbered
<1>5. clock + 1 \in Transfer /\ clock + 1 \notin 1 .. clock /\ clock + 1 \in 0 .. MaxTx
  BY <1>2, <1>3 DEF Transfer, CollectAssumption
<1>6. /\ chain'[s] = chain[s] \cup {clock + 1}
      /\ \A r \in Stream \ {s} : chain'[r] = chain[r]
  BY <1>1, <1>3
<1>7. \A r \in Stream : Grown(chain[r], chain'[r], clock)
  BY <1>4, <1>6 DEF Grown
<1>8. chain' \in [Stream -> SUBSET Transfer]
  BY <1>1, <1>3, <1>5
<1>9. CollectTypeOK'
  BY <1>2, <1>3, <1>5, <1>8 DEF CollectTypeOK
<1>10. \A r \in Stream : chain'[r] \subseteq 1 .. clock + 1
  BY <1>3, <1>7, GrownIs
<1>11. chain'["coin"] \cap chain'["token"] = {}
  <2>1. clock + 1 \notin chain["coin"] /\ clock + 1 \notin chain["token"]
    BY <1>4, <1>5 DEF Stream
  <2>2. s = "coin" \/ s = "token"
    BY DEF Stream
  <2>3. CASE s = "coin"
    BY <1>4, <1>6, <2>1, <2>3 DEF Stream
  <2>4. CASE s = "token"
    BY <1>4, <1>6, <2>1, <2>4 DEF Stream
  <2> QED BY <2>2, <2>3, <2>4
<1>12. Numbered'
  BY <1>2, <1>10, <1>11 DEF Numbered
<1> QED BY <1>7, <1>9, <1>12

LEMMA AppearedPaged ==
  ASSUME CollectAssumption, CollectInv, Appeared, job.pc \in UnderWay
  PROVE  Paged' /\ Collected'
<1>1. /\ Going(job, chain["coin"], clock) /\ job.network = NetworkOf(job.pc)
      /\ job.network \in Network /\ job.limit \in Nat \ {0}
      /\ job.asked \in Nat /\ job.stream \in Stream /\ job.target \in Nat
      /\ clock \in Nat
  BY UnderWayIs
<1>2. job.asked <= clock
  BY <1>1 DEF Going
<1>3. clock' = clock + 1 /\ job' = job /\ offset' = offset
  BY DEF Appeared
<1>4. /\ Grown(chain[job.stream], chain'[job.stream], clock)
      /\ Grown(chain["coin"], chain'["coin"], clock)
  BY <1>1, AppearedGrown DEF Stream
<1>5. Paged
  BY DEF CollectInv, JobInv
<1>6. AskedFor' = AskedFor
  BY <1>3 DEF AskedFor
<1>7. ASSUME job.pc = "rest"
      PROVE  RestPages(job, chain'[job.stream], clock + 1, AskedFor)
  <2>1. job.network = "tron"
    BY <1>1, <1>7 DEF NetworkOf
  <2>2. RestPages(job, chain[job.stream], clock, AskedFor)
    BY <1>5, <1>7 DEF Paged
  <2> QED BY <1>1, <1>2, <1>4, <2>1, <2>2, GrownRest
<1>8. ASSUME job.pc = "page"
      PROVE  NumberedPages(job, chain'[job.stream], clock + 1)
  <2>1. PageLimit[job.network] \in Nat
    BY <1>1 DEF CollectAssumption
  <2>2. NumberedPages(job, chain[job.stream], clock)
    BY <1>5, <1>8 DEF Paged
  <2> QED BY <1>1, <1>2, <1>4, <2>1, <2>2, GrownNumbered
<1>9. ASSUME job.pc = "chain"
      PROVE  LinkedPages(job, chain'[job.stream], job.pooled)
  <2>1. LinkedPages(job, chain[job.stream], job.pooled)
    BY <1>5, <1>9 DEF Paged
  <2> QED BY <1>1, <1>2, <1>4, <2>1, GrownLinked
<1>10. Paged'
  BY <1>3, <1>5, <1>6, <1>7, <1>8, <1>9 DEF Paged
<1>11. Going(job, chain'["coin"], clock + 1)
  <2>1. ASSUME Complete(job, job.got, chain["coin"], clock)
        PROVE  Complete(job, job.got, chain'["coin"], clock + 1)
    BY <1>1, <1>2, <1>4, <2>1, GrownComplete
  <2>2. job.asked <= clock + 1
    BY <1>1, <1>2
  <2> QED BY <1>1, <2>1, <2>2 DEF Going
<1>12. job.pc # "done"
  BY DEF UnderWay
<1>13. Collected'
  BY <1>1, <1>3, <1>11, <1>12 DEF Collected
<1> QED BY <1>10, <1>13

\* The result of a report that is ready does not change with what appears.
LEMMA AppearedResult ==
  ASSUME CollectAssumption, CollectInv, Appeared, job.pc = "done"
  PROVE  /\ Due(job)' = Due(job) /\ Collected'
         /\ \A s \in Streams(job) : Listed(job, s)' = Listed(job, s)
<1>1. clock' = clock + 1 /\ job' = job /\ clock \in Nat
  BY DEF Appeared, CollectInv, CollectTypeOK, CollectAssumption
<1>2. /\ job.asked <= job.ended /\ job.ended <= clock /\ job.network \in Network
      /\ job.asked \in Nat /\ job.ended \in Nat
  <2>1. job \in Job /\ job.asked <= job.ended /\ job.ended <= clock /\ job.network \in Network
    BY DEF CollectInv, JobInv, Collected
  <2> QED BY <2>1 DEF Job, CollectAssumption
<1>3. job.asked <= clock /\ job.ended <= clock + 1
  BY <1>1, <1>2
<1>4. ASSUME NEW s \in Stream
      PROVE  Listed(job, s)' = Listed(job, s)
  <2>1. Grown(chain[s], chain'[s], clock)
    BY AppearedGrown
  <2>2. \A t \in chain'[s] : t \in Int /\ (t <= clock => t \in chain[s])
    BY <1>1, <2>1, GrownIs
  <2>3. chain[s] \subseteq chain'[s]
    BY <2>1 DEF Grown
  <2>4. \A t : t \in chain'[s] /\ t <= job.asked <=> t \in chain[s] /\ t <= job.asked
    BY <1>1, <1>2, <1>3, <2>2, <2>3
  <2>5. \A t : InPeriod(job, t)' = InPeriod(job, t)
    BY <1>1 DEF InPeriod
  <2> QED BY <1>1, <2>4, <2>5 DEF Listed
<1>5. Streams(job) \subseteq Stream /\ Streams(job)' = Streams(job)
  BY <1>1 DEF Streams, Stream
<1>6. UNION {Listed(job, s)' : s \in Streams(job)} = UNION {Listed(job, s) : s \in Streams(job)}
  BY <1>4, <1>5
<1>7. Due(job)' = Due(job)
  BY <1>1, <1>5, <1>6 DEF Due, InPeriod, Counts
<1>8. Collected'
  <2>1. job.pc \notin UnderWay
    BY DEF UnderWay
  <2> QED BY <1>1, <1>2, <1>3, <2>1 DEF Collected
<1> QED BY <1>4, <1>5, <1>7, <1>8

LEMMA AppearedInv ==
  ASSUME CollectAssumption, CollectInv, Appeared
  PROVE  CollectInv'
<1>1. /\ clock' = clock + 1 /\ job' = job /\ offset' = offset /\ call' = call
      /\ CollectTypeOK' /\ Numbered'
  BY AppearedGrown DEF Appeared
<1>2. Calls' /\ job' \in Job
  BY <1>1 DEF CollectInv, JobInv, Calls
<1>3. CASE job.pc \in UnderWay
  <2>1. Paged' /\ Collected'
    BY <1>3, AppearedPaged
  <2>2. job.pc # "done"
    BY <1>3 DEF UnderWay
  <2>3. QuietIsExact' /\ UnmarkedIsWhole'
    BY <1>1, <2>2 DEF QuietIsExact, UnmarkedIsWhole
  <2> QED BY <1>1, <1>2, <2>1, <2>3 DEF CollectInv, JobInv
<1>4. CASE job.pc \notin UnderWay
  <2>1. Paged'
    BY <1>1, <1>4 DEF CollectInv, JobInv, Paged, UnderWay
  <2>2. CASE job.pc = "done"
    <3>1. /\ Due(job)' = Due(job) /\ Collected'
          /\ \A s \in Streams(job) : Listed(job, s)' = Listed(job, s)
      BY <2>2, AppearedResult
    <3>2. QuietIsExact /\ UnmarkedIsWhole
      BY DEF CollectInv, JobInv
    <3>3. QuietIsExact'
      <4>1. Streams(job)' = Streams(job) /\ Reach(job)' = Reach(job) /\ Quiet(job)' = Quiet(job)
        BY <1>1 DEF Streams, Reach, Quiet
      <4>2. \A n : {Newest(Listed(job, s)', n) : s \in Streams(job)}
                     = {Newest(Listed(job, s), n) : s \in Streams(job)}
        BY <3>1
      <4> SUFFICES ASSUME Quiet(job)
                   PROVE  \E n \in Reach(job) :
                            job.got = First(NewestFirst(Due(job) \cap
                              UNION {Newest(Listed(job, s)', n) : s \in Streams(job)}), job.limit)
        BY <1>1, <3>1, <4>1 DEF QuietIsExact
      <4>3. PICK n \in Reach(job) :
              job.got = First(NewestFirst(Due(job) \cap
                          UNION {Newest(Listed(job, s), n) : s \in Streams(job)}), job.limit)
        BY <2>2, <3>2 DEF QuietIsExact
      <4> QED BY <4>2, <4>3
    <3>4. UnmarkedIsWhole'
      BY <1>1, <3>1, <3>2 DEF UnmarkedIsWhole, Settled, InPeriod
    <3> QED BY <1>1, <1>2, <2>1, <3>1, <3>3, <3>4 DEF CollectInv, JobInv
  <2>3. CASE job.pc # "done"
    <3>1. Collected' /\ QuietIsExact' /\ UnmarkedIsWhole'
      BY <1>1, <1>4, <2>3 DEF Collected, QuietIsExact, UnmarkedIsWhole
    <3> QED BY <1>1, <1>2, <2>1, <3>1 DEF CollectInv, JobInv
  <2> QED BY <2>2, <2>3
<1> QED BY <1>3, <1>4
-----------------------------------------------------------------------------
(***************************************************************************)
(* A report begins, asks for its pages and gets them.                      *)
(***************************************************************************)
\* Nothing of the report and its streams changes.
SameStreams == chain' = chain /\ clock' = clock

LEMMA SameStreamsTyped ==
  ASSUME CollectInv, SameStreams, job' \in Job,
         offset' \in [Caller -> (0 .. MaxTx) \cup {NoOffset}]
  PROVE  CollectTypeOK' /\ Numbered'
BY DEF CollectInv, CollectTypeOK, Numbered, SameStreams

\* The parts of the next state.
LEMMA CollectSame ==
  ASSUME CollectInv, SameStreams, JobInv', Calls',
         offset' \in [Caller -> (0 .. MaxTx) \cup {NoOffset}]
  PROVE  CollectInv'
<1>1. job' \in Job
  BY DEF JobInv
<1>2. CollectTypeOK' /\ Numbered'
  BY <1>1, SameStreamsTyped
<1> QED BY <1>2 DEF CollectInv

\* A report of nothing.
LEMMA IdleIs ==
  ASSUME CollectAssumption
  PROVE  Idle \in Job
<1>1. /\ <<>> \in Seq(0 .. Pending) /\ <<>> \in Seq(1 .. Pending) /\ 0 \in 0 .. MaxTx
      /\ 0 \in 0 .. Pending /\ 0 \in 0 .. MaxPool
  BY DEF CollectAssumption, Pending
<1> QED BY <1>1 DEF Idle, Job, Stream

LEMMA LostInv ==
  ASSUME CollectAssumption, CollectInv, job' = Lost(job)
  PROVE  JobInv'
<1>1. job' = [Idle EXCEPT !.pc = "failed"]
  BY DEF Lost
<1>2. Idle \in Job
  BY IdleIs
<1>3. /\ job' \in Job /\ job'.pc = "failed" /\ job'.todo = {}
  <2> DEFINE k == job'
  <2>1. k = [Idle EXCEPT !.pc = "failed"]
    BY <1>1
  <2> HIDE DEF k
  <2>2. k \in Job /\ k.pc = "failed" /\ k.todo = Idle.todo
    BY <1>2, <2>1 DEF Job
  <2>3. Idle.todo = {}
    BY DEF Idle
  <2> QED BY <2>2, <2>3 DEF k
<1>4. Paged' /\ Collected' /\ QuietIsExact' /\ UnmarkedIsWhole'
  BY <1>3 DEF Paged, Collected, UnderWay, QuietIsExact, UnmarkedIsWhole
<1> QED BY <1>3, <1>4 DEF JobInv

\* A report is asked for when no page is out.
LEMMA AskInv ==
  ASSUME CollectAssumption, CollectInv,
         NEW network \in Network, NEW items \in Limits, NEW from \in 0 .. Pending,
         NEW until \in 0 .. Pending, Ask(network, items, from, until)
  PROVE  CollectInv'
<1> DEFINE k == job'
           limit == Less(items, MaxItems)
<1>1. /\ chain' = chain /\ clock' = clock /\ offset' = offset /\ call' = call
      /\ \A c \in Caller : call[c] = "idle"
      /\ network # "tron" => until <= clock
      /\ k = [Idle EXCEPT !.pc = Opening(network), !.network = network,
                          !.limit = limit, !.from = from, !.until = until, !.asked = clock]
  BY DEF Ask, throttleVars
<1>2. limit \in Nat /\ limit \in Nat \ {0}
  BY DEF CollectAssumption, Less
<1>3. /\ clock \in 0 .. MaxTx /\ clock \in Nat /\ from \in Nat
      /\ offset \in [Caller -> (0 .. MaxTx) \cup {NoOffset}]
  BY DEF CollectInv, CollectTypeOK, CollectAssumption, Pending
<1>4. \A c \in Caller : offset'[c] = NoOffset
  BY <1>1 DEF CollectInv, Calls
<1>5. \/ network = "tron" /\ Opening(network) = "first"
      \/ network = "ethereum" /\ Opening(network) = "page"
      \/ network = "bitcoin" /\ Opening(network) = "pool"
  BY DEF Opening, CollectAssumption
<1>6. Idle \in Job
  BY IdleIs
<1> HIDE DEF k, limit
<1>7. /\ k \in Job /\ k.pc = Opening(network) /\ k.network = network /\ k.limit = limit
      /\ k.from = from /\ k.until = until /\ k.asked = clock
      /\ k.stream = Idle.stream /\ k.raw = Idle.raw
      /\ k.got = Idle.got /\ k.page = Idle.page /\ k.todo = Idle.todo
  <2> DEFINE pc == Opening(network)
  <2>1. pc \in {"first", "page", "pool"}
    BY <1>5
  <2> HIDE DEF pc
  <2>2. k = [Idle EXCEPT !.pc = pc, !.network = network,
                         !.limit = limit, !.from = from, !.until = until,
                         !.asked = clock]
    BY <1>1 DEF pc
  <2>3. k \in Job
    BY <1>2, <1>3, <1>6, <2>1, <2>2 DEF Job
  <2>4. /\ k.pc = pc /\ k.network = network /\ k.limit = limit
        /\ k.from = from /\ k.until = until /\ k.asked = clock
        /\ k.stream = Idle.stream /\ k.raw = Idle.raw
        /\ k.got = Idle.got /\ k.page = Idle.page /\ k.todo = Idle.todo
    BY <1>6, <2>2 DEF Job
  <2> QED BY <2>3, <2>4 DEF pc
<1>8. k.stream = "coin" /\ k.raw = <<>> /\ k.got = <<>> /\ k.page = 1 /\ k.todo = {}
  BY <1>7 DEF Idle
<1>9. Collected'
  <2>1. Going(k, chain["coin"], clock)
    BY <1>1, <1>2, <1>3, <1>7, <1>8 DEF Going
  <2>2. k.network = NetworkOf(k.pc) /\ k.pc # "done"
    BY <1>5, <1>7 DEF NetworkOf
  <2> QED BY <1>1, <2>1, <2>2 DEF Collected, k
<1>10. NumberedPages(k, chain[k.stream], clock)
  <2>1. chain[k.stream] \subseteq 1 .. clock
    BY <1>8, ChainIs DEF CollectInv
  <2> QED BY <1>2, <1>3, <1>7, <1>8, <2>1, NoRows
<1>11. Paged'
  <2>1. k.pc \in {"first", "page", "pool"}
    BY <1>5, <1>7
  <2> QED BY <1>1, <1>4, <1>8, <1>10, <2>1 DEF Paged, k
<1>12. JobInv'
  <2>1. k.pc # "done"
    BY <1>5, <1>7
  <2>2. QuietIsExact' /\ UnmarkedIsWhole'
    BY <2>1 DEF QuietIsExact, UnmarkedIsWhole, k
  <2> QED BY <1>7, <1>9, <1>11, <2>2 DEF JobInv, k
<1>13. SameStreams /\ Calls'
  BY <1>1 DEF SameStreams, CollectInv, Calls
<1> QED BY <1>1, <1>3, <1>12, <1>13, CollectSame

\* A caller starts a call, for the page at offset o.
Asks(c, o) ==
  /\ c \in Caller /\ call[c] = "idle" /\ call' = [call EXCEPT ![c] = "queued"]
  /\ o \in 0 .. MaxTx /\ offset' = [offset EXCEPT ![c] = o]

LEMMA AsksCalls ==
  ASSUME CollectAssumption, CollectInv, ThrottleTypeOK, NEW c, NEW o, Asks(c, o)
  PROVE  /\ Calls' /\ offset[c] = NoOffset /\ offset'[c] = o /\ o # NoOffset
         /\ \A d \in Caller \ {c} : offset'[d] = offset[d]
         /\ offset' \in [Caller -> (0 .. MaxTx) \cup {NoOffset}]
<1>1. /\ c \in Caller /\ call[c] = "idle" /\ call' = [call EXCEPT ![c] = "queued"]
      /\ o \in 0 .. MaxTx /\ offset' = [offset EXCEPT ![c] = o]
  BY DEF Asks
<1>2. /\ offset \in [Caller -> (0 .. MaxTx) \cup {NoOffset}]
      /\ call \in [Caller -> CallState]
  BY DEF CollectInv, CollectTypeOK, ThrottleTypeOK
<1>3. o # NoOffset
  BY <1>1 DEF CollectAssumption
<1>4. offset[c] = NoOffset
  BY <1>1 DEF CollectInv, Calls
<1>5. /\ offset'[c] = o /\ call'[c] = "queued"
      /\ \A d \in Caller \ {c} : offset'[d] = offset[d] /\ call'[d] = call[d]
      /\ offset' \in [Caller -> (0 .. MaxTx) \cup {NoOffset}]
  BY <1>1, <1>2
<1>6. Calls'
  BY <1>3, <1>5 DEF CollectInv, Calls
<1> QED BY <1>3, <1>4, <1>5, <1>6

LEMMA AskFirstInv ==
  ASSUME CollectAssumption, CollectInv, ThrottleTypeOK, NEW c \in Caller, AskFirst(c)
  PROVE  CollectInv'
<1>1. /\ job.pc = "first" /\ (\A d \in Caller : call[d] = "idle") /\ Start(c)
      /\ offset' = [offset EXCEPT ![c] = 0]
      /\ chain' = chain /\ clock' = clock /\ job' = job
  BY DEF AskFirst
<1>2. Asks(c, 0)
  <2>1. 0 \in 0 .. MaxTx
    BY DEF CollectAssumption
  <2> QED BY <1>1, <2>1 DEF Asks, Start, Enter
<1>3. /\ Calls' /\ offset' \in [Caller -> (0 .. MaxTx) \cup {NoOffset}]
      /\ \A d \in Caller \ {c} : offset'[d] = offset[d]
  BY <1>2, AsksCalls
<1>4. \A d \in Caller \ {c} : offset'[d] = NoOffset
  BY <1>1, <1>3 DEF CollectInv, Calls
<1>5. JobInv
  BY DEF CollectInv
<1>6. Paged'
  BY <1>1, <1>4, <1>5 DEF JobInv, Paged
<1>7. /\ job' \in Job /\ Collected' /\ QuietIsExact' /\ UnmarkedIsWhole'
  BY <1>1, <1>5 DEF JobInv, Collected, QuietIsExact, UnmarkedIsWhole
<1>8. JobInv' /\ SameStreams
  BY <1>1, <1>6, <1>7 DEF JobInv, SameStreams
<1> QED BY <1>3, <1>8, CollectSame

\* The least of the offsets to be asked for.
LEMMA LeastOffset ==
  ASSUME NEW T, T \subseteq Nat, T # {}
  PROVE  (CHOOSE o \in T : \A p \in T : o <= p) \in T
<1>1. PICK n \in T : \A p \in T : n <= p
  BY LeastNumber
<1> QED BY <1>1

LEMMA AskRestInv ==
  ASSUME CollectAssumption, CollectInv, ThrottleTypeOK, NEW c \in Caller, AskRest(c)
  PROVE  CollectInv'
<1> DEFINE o == CHOOSE x \in job.todo : \A p \in job.todo : x <= p
           k == job'
           todo == job.todo \ {o}
<1>1. /\ job.pc = "rest" /\ job.todo # {} /\ Start(c)
      /\ offset' = [offset EXCEPT ![c] = o] /\ k = [job EXCEPT !.todo = todo]
      /\ chain' = chain /\ clock' = clock
  BY DEF AskRest
<1>2. /\ job \in Job /\ Going(job, chain["coin"], clock) /\ job.network = NetworkOf(job.pc)
  <2>1. job.pc \in UnderWay
    BY <1>1 DEF UnderWay
  <2> QED BY <2>1, UnderWayIs
<1>3. job.todo \subseteq 0 .. MaxTx /\ job.todo \subseteq Nat
  BY <1>2 DEF Job
<1>4. o \in job.todo /\ o \in 0 .. MaxTx
  <2>1. o \in job.todo
    BY <1>1, <1>3, LeastOffset
  <2> QED BY <1>3, <2>1
<1> HIDE DEF o, k
<1>5. Asks(c, o)
  BY <1>1, <1>4 DEF Asks, Start, Enter
<1>6. /\ Calls' /\ offset[c] = NoOffset /\ offset'[c] = o /\ o # NoOffset
      /\ \A d \in Caller \ {c} : offset'[d] = offset[d]
      /\ offset' \in [Caller -> (0 .. MaxTx) \cup {NoOffset}]
  BY <1>5, AsksCalls
<1>7. /\ k \in Job /\ k.todo = todo /\ k.pc = "rest" /\ k.raw = job.raw
      /\ k.target = job.target /\ k.stream = job.stream /\ k.got = job.got
      /\ k.truncated = job.truncated /\ k.network = job.network
      /\ k.limit = job.limit /\ k.from = job.from /\ k.until = job.until
      /\ k.asked = job.asked /\ k.pooled = job.pooled
  <2>1. todo \in SUBSET (0 .. MaxTx)
    BY <1>3
  <2> HIDE DEF todo
  <2> QED BY <1>1, <1>2, <2>1 DEF Job
<1>8. SameReport(job, k)
  BY <1>7 DEF SameReport
<1>9. AskedFor' = AskedFor
  <2> DEFINE A == {offset[d] : d \in {e \in Caller : offset[e] # NoOffset}}
             B == {offset'[d] : d \in {e \in Caller : offset'[e] # NoOffset}}
  <2>1. AskedFor = job.todo \cup A /\ AskedFor' = todo \cup B
    BY <1>7 DEF AskedFor, k
  <2>2. B \subseteq A \cup {o} /\ A \subseteq B /\ o \in B
    <3>1. ASSUME NEW p \in B PROVE p \in A \cup {o}
      <4>1. PICK d \in Caller : offset'[d] # NoOffset /\ offset'[d] = p
        BY <3>1
      <4>2. CASE d = c
        BY <1>6, <4>1, <4>2
      <4>3. CASE d # c
        <5>1. offset[d] = p /\ offset[d] # NoOffset
          BY <1>6, <4>1, <4>3
        <5> QED BY <5>1
      <4> QED BY <4>2, <4>3
    <3>2. ASSUME NEW p \in A PROVE p \in B
      <4>1. PICK d \in Caller : offset[d] # NoOffset /\ offset[d] = p
        BY <3>2
      <4>2. offset'[d] = p /\ offset'[d] # NoOffset
        BY <1>6, <4>1
      <4> QED BY <4>2
    <3>3. o \in B
      BY <1>6
    <3> QED BY <3>1, <3>2, <3>3
  <2> HIDE DEF A, B
  <2> QED BY <1>4, <2>1, <2>2
<1>10. RestPages(k, chain[k.stream], clock, AskedFor)
  <2>1. RestPages(job, chain[job.stream], clock, AskedFor)
    BY <1>1 DEF CollectInv, JobInv, Paged
  <2>2. /\ Offered(k, chain[k.stream]) = Offered(job, chain[job.stream])
        /\ Still(k, clock) = Still(job, clock) /\ Total(k) = Total(job)
    BY <1>7, <1>8, SameOffered DEF Total
  <2> QED BY <1>7, <2>1, <2>2 DEF RestPages
<1>11. Paged'
  BY <1>1, <1>7, <1>9, <1>10 DEF Paged, k
<1>12. Collected'
  <2>1. Going(k, chain["coin"], clock)
    BY <1>2, <1>7, <1>8, SameGoing
  <2>2. k.network = NetworkOf(k.pc) /\ k.pc # "done"
    BY <1>1, <1>2, <1>7 DEF NetworkOf
  <2> QED BY <1>1, <2>1, <2>2 DEF Collected, k
<1>13. QuietIsExact' /\ UnmarkedIsWhole'
  BY <1>7 DEF QuietIsExact, UnmarkedIsWhole, k
<1>14. JobInv' /\ SameStreams
  BY <1>1, <1>7, <1>11, <1>12, <1>13 DEF JobInv, SameStreams, k
<1> QED BY <1>6, <1>14, CollectSame

\* The call of a page ends.
LEMMA ReturnCalls ==
  ASSUME CollectAssumption, CollectInv, ThrottleTypeOK, NEW c \in Caller,
         Return(c), offset' = [offset EXCEPT ![c] = NoOffset]
  PROVE  /\ Calls' /\ offset[c] # NoOffset /\ offset'[c] = NoOffset
         /\ \A d \in Caller \ {c} : offset'[d] = offset[d]
         /\ offset' \in [Caller -> (0 .. MaxTx) \cup {NoOffset}]
<1>1. call[c] = "sent" /\ call' = [call EXCEPT ![c] = "idle"]
  BY DEF Return
<1>2. /\ offset \in [Caller -> (0 .. MaxTx) \cup {NoOffset}]
      /\ call \in [Caller -> CallState]
  BY DEF CollectInv, CollectTypeOK, ThrottleTypeOK
<1>3. /\ offset'[c] = NoOffset /\ call'[c] = "idle"
      /\ \A d \in Caller \ {c} : offset'[d] = offset[d] /\ call'[d] = call[d]
      /\ offset' \in [Caller -> (0 .. MaxTx) \cup {NoOffset}]
  BY <1>1, <1>2
<1>4. offset[c] # NoOffset
  BY <1>1 DEF CollectInv, Calls
<1>5. Calls'
  BY <1>3 DEF CollectInv, Calls
<1> QED BY <1>3, <1>4, <1>5

LEMMA TronPageInv ==
  ASSUME CollectAssumption, CollectInv, ThrottleTypeOK, NEW c \in Caller, TronPage(c)
  PROVE  CollectInv'
<1> DEFINE last == job.todo = {} /\ \A d \in Caller \ {c} : offset[d] = NoOffset
<1>1. /\ Return(c) /\ offset' = [offset EXCEPT ![c] = NoOffset]
      /\ chain' = chain /\ clock' = clock
  BY DEF TronPage
<1>2. /\ job.pc = "first" => TronFirst(job)
      /\ job.pc = "rest" => TronRest(job, offset[c], last)
      /\ job.pc \notin {"first", "rest"} => job' = job
  BY DEF TronPage
<1>3. /\ Calls' /\ offset[c] # NoOffset /\ offset'[c] = NoOffset
      /\ \A d \in Caller \ {c} : offset'[d] = offset[d]
      /\ offset' \in [Caller -> (0 .. MaxTx) \cup {NoOffset}]
  BY <1>1, ReturnCalls
<1>4. CASE job.pc = "first"
  <2>1. \A d \in Caller \ {c} : offset[d] = NoOffset
    BY <1>3, <1>4 DEF CollectInv, JobInv, Paged
  <2>2. \A d \in Caller : offset'[d] = NoOffset
    BY <1>3, <2>1
  <2>3. TronFirst(job)
    BY <1>2, <1>4
  <2>4. JobInv'
    BY <1>1, <1>4, <2>2, <2>3, TronFirstInv
  <2> QED BY <1>1, <1>3, <2>4, CollectSame DEF SameStreams
<1>5. CASE job.pc = "rest"
  <2>1. TronRest(job, offset[c], last)
    BY <1>2, <1>5
  <2>2. last = (job.todo = {} /\ \A d \in Caller \ {c} : offset[d] = NoOffset)
    OBVIOUS
  <2> HIDE DEF last
  <2>3. JobInv'
    BY <1>1, <1>3, <1>5, <2>1, <2>2, TronRestInv
  <2> QED BY <1>1, <1>3, <2>3, CollectSame DEF SameStreams
<1>6. CASE job.pc \notin {"first", "rest"}
  <2>1. job' = job
    BY <1>2, <1>6
  <2>2. JobInv
    BY DEF CollectInv
  <2>3. job.pc = "failed" /\ job.todo = {}
    BY <1>3, <1>6, <2>2 DEF JobInv, Paged
  <2>4. Paged'
    BY <2>1, <2>3 DEF Paged
  <2>5. /\ job' \in Job /\ Collected' /\ QuietIsExact' /\ UnmarkedIsWhole'
    BY <2>1, <2>2, <2>3 DEF JobInv, Collected, UnderWay, QuietIsExact, UnmarkedIsWhole
  <2>6. JobInv'
    BY <2>4, <2>5 DEF JobInv
  <2> QED BY <1>1, <1>3, <2>6, CollectSame DEF SameStreams
<1> QED BY <1>4, <1>5, <1>6

LEMMA TronErrorInv ==
  ASSUME CollectAssumption, CollectInv, ThrottleTypeOK, NEW c \in Caller, TronError(c)
  PROVE  CollectInv'
<1>1. /\ Return(c) /\ offset' = [offset EXCEPT ![c] = NoOffset] /\ job' = Lost(job)
      /\ chain' = chain /\ clock' = clock
  BY DEF TronError
<1>2. Calls' /\ offset' \in [Caller -> (0 .. MaxTx) \cup {NoOffset}]
  BY <1>1, ReturnCalls
<1>3. JobInv'
  BY <1>1, LostInv
<1> QED BY <1>1, <1>2, <1>3, CollectSame DEF SameStreams

-----------------------------------------------------------------------------
(***************************************************************************)
(* All steps.                                                              *)
(***************************************************************************)
\* Nothing of the report changes; a call that is out stays out.
CallsOn ==
  /\ SameStreams /\ job' = job /\ offset' = offset
  /\ \A c \in Caller : call'[c] = "idle" <=> call[c] = "idle"

LEMMA CallsOnInv ==
  ASSUME CollectInv, CallsOn
  PROVE  CollectInv'
<1>1. /\ chain' = chain /\ clock' = clock /\ job' = job /\ offset' = offset
      /\ \A c \in Caller : call'[c] = "idle" <=> call[c] = "idle"
  BY DEF CallsOn, SameStreams
<1>2. JobInv /\ Calls /\ offset \in [Caller -> (0 .. MaxTx) \cup {NoOffset}]
  BY DEF CollectInv, CollectTypeOK
<1>3. Calls'
  BY <1>1, <1>2 DEF Calls
<1>4. AskedFor' = AskedFor
  BY <1>1 DEF AskedFor
<1>5. Paged'
  BY <1>1, <1>2, <1>4 DEF JobInv, Paged
<1>6. /\ job' \in Job /\ Collected' /\ QuietIsExact' /\ UnmarkedIsWhole'
  BY <1>1, <1>2 DEF JobInv, Collected, QuietIsExact, UnmarkedIsWhole, Due, Listed
<1>7. JobInv' /\ SameStreams /\ offset' \in [Caller -> (0 .. MaxTx) \cup {NoOffset}]
  BY <1>1, <1>2, <1>5, <1>6 DEF JobInv, CallsOn
<1> QED BY <1>3, <1>7, CollectSame

LEMMA ThrottleStepCallsOn ==
  ASSUME ThrottleTypeOK, NEW c \in Caller, ThrottleStep(c), UNCHANGED collectVars
  PROVE  CallsOn
<1>1. SameStreams /\ job' = job /\ offset' = offset
  BY DEF collectVars, SameStreams
<1>2. call \in [Caller -> CallState]
  BY DEF ThrottleTypeOK
<1>3. PICK s \in CallState : call[c] # "idle" /\ s # "idle" /\ call' = [call EXCEPT ![c] = s]
  <2>1. \A s \in {"queued", "sent", "asleep", "backoff"} : s \in CallState /\ s # "idle"
    BY DEF CallState
  <2> QED BY <2>1 DEF ThrottleStep, Retry, Enter, SendAtOnce, Send, FallAsleep, Wake, TooMany
<1>4. \A d \in Caller : call'[d] = "idle" <=> call[d] = "idle"
  BY <1>2, <1>3
<1> QED BY <1>1, <1>4 DEF CallsOn

\* A request of the networks that are asked one after another.
LEMMA RequestInv ==
  ASSUME CollectInv, JobInv', chain' = chain, clock' = clock,
         offset' = offset, call' = call
  PROVE  CollectInv'
<1>1. SameStreams /\ Calls' /\ offset' \in [Caller -> (0 .. MaxTx) \cup {NoOffset}]
  BY DEF SameStreams, CollectInv, Calls, CollectTypeOK
<1> QED BY <1>1, CollectSame

LEMMA JobStepInv ==
  ASSUME CollectAssumption, CollectInv, ThrottleTypeOK, JobStep
  PROVE  CollectInv'
<1>1. CASE \E c \in Caller : AskFirst(c) \/ AskRest(c)
  BY <1>1, AskFirstInv, AskRestInv
<1>2. CASE EtherPage
  <2>1. JobInv'
    BY <1>2, EtherPageInv
  <2>2. chain' = chain /\ clock' = clock /\ offset' = offset /\ call' = call
    BY <1>2 DEF EtherPage, throttleVars
  <2> QED BY <2>1, <2>2, RequestInv
<1>3. CASE PoolPage
  <2>1. JobInv'
    BY <1>3, PoolPageInv
  <2>2. chain' = chain /\ clock' = clock /\ offset' = offset /\ call' = call
    BY <1>3 DEF PoolPage, throttleVars
  <2> QED BY <2>1, <2>2, RequestInv
<1>4. CASE ChainPage
  <2>1. JobInv'
    BY <1>4, ChainPageInv
  <2>2. chain' = chain /\ clock' = clock /\ offset' = offset /\ call' = call
    BY <1>4 DEF ChainPage, throttleVars
  <2> QED BY <2>1, <2>2, RequestInv
<1>5. CASE Fail
  <2>1. job' = Lost(job)
    BY <1>5 DEF Fail, Lost
  <2>2. JobInv'
    BY <2>1, LostInv
  <2>3. chain' = chain /\ clock' = clock /\ offset' = offset /\ call' = call
    BY <1>5 DEF Fail, throttleVars
  <2> QED BY <2>2, <2>3, RequestInv
<1> QED BY <1>1, <1>2, <1>3, <1>4, <1>5 DEF JobStep

LEMMA NewTransferInv ==
  ASSUME CollectAssumption, CollectInv, NEW s \in Stream, Appear(s)
  PROVE  CollectInv'
<1>1. Appeared
  BY DEF Appeared, Appear, throttleVars
<1> QED BY <1>1, AppearedInv

LEMMA CollectStep ==
  ASSUME CollectAssumption, CollectInv, ThrottleTypeOK, [Next]_vars
  PROVE  CollectInv'
<1>1. ASSUME NEW n \in Network, NEW items \in Limits, NEW from \in 0 .. Pending,
             NEW until \in 0 .. Pending, Ask(n, items, from, until)
      PROVE  CollectInv'
  BY <1>1, AskInv
<1>2. ASSUME NEW c \in Caller, CallerStep(c)
      PROVE  CollectInv'
  <2>1. CASE ThrottleStep(c) /\ UNCHANGED collectVars
    BY <2>1, ThrottleStepCallsOn, CallsOnInv
  <2>2. CASE TronPage(c)
    BY <2>2, TronPageInv
  <2>3. CASE TronError(c)
    BY <2>3, TronErrorInv
  <2> QED BY <1>2, <2>1, <2>2, <2>3 DEF CallerStep
<1>3. CASE JobStep
  BY <1>3, JobStepInv
<1>4. CASE Time
  <2>1. CallsOn
    BY <1>4 DEF Time, Tick, collectVars, CallsOn, SameStreams
  <2> QED BY <2>1, CallsOnInv
<1>5. CASE \E s \in Stream : Appear(s)
  BY <1>5, NewTransferInv
<1>6. CASE UNCHANGED vars
  <2>1. CallsOn
    BY <1>6 DEF vars, CallsOn, SameStreams
  <2> QED BY <2>1, CallsOnInv
<1> QED BY <1>1, <1>2, <1>3, <1>4, <1>5, <1>6 DEF Next

LEMMA CollectStart ==
  ASSUME CollectAssumption, Init
  PROVE  CollectInv
<1>1. /\ clock \in 0 .. MaxTx /\ job = Idle
      /\ offset = [c \in Caller |-> NoOffset]
  BY DEF Init
<1>2. PICK tokens \in SUBSET (1 .. clock) :
        chain = [s \in Stream |-> IF s = "token" THEN tokens ELSE (1 .. clock) \ tokens]
  BY DEF Init
<1>3. /\ chain["token"] = tokens /\ chain["coin"] = (1 .. clock) \ tokens
      /\ \A s \in Stream : chain[s] = tokens \/ chain[s] = (1 .. clock) \ tokens
  BY <1>2 DEF Stream
<1>4. Numbered
  BY <1>3 DEF Numbered
<1>5. CollectTypeOK
  <2>1. 1 .. clock \subseteq Transfer
    BY <1>1 DEF Transfer, CollectAssumption
  <2>2. chain \in [Stream -> SUBSET Transfer]
    BY <1>2, <2>1
  <2> QED BY <1>1, <2>2, IdleIs DEF CollectTypeOK
<1>6. Calls
  <2>1. \A c \in Caller : call[c] = "idle"
    BY DEF Init, ThrottleInit
  <2> QED BY <1>1, <2>1 DEF Calls
<1>7. job.pc = "idle" /\ job.todo = {}
  BY <1>1 DEF Idle
<1>8. Paged /\ Collected /\ QuietIsExact /\ UnmarkedIsWhole
  BY <1>1, <1>7 DEF Paged, Collected, UnderWay, QuietIsExact, UnmarkedIsWhole
<1> QED BY <1>4, <1>5, <1>6, <1>8 DEF CollectInv, CollectTypeOK, JobInv

\* Every step of a collection keeps what is known of its report.
LEMMA CollectionInv ==
  /\ Init => ThrottleInv /\ CollectInv
  /\ ThrottleInv /\ CollectInv /\ [Next]_vars => ThrottleInv' /\ CollectInv'
<1>1. Init => ThrottleInv
  BY ThrottleInitInv DEF Init
<1>2. Init => CollectInv
  BY CollectAssumption, CollectStart
<1>3. ThrottleInv /\ [Next]_vars => ThrottleInv'
  BY NextIsThrottle, ThrottleStepInv
<1>4. ThrottleInv /\ CollectInv /\ [Next]_vars => CollectInv'
  BY CollectAssumption, CollectStep DEF ThrottleInv
<1> QED BY <1>1, <1>2, <1>3, <1>4

\* The report keeps its type: rows are transfers that have appeared or are
\* unconfirmed, never a place nothing has come for (wallets/service.py:180-313,
\* clients.py:124-246).
THEOREM CollectTypeCorrect == Spec => []TypeOK
<1>1. ThrottleInv /\ CollectInv => TypeOK
  BY DEF ThrottleInv, CollectInv, CollectTypeOK, TypeOK
<1> QED BY <1>1, CollectionInv, PTL DEF Spec

\* For any number of callers, any period, limit, cap and page length, and
\* whatever appears outside the period while the pages are read: a report that
\* is not marked has every transfer of its period that had appeared when it was
\* asked for (wallets/service.py:27-313, clients.py:124-246).
THEOREM WholeCorrect == Spec => []UnmarkedIsWhole
<1>1. CollectInv => UnmarkedIsWhole
  BY DEF CollectInv, JobInv
<1> QED BY <1>1, CollectionInv, PTL DEF Spec

\* A report of a wallet at rest, for any period: the newest transfers that are
\* of the period and among the rows looked at, in order, each once
\* (wallets/service.py:27-313).
THEOREM QuietCorrect == Spec => []QuietIsExact
<1>1. CollectInv => QuietIsExact
  BY DEF CollectInv, JobInv
<1> QED BY <1>1, CollectionInv, PTL DEF Spec
==============================================================================
