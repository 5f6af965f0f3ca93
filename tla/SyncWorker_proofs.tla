------------------------- MODULE SyncWorker_proofs --------------------------
(***************************************************************************)
(* Machine-checked facts about SyncWorker, for every set of workers,       *)
(* wallets and transfers, every order of faults and, where not said        *)
(* otherwise, any overlap of syncs.                                        *)
(***************************************************************************)
EXTENDS SyncWorker, TLAPS

-----------------------------------------------------------------------------
(***************************************************************************)
(* The local records that actions write, and their fields.                 *)
(***************************************************************************)
LEMMA IdleTask ==
  /\ Idle \in Task
  /\ Idle.pc = "idle" /\ Idle.wallet = None /\ Idle.todo = {}
  /\ Idle.months = {} /\ Idle.due = {}
  BY DEF Idle, Task

Loaded(wal, r, x, c) ==
  [Idle EXCEPT !.pc = "loaded", !.wallet = wal, !.row = r, !.read = x,
     !.cursor = c]

LEMMA LoadedTask ==
  ASSUME NEW wal \in Wallet,
         NEW r \in RowId \cup {None},
         NEW x \in Status,
         NEW c \in Nat
  PROVE  LET s == Loaded(wal, r, x, c)
         IN /\ s \in Task
            /\ s.pc = "loaded" /\ s.wallet = wal /\ s.row = r
            /\ s.cursor = c /\ s.months = {} /\ s.todo = {}
  BY DEF Task, Loaded, Idle

Marked(o, r, D, T) ==
  [o EXCEPT !.pc = "streaming", !.row = r, !.read = None, !.due = D,
     !.todo = T]

LEMMA MarkedTask ==
  ASSUME NEW o \in Task,
         NEW r \in RowId,
         NEW D \in SUBSET Transfer,
         NEW T \in SUBSET Transfer
  PROVE  LET s == Marked(o, r, D, T)
         IN /\ s \in Task
            /\ s.pc = "streaming" /\ s.row = r /\ s.due = D
            /\ s.todo = T /\ s.wallet = o.wallet /\ s.months = o.months
  BY DEF Task, Marked

LEMMA FailingTask ==
  ASSUME NEW o \in Task
  PROVE  LET s == Failing(o)
         IN /\ s \in Task
            /\ s.pc = "failing" /\ s.months = {} /\ s.wallet = o.wallet
            /\ s.row = o.row /\ s.todo = {}
  BY DEF Task, Failing, Idle

\* After the SELECT that precedes a change of the status.
Asking(o, pc, x) == [o EXCEPT !.pc = pc, !.cursor = 0, !.read = x]

LEMMA AskingTask ==
  ASSUME NEW o \in Task,
         NEW pc \in {"completing", "recording"},
         NEW x \in Status
  PROVE  LET s == Asking(o, pc, x)
         IN /\ s \in Task
            /\ s.pc = pc /\ s.read = x /\ s.wallet = o.wallet
            /\ s.row = o.row /\ s.todo = o.todo /\ s.due = o.due
            /\ s.months = o.months
  BY DEF Task, Asking

Selected(o, t, a, T) ==
  [o EXCEPT !.pc = "storing", !.cur = t, !.asset = a,
     !.todo = T]

LEMMA SelectedTask ==
  ASSUME NEW o \in Task,
         NEW t \in Transfer,
         NEW a \in AssetId \cup {None},
         NEW T \in SUBSET Transfer
  PROVE  LET s == Selected(o, t, a, T)
         IN /\ s \in Task
            /\ s.pc = "storing" /\ s.cur = t /\ s.asset = a
            /\ s.todo = T /\ s.wallet = o.wallet /\ s.row = o.row
            /\ s.months = o.months /\ s.due = o.due
  BY DEF Task, Selected

Booking(o, M, c) ==
  [o EXCEPT !.pc = "streaming", !.cur = None, !.asset = None, !.months = M,
     !.cursor = c]

LEMMA BookingTask ==
  ASSUME NEW o \in Task,
         NEW M \in SUBSET Month,
         NEW c \in Nat
  PROVE  LET s == Booking(o, M, c)
         IN /\ s \in Task
            /\ s.pc = "streaming" /\ s.months = M /\ s.wallet = o.wallet
            /\ s.row = o.row /\ s.todo = o.todo /\ s.due = o.due
  BY DEF Task, Booking

Completed(o) == [o EXCEPT !.pc = "rebuilding", !.read = None]

LEMMA CompletedTask ==
  ASSUME NEW o \in Task
  PROVE  LET s == Completed(o)
         IN /\ s \in Task
            /\ s.pc = "rebuilding" /\ s.wallet = o.wallet /\ s.row = o.row
            /\ s.todo = o.todo /\ s.due = o.due /\ s.months = o.months
  BY DEF Task, Completed

Read(o, m, C) == [o EXCEPT !.pc = "writing", !.month = m, !.snap = C]

LEMMA ReadTask ==
  ASSUME NEW o \in Task,
         NEW m \in Month,
         NEW C \in SUBSET Entry
  PROVE  LET s == Read(o, m, C)
         IN /\ s \in Task
            /\ s.pc = "writing" /\ s.month = m /\ s.snap = C
            /\ s.wallet = o.wallet /\ s.row = o.row /\ s.todo = o.todo
            /\ s.due = o.due /\ s.months = o.months
  BY DEF Task, Read

Written(o, M) ==
  [o EXCEPT !.pc = "rebuilding", !.month = None, !.snap = {}, !.months = M]

LEMMA WrittenTask ==
  ASSUME NEW o \in Task,
         NEW M \in SUBSET Month
  PROVE  LET s == Written(o, M)
         IN /\ s \in Task
            /\ s.pc = "rebuilding" /\ s.months = M /\ s.wallet = o.wallet
            /\ s.row = o.row /\ s.todo = o.todo /\ s.due = o.due
  BY DEF Task, Written

Extended(o, T) == [o EXCEPT !.todo = T]

LEMMA ExtendedTask ==
  ASSUME NEW o \in Task,
         NEW T \in SUBSET Transfer
  PROVE  LET s == Extended(o, T)
         IN /\ s \in Task
            /\ s.pc = o.pc /\ s.wallet = o.wallet /\ s.row = o.row
            /\ s.read = o.read
            /\ s.cursor = o.cursor /\ s.due = o.due /\ s.todo = T
            /\ s.cur = o.cur /\ s.asset = o.asset /\ s.months = o.months
            /\ s.month = o.month /\ s.snap = o.snap
  BY DEF Task, Extended

LEMMA Moves ==
  ASSUME TypeOK, NEW w \in Worker, NEW s \in Task,
         task' = [task EXCEPT ![w] = s]
  PROVE  /\ task' \in [Worker -> Task]
         /\ task'[w] = s
         /\ \A v \in Worker \ {w} : task'[v] = task[v]
  BY DEF TypeOK

-----------------------------------------------------------------------------
(***************************************************************************)
(* What each action does to the local record of its worker.                *)
(***************************************************************************)
LEMMA LoadMoves ==
  ASSUME TypeOK, NEW w \in Worker, NEW wal \in Wallet, NEW f \in ForceArgs,
         Load(w, wal, f)
  PROVE  \E r \in RowId \cup {None}, x \in Status, c \in Nat :
           /\ c = IF r = None THEN 0 ELSE last_synced_block[r]
           /\ task' = [task EXCEPT ![w] = Loaded(wal, r, x, c)]
<1>1. PICK r \in RowId \cup {None} :
        task' = [task EXCEPT ![w] =
                   Loaded(wal, r, IF r = None THEN "pending" ELSE status[r],
                          IF r = None THEN 0 ELSE last_synced_block[r])]
  BY DEF Load, Loaded
<1>2. (IF r = None THEN 0 ELSE last_synced_block[r]) \in Nat
  BY DEF TypeOK
<1>3. (IF r = None THEN "pending" ELSE status[r]) \in Status
  BY DEF TypeOK, Status
<1> QED
  BY <1>1, <1>2, <1>3

LEMMA MarkRunningMoves ==
  ASSUME TypeOK, NEW w \in Worker, MarkRunning(w), task[w].wallet # None
  PROVE  LET D == {t \in chain : WalletOf[t] = task[w].wallet}
         IN \E r \in RowId :
              /\ r = IF task[w].row = None THEN <<task[w].wallet, w>>
                                           ELSE task[w].row
              /\ task' = [task EXCEPT ![w] =
                            Marked(task[w], r, D,
                                   {t \in D : Fetchable(t, task[w].cursor)})]
<1>1. task[w] \in Task
  BY DEF TypeOK
<1>2. (IF task[w].row = None THEN <<task[w].wallet, w>> ELSE task[w].row) \in RowId
  BY <1>1 DEF RowId, Task
<1> QED
  BY <1>2 DEF MarkRunning, Marked

LEMMA SelectAssetMoves ==
  ASSUME TypeOK, NEW w \in Worker, NEW t \in Transfer, SelectAsset(w, t)
  PROVE  \E a \in AssetId \cup {None} :
           /\ a # None => a[1] = ContractOf[t]
           /\ task' = [task EXCEPT ![w] =
                         Selected(task[w], t, a, task[w].todo \ {t})]
  BY DEF SelectAsset, Selected, AssetRows

LEMMA StoreTransferMoves ==
  ASSUME TypeOK, NEW w \in Worker, StoreTransfer(w), task[w].cur \in Transfer
  PROVE  LET new == ~Conflict(task[w].cur, AssetFor(w))
         IN /\ MonthsAfter(w, new) \in SUBSET Month
            /\ \E c \in Nat :
                 task' = [task EXCEPT ![w] =
                            Booking(task[w], MonthsAfter(w, new), c)]
<1> DEFINE new == ~Conflict(task[w].cur, AssetFor(w))
           c == IF new THEN Later(task[w].cursor, BlockOf[task[w].cur])
                       ELSE task[w].cursor
<1>1. task[w] \in Task
  BY DEF TypeOK
<1>2. task' = [task EXCEPT ![w] = Booking(task[w], MonthsAfter(w, new), c)]
  BY DEF StoreTransfer, Booking
<1> HIDE DEF new
<1>3. c \in Nat
  BY <1>1, SyncAssumption DEF Later, Task
<1>4. MonthsAfter(w, new) \in SUBSET Month
  BY <1>1, SyncAssumption DEF MonthsAfter, Task
<1> HIDE DEF c
<1> QED
  BY <1>2, <1>3, <1>4 DEF new

LEMMA OtherMoves ==
  ASSUME TypeOK, NEW w \in Worker
  PROVE  /\ Raise(w) => task' = [task EXCEPT ![w] = Failing(task[w])]
         /\ \A pc : SelectStatus(w, pc) =>
              task' = [task EXCEPT ![w] =
                         Asking(task[w], pc, status[task[w].row])]
         /\ Complete(w) => task' = [task EXCEPT ![w] = Completed(task[w])]
         /\ \A m \in Month : RebuildRead(w, m) =>
              task' = [task EXCEPT ![w] =
                         Read(task[w], m, Counted(task[w].wallet, m))]
         /\ RebuildWrite(w) =>
              task' = [task EXCEPT ![w] =
                Written(task[w], task[w].months \ {task[w].month})]
  BY DEF Raise, SelectStatus, Complete, RebuildRead, RebuildWrite, Asking,
         Completed, Read, Written

LEMMA StatusFact ==
  ASSUME TypeOK, NEW r \in RowId, NEW read, NEW new \in Status
  PROVE  /\ StatusAfter(r, read, new) \in [RowId -> Status]
         /\ \A q \in RowId \ {r} : StatusAfter(r, read, new)[q] = status[q]
         /\ StatusAfter(r, read, new)[r] = IF read = new THEN status[r] ELSE new
  BY DEF TypeOK, StatusAfter

LEMMA ArriveMoves ==
  ASSUME TypeOK, NEW t \in Transfer, Arrive(t)
  PROVE  /\ task' \in [Worker -> Task]
         /\ \A w \in Worker :
              \/ task'[w] = task[w]
              \/ /\ Streams(w, t)
                 /\ task'[w] = Extended(task[w], task[w].todo \cup {t})
<1>1. PICK S \in SUBSET {w \in Worker : Streams(w, t)} :
        task' = [w \in Worker |->
                   IF w \in S THEN Extended(task[w], task[w].todo \cup {t})
                              ELSE task[w]]
  BY DEF Arrive, Extended
<1>2. ASSUME NEW w \in Worker
      PROVE  Extended(task[w], task[w].todo \cup {t}) \in Task
  <2>1. task[w] \in Task
    BY DEF TypeOK
  <2>2. task[w].todo \cup {t} \in SUBSET Transfer
    BY <2>1 DEF Task
  <2> QED
    BY <2>1, <2>2, ExtendedTask
<1> QED
  BY <1>1, <1>2 DEF TypeOK

-----------------------------------------------------------------------------
(***************************************************************************)
(* Types, and the local variables agreeing with the line a worker is at.   *)
(***************************************************************************)
Fits(s) ==
  /\ (s.wallet = None) <=> (s.pc = "idle")
  /\ s.pc \in {"idle", "loaded", "failing", "recording"} => s.months = {}
  /\ s.pc \notin {"idle", "loaded"} => s.row # None
  /\ s.pc = "storing" => /\ s.cur \in chain
                         /\ WalletOf[s.cur] = s.wallet
                         /\ s.asset # None => s.asset[1] = ContractOf[s.cur]
  /\ s.pc = "writing" => s.month \in s.months
  /\ \A t \in s.todo : t \in chain /\ WalletOf[t] = s.wallet

Coherent == TypeOK /\ \A w \in Worker : Fits(task[w])

LEMMA CoherentInit == Init => Coherent
  BY IdleTask, SyncAssumption DEF Init, Coherent, TypeOK, Status, Fits

LEMMA Update ==
  ASSUME Coherent, NEW w \in Worker, NEW s \in Task, Fits(s),
         task' = [task EXCEPT ![w] = s], chain' = chain
  PROVE  /\ task' \in [Worker -> Task]
         /\ \A v \in Worker : Fits(task[v])'
<1>1. /\ task' \in [Worker -> Task]
      /\ task'[w] = s
      /\ \A v \in Worker \ {w} : task'[v] = task[v]
  BY Moves DEF Coherent
<1>2. Fits(task[w])'
  BY <1>1 DEF Fits
<1>3. ASSUME NEW v \in Worker \ {w} PROVE Fits(task[v])'
  BY <1>1 DEF Fits, Coherent
<1> QED
  BY <1>1, <1>2, <1>3

LEMMA CoherentStep == Coherent /\ [Next]_vars => Coherent'
<1> SUFFICES ASSUME Coherent, [Next]_vars PROVE Coherent'
  OBVIOUS
<1> USE SyncAssumption
<1>0. TypeOK /\ \A w \in Worker : task[w] \in Task /\ Fits(task[w])
  BY DEF Coherent, TypeOK
<1>1. ASSUME NEW t \in Transfer, Arrive(t) PROVE Coherent'
  <2>1. /\ task' \in [Worker -> Task]
        /\ \A w \in Worker :
             \/ task'[w] = task[w]
             \/ /\ Streams(w, t)
                /\ task'[w] = Extended(task[w], task[w].todo \cup {t})
    BY <1>0, <1>1, ArriveMoves
  <2>2. ASSUME NEW w \in Worker PROVE Fits(task[w])'
    <3>1. CASE task'[w] = task[w]
      BY <3>1, <1>0, <1>1 DEF Arrive, Fits
    <3>2. CASE Streams(w, t) /\ task'[w] = Extended(task[w], task[w].todo \cup {t})
      <4> DEFINE T == task[w].todo \cup {t}
                 o == task[w]
                 s == Extended(o, T)
      <4>1. T \in SUBSET Transfer
        BY <1>0 DEF Task
      <4>2. /\ s.pc = o.pc /\ s.wallet = o.wallet /\ s.row = o.row
            /\ s.months = o.months /\ s.month = o.month /\ s.cur = o.cur
            /\ s.asset = o.asset /\ s.todo = T
        <5> HIDE DEF T
        <5> QED
          BY <1>0, <4>1, ExtendedTask
      <4>3. o.wallet = WalletOf[t]
        BY <3>2 DEF Streams
      <4> HIDE DEF s
      <4>4. task'[w] = s
        BY <3>2 DEF s
      <4> QED
        BY <4>2, <4>3, <4>4, <1>0, <1>1 DEF Arrive, Fits
    <3> QED
      BY <3>1, <3>2, <2>1
  <2> QED
    BY <1>1, <2>1, <2>2 DEF Coherent, TypeOK, Arrive
<1>2. ASSUME NEW w \in Worker, NEW wal \in Wallet, NEW f \in ForceArgs,
             Load(w, wal, f)
      PROVE  Coherent'
  <2>1. PICK r \in RowId \cup {None}, x \in Status, c \in Nat :
          task' = [task EXCEPT ![w] = Loaded(wal, r, x, c)]
    BY <1>0, <1>2, LoadMoves
  <2> DEFINE s == Loaded(wal, r, x, c)
  <2>2. /\ s \in Task /\ s.pc = "loaded" /\ s.wallet = wal
        /\ s.months = {} /\ s.todo = {}
    BY LoadedTask
  <2>3. task' = [task EXCEPT ![w] = s]
    BY <2>1
  <2> HIDE DEF s
  <2>4. Fits(s)
    BY <2>2 DEF Fits
  <2> QED
    BY <1>2, <2>2, <2>3, <2>4, Update DEF Load, Coherent, TypeOK
<1>3. ASSUME NEW w \in Worker, MarkRunning(w) PROVE Coherent'
  <2> DEFINE D == {t \in chain : WalletOf[t] = task[w].wallet}
             T == {t \in D : Fetchable(t, task[w].cursor)}
  <2>1. task[w].pc = "loaded" /\ task[w].wallet \in Wallet
    BY <1>0, <1>3 DEF MarkRunning, Fits, Task
  <2>2. PICK r \in RowId :
          /\ r = IF task[w].row = None THEN <<task[w].wallet, w>>
                                       ELSE task[w].row
          /\ task' = [task EXCEPT ![w] = Marked(task[w], r, D, T)]
    BY <1>0, <1>3, <2>1, MarkRunningMoves
  <2> DEFINE s == Marked(task[w], r, D, T)
  <2>3. /\ s \in Task /\ s.pc = "streaming" /\ s.row = r
        /\ s.wallet = task[w].wallet /\ s.todo = T
    <3>1. D \in SUBSET Transfer /\ T \in SUBSET Transfer
      BY <1>0 DEF TypeOK
    <3> HIDE DEF D, T
    <3> QED
      BY <1>0, <3>1, MarkedTask
  <2>4. T \subseteq D /\ task' = [task EXCEPT ![w] = s]
    BY <2>2
  <2>5. Fits(s)
    <3> HIDE DEF T, s
    <3> QED
      BY <2>1, <2>3, <2>4 DEF Fits
  <2>6. /\ syncRows' = syncRows \cup {r}
        /\ status' = StatusAfter(r, task[w].read, "running")
        /\ abandoned' = abandoned \ {r}
    BY <1>3, <2>2 DEF MarkRunning
  <2>7. status' \in [RowId -> Status]
    BY <1>0, <2>6, StatusFact DEF Status
  <2> HIDE DEF s
  <2> QED
    BY <1>3, <2>3, <2>4, <2>5, <2>6, <2>7, Update
       DEF MarkRunning, Coherent, TypeOK
<1>4. ASSUME NEW w \in Worker, Raise(w), task[w].pc \notin {"idle", "loaded"}
      PROVE  Coherent'
  <2> DEFINE s == Failing(task[w])
  <2>1. /\ s \in Task /\ s.pc = "failing" /\ s.months = {}
        /\ s.wallet = task[w].wallet /\ s.row = task[w].row
        /\ s.todo = {}
    BY <1>0, FailingTask
  <2>2. task' = [task EXCEPT ![w] = s] /\ Lost(w) \subseteq Wallet \X Month
    BY <1>0, <1>4, OtherMoves DEF Task, Fits, Lost
  <2> HIDE DEF s
  <2>3. Fits(s)
    BY <1>0, <1>4, <2>1 DEF Fits
  <2> QED
    BY <1>4, <2>1, <2>2, <2>3, Update DEF Raise, Coherent, TypeOK
<1>5. ASSUME NEW w \in Worker, Stop(w), task[w].pc # "idle" PROVE Coherent'
  <2>1. Fits(Idle) /\ Lost(w) \subseteq Wallet \X Month
    BY <1>0, <1>5, IdleTask DEF Task, Fits, Lost
  <2>2. abandoned' \subseteq RowId
    <3>1. TakesBack(w) => task[w].row \in RowId
      BY <1>0 DEF TakesBack, Fits, Task
    <3> QED
      BY <1>0, <1>5, <3>1 DEF Stop, TypeOK
  <2> QED
    BY <1>5, <2>1, <2>2, IdleTask, Update DEF Stop, Coherent, TypeOK
<1>6. ASSUME NEW w \in Worker, RecordFailure(w) \/ Return(w) PROVE Coherent'
  <2>1. Fits(Idle)
    BY IdleTask DEF Fits
  <2>2. status' \in [RowId -> Status]
    <3>1. CASE RecordFailure(w)
      <4>1. task[w].row \in RowId
        BY <1>0, <3>1 DEF RecordFailure, Fits, Task
      <4> QED
        BY <1>0, <3>1, <4>1, StatusFact DEF RecordFailure, Status
    <3>2. CASE Return(w)
      BY <1>0, <3>2 DEF Return, TypeOK
    <3> QED
      BY <1>6, <3>1, <3>2
  <2> QED
    BY <1>6, <2>1, <2>2, IdleTask, Update
       DEF RecordFailure, Return, Coherent, TypeOK
<1>7. ASSUME NEW w \in Worker, NEW t \in Transfer, SelectAsset(w, t)
      PROVE  Coherent'
  <2> DEFINE T == task[w].todo \ {t}
  <2>1. PICK a \in AssetId \cup {None} :
          /\ a # None => a[1] = ContractOf[t]
          /\ task' = [task EXCEPT ![w] = Selected(task[w], t, a, T)]
    BY <1>0, <1>7, SelectAssetMoves
  <2> DEFINE s == Selected(task[w], t, a, T)
  <2>2. t \in task[w].todo /\ task[w].pc = "streaming"
    BY <1>7 DEF SelectAsset
  <2>3. T \in SUBSET Transfer /\ T \subseteq task[w].todo
    BY <1>0 DEF Task
  <2> HIDE DEF T
  <2>4. /\ s \in Task /\ s.pc = "storing" /\ s.cur = t /\ s.asset = a
        /\ s.todo = T /\ s.wallet = task[w].wallet /\ s.row = task[w].row
    BY <1>0, <2>3, SelectedTask
  <2> HIDE DEF s
  <2>5. Fits(s)
    BY <1>0, <2>1, <2>2, <2>3, <2>4 DEF Fits
  <2>6. task' = [task EXCEPT ![w] = s]
    BY <2>1 DEF s
  <2> QED
    BY <1>7, <2>4, <2>5, <2>6, Update DEF SelectAsset, Coherent, TypeOK
<1>8. ASSUME NEW w \in Worker, StoreTransfer(w) PROVE Coherent'
  <2> DEFINE M == MonthsAfter(w, ~Conflict(task[w].cur, AssetFor(w)))
             a == AssetFor(w)
  <2>1. task[w].pc = "storing" /\ task[w].cur \in Transfer
    BY <1>0, <1>8 DEF StoreTransfer, Fits, TypeOK
  <2>2. PICK c \in Nat :
          /\ M \in SUBSET Month
          /\ task' = [task EXCEPT ![w] = Booking(task[w], M, c)]
    BY <1>0, <1>8, <2>1, StoreTransferMoves
  <2>3. a \in AssetId
    BY <1>0, <2>1 DEF AssetFor, AssetId, Task
  <2>4. /\ assets' = assets \cup {a}
        /\ stored' \in {stored, stored \cup {<<task[w].cur, a>>}}
    BY <1>8 DEF StoreTransfer
  <2> DEFINE s == Booking(task[w], M, c)
  <2> HIDE DEF M, a
  <2>5. /\ s \in Task /\ s.pc = "streaming" /\ s.row = task[w].row
        /\ s.wallet = task[w].wallet /\ s.todo = task[w].todo
    BY <1>0, <2>2, BookingTask
  <2> HIDE DEF s
  <2>6. Fits(s)
    BY <1>0, <2>1, <2>5 DEF Fits
  <2>7. task' = [task EXCEPT ![w] = s]
    BY <2>2 DEF s
  <2>8. assets' \subseteq AssetId /\ stored' \subseteq Entry
    BY <1>0, <2>1, <2>3, <2>4 DEF Entry, TypeOK
  <2> QED
    BY <1>8, <2>5, <2>6, <2>7, <2>8, Update DEF StoreTransfer, Coherent, TypeOK
<1>9. ASSUME NEW w \in Worker, Complete(w) PROVE Coherent'
  <2> DEFINE s == Completed(task[w])
  <2>1. /\ s \in Task /\ s.pc = "rebuilding" /\ s.row = task[w].row
        /\ s.wallet = task[w].wallet /\ s.todo = task[w].todo
    BY <1>0, CompletedTask
  <2>2. task' = [task EXCEPT ![w] = s] /\ task[w].pc = "completing"
    BY <1>0, <1>9, OtherMoves DEF Complete
  <2> HIDE DEF s
  <2>3. Fits(s)
    BY <1>0, <2>1, <2>2 DEF Fits
  <2>4. status' \in [RowId -> Status]
    <3>1. task[w].row \in RowId
      BY <1>0, <2>2 DEF Fits, Task
    <3> QED
      BY <1>0, <1>9, <3>1, StatusFact DEF Complete, Status
  <2> QED
    BY <1>9, <2>1, <2>2, <2>3, <2>4, Update DEF Complete, Coherent, TypeOK
<1>10. ASSUME NEW w \in Worker, NEW m \in Month, RebuildRead(w, m)
       PROVE  Coherent'
  <2> DEFINE C == Counted(task[w].wallet, m)
             s == Read(task[w], m, C)
  <2>1. C \in SUBSET Entry
    BY <1>0 DEF Counted, TypeOK
  <2>2. /\ task' = [task EXCEPT ![w] = s]
        /\ task[w].pc = "rebuilding" /\ m \in task[w].months
    BY <1>0, <1>10, OtherMoves DEF RebuildRead
  <2> HIDE DEF C
  <2>3. /\ s \in Task /\ s.pc = "writing" /\ s.month = m
        /\ s.months = task[w].months /\ s.row = task[w].row
        /\ s.wallet = task[w].wallet /\ s.todo = task[w].todo
    BY <1>0, <2>1, ReadTask
  <2> HIDE DEF s
  <2>4. Fits(s)
    BY <1>0, <2>2, <2>3 DEF Fits
  <2> QED
    BY <1>10, <2>2, <2>3, <2>4, Update DEF RebuildRead, Coherent, TypeOK
<1>11. ASSUME NEW w \in Worker, RebuildWrite(w) PROVE Coherent'
  <2> DEFINE M == task[w].months \ {task[w].month}
             s == Written(task[w], M)
             k == <<task[w].wallet, task[w].month>>
  <2>1. /\ task' = [task EXCEPT ![w] = s]
        /\ task[w].pc = "writing"
        /\ agg' = [agg EXCEPT ![k] = Overwrite(agg[k], task[w].snap)]
        /\ dropped' = dropped \ {k}
    BY <1>0, <1>11, OtherMoves DEF RebuildWrite
  <2>2. M \in SUBSET Month /\ task[w].wallet \in Wallet /\ task[w].month \in Month
    BY <1>0, <2>1 DEF Task, Fits
  <2> HIDE DEF M
  <2>3. /\ s \in Task /\ s.pc = "rebuilding" /\ s.row = task[w].row
        /\ s.wallet = task[w].wallet /\ s.todo = task[w].todo
    BY <1>0, <2>2, WrittenTask
  <2> HIDE DEF s
  <2>4. Fits(s)
    BY <1>0, <2>1, <2>3 DEF Fits
  <2>5. Overwrite(agg[k], task[w].snap) \subseteq Entry
    BY <1>0, <2>2 DEF Overwrite, Task, TypeOK
  <2> HIDE DEF k
  <2>6. agg' \in [Wallet \X Month -> SUBSET Entry]
    BY <1>0, <2>1, <2>5 DEF TypeOK
  <2> QED
    BY <1>11, <2>1, <2>3, <2>4, <2>6, Update DEF RebuildWrite, Coherent, TypeOK
<1>12. ASSUME NEW w \in Worker, NEW pc \in {"completing", "recording"},
              SelectStatus(w, pc),
              \/ pc = "completing" /\ task[w].pc = "streaming"
              \/ pc = "recording" /\ task[w].pc = "failing"
       PROVE  Coherent'
  <2> DEFINE x == status[task[w].row]
             s == Asking(task[w], pc, x)
  <2>1. x \in Status
    <3>1. task[w].row \in RowId
      BY <1>0, <1>12 DEF Fits, Task
    <3> QED
      BY <1>0, <3>1 DEF TypeOK
  <2>2. task' = [task EXCEPT ![w] = s]
    BY <1>0, <1>12, OtherMoves
  <2> HIDE DEF x
  <2>3. /\ s \in Task /\ s.pc = pc /\ s.wallet = task[w].wallet
        /\ s.row = task[w].row /\ s.todo = task[w].todo
        /\ s.months = task[w].months
    BY <1>0, <2>1, AskingTask
  <2> HIDE DEF s
  <2>4. Fits(s)
    BY <1>0, <1>12, <2>3 DEF Fits
  <2> QED
    BY <1>12, <2>2, <2>3, <2>4, Update DEF SelectStatus, Coherent, TypeOK
<1>13. CASE UNCHANGED vars
  BY <1>0, <1>13 DEF vars, Coherent, Fits, TypeOK
<1> QED
  BY <1>1, <1>2, <1>3, <1>4, <1>5, <1>6, <1>7, <1>8, <1>9, <1>10, <1>11, <1>12, <1>13
     DEF Next, Step, Fault, Refuse, AssetAmbiguous, AssetConflict,
         ProviderError, DatabaseError, Abort, Crash,
         SelectCompleted, SelectFailed

\* Whatever happens, the tables and the local variables keep their types.
THEOREM TypeCorrect == Spec => []TypeOK
<1>1. Coherent => TypeOK
  BY DEF Coherent
<1> QED
  BY CoherentInit, CoherentStep, <1>1, PTL DEF Spec

-----------------------------------------------------------------------------
(***************************************************************************)
(* Nothing on chain is passed over.  The argument: the committed cursor is *)
(* 0 in every row (line 175 advances a detached copy), so a stream offers  *)
(* everything on chain, and what it has offered is booked or in hand.      *)
(***************************************************************************)
BookedIn(t, S) ==
  \E e \in S : /\ HashOf[e[1]] = HashOf[t]
               /\ WalletOf[e[1]] = WalletOf[t]
               /\ e[2][1] = ContractOf[t]

\* A transfer that was due is stored, or the stream has still to yield it, or
\* it is the one being stored.
Covers(s, S) ==
  /\ s.pc = "loaded" => s.cursor = 0
  /\ s.pc \in {"streaming", "storing", "completing", "rebuilding", "writing"} =>
       \A t \in s.due :
         \/ BookedIn(t, S)
         \/ s.pc \in {"streaming", "storing"} /\ t \in s.todo
         \/ s.pc = "storing" /\ t = s.cur

NothingLost ==
  /\ Coherent
  /\ \A r \in RowId : last_synced_block[r] = 0
  /\ \A w \in Worker : Covers(task[w], stored)

LEMMA CoversGrows ==
  ASSUME NEW s, NEW S, NEW T, S \subseteq T, Covers(s, S)
  PROVE  Covers(s, T)
  BY DEF Covers, BookedIn

LEMMA CoversUpdate ==
  ASSUME NothingLost, NEW w \in Worker, NEW s \in Task,
         task' = [task EXCEPT ![w] = s],
         stored \subseteq stored', Covers(s, stored'),
         UNCHANGED last_synced_block, Coherent'
  PROVE  NothingLost'
<1>1. /\ task'[w] = s
      /\ \A v \in Worker \ {w} : task'[v] = task[v]
  BY Moves DEF NothingLost, Coherent
<1>2. \A v \in Worker : Covers(task'[v], stored')
  BY <1>1, CoversGrows DEF NothingLost
<1> QED
  BY <1>2 DEF NothingLost

LEMMA BookedStored ==
  ASSUME NEW t, NEW a, a[1] = ContractOf[t],
         stored' = IF Conflict(t, a) THEN stored ELSE stored \cup {<<t, a>>}
  PROVE  BookedIn(t, stored') /\ stored \subseteq stored'
<1>1. CASE Conflict(t, a)
  BY <1>1 DEF Conflict, BookedIn
<1>2. CASE ~Conflict(t, a)
  <2>1. <<t, a>> \in stored'
    BY <1>2
  <2> QED
    BY <1>2, <2>1 DEF BookedIn
<1> QED
  BY <1>1, <1>2

LEMMA NothingLostInit == Init => NothingLost
<1> SUFFICES ASSUME Init PROVE NothingLost
  OBVIOUS
<1>1. \A w \in Worker : Covers(task[w], stored)
  BY IdleTask DEF Init, Covers
<1>2. \A r \in RowId : last_synced_block[r] = 0
  BY DEF Init
<1> QED
  BY <1>1, <1>2, CoherentInit DEF NothingLost

LEMMA NothingLostStep == NothingLost /\ [Next]_vars => NothingLost'
<1> SUFFICES ASSUME NothingLost, [Next]_vars PROVE NothingLost'
  OBVIOUS
<1> USE SyncAssumption
<1>0. /\ Coherent /\ Coherent' /\ TypeOK
      /\ \A w \in Worker : /\ task[w] \in Task
                           /\ Fits(task[w])
                           /\ Covers(task[w], stored)
  BY CoherentStep DEF NothingLost, Coherent, TypeOK
<1>1. ASSUME NEW t \in Transfer, Arrive(t) PROVE NothingLost'
  <2>1. /\ \A w \in Worker :
             \/ task'[w] = task[w]
             \/ task'[w] = Extended(task[w], task[w].todo \cup {t})
        /\ UNCHANGED <<stored, last_synced_block>>
    BY <1>0, <1>1, ArriveMoves DEF Arrive
  <2>2. ASSUME NEW w \in Worker PROVE Covers(task'[w], stored)
    <3> DEFINE T == task[w].todo \cup {t}
               s == Extended(task[w], T)
    <3>1. T \in SUBSET Transfer /\ task[w].todo \subseteq T
      BY <1>0 DEF Task
    <3> HIDE DEF T
    <3>2. /\ s.pc = task[w].pc /\ s.cursor = task[w].cursor
          /\ s.due = task[w].due /\ s.todo = T /\ s.cur = task[w].cur
      BY <1>0, <3>1, ExtendedTask
    <3>3. task'[w] = task[w] \/ task'[w] = s
      BY <2>1 DEF T
    <3> HIDE DEF s
    <3> QED
      BY <1>0, <3>1, <3>2, <3>3 DEF Covers
  <2> QED
    BY <1>0, <2>1, <2>2 DEF NothingLost
<1>2. ASSUME NEW w \in Worker, NEW wal \in Wallet, NEW f \in ForceArgs,
             Load(w, wal, f)
      PROVE  NothingLost'
  <2>1. PICK r \in RowId \cup {None}, x \in Status, c \in Nat :
          /\ c = IF r = None THEN 0 ELSE last_synced_block[r]
          /\ task' = [task EXCEPT ![w] = Loaded(wal, r, x, c)]
    BY <1>0, <1>2, LoadMoves
  <2> DEFINE s == Loaded(wal, r, x, c)
  <2>2. s \in Task /\ s.pc = "loaded" /\ s.cursor = c
    BY LoadedTask, SMTT(30)
  <2>3. task' = [task EXCEPT ![w] = s]
    BY <2>1
  <2> HIDE DEF s
  <2>4. c = 0
    BY <2>1 DEF NothingLost
  <2>5. Covers(s, stored)
    BY <2>2, <2>4 DEF Covers
  <2> QED
    BY <1>0, <1>2, <2>2, <2>3, <2>5, CoversUpdate DEF Load
<1>3. ASSUME NEW w \in Worker, MarkRunning(w) PROVE NothingLost'
  <2> DEFINE D == {t \in chain : WalletOf[t] = task[w].wallet}
             T == {t \in D : Fetchable(t, task[w].cursor)}
  <2>1. task[w].pc = "loaded" /\ task[w].wallet # None
    BY <1>0, <1>3 DEF MarkRunning, Fits
  <2>2. PICK r \in RowId :
          task' = [task EXCEPT ![w] = Marked(task[w], r, D, T)]
    BY <1>0, <1>3, <2>1, MarkRunningMoves
  <2> DEFINE s == Marked(task[w], r, D, T)
  <2>3. D \in SUBSET Transfer
    BY <1>0 DEF TypeOK
  <2>4. T = D
    <3>1. task[w].cursor = 0
      BY <1>0, <2>1 DEF Covers
    <3>2. \A t \in D : Fetchable(t, 0)
      BY <2>3 DEF Fetchable
    <3> QED
      BY <3>1, <3>2
  <2>5. task' = [task EXCEPT ![w] = s]
    BY <2>2
  <2> HIDE DEF D, T
  <2>6. s \in Task /\ s.pc = "streaming" /\ s.due = D /\ s.todo = D
    BY <1>0, <2>3, <2>4, MarkedTask
  <2> HIDE DEF s
  <2>7. Covers(s, stored)
    BY <2>6 DEF Covers
  <2> QED
    BY <1>0, <1>3, <2>5, <2>6, <2>7, CoversUpdate DEF MarkRunning
<1>4. ASSUME NEW w \in Worker, Raise(w) PROVE NothingLost'
  <2> DEFINE s == Failing(task[w])
  <2>1. s \in Task /\ s.pc = "failing"
    BY <1>0, FailingTask
  <2>2. task' = [task EXCEPT ![w] = s]
    BY <1>0, <1>4, OtherMoves
  <2> HIDE DEF s
  <2>3. Covers(s, stored)
    BY <2>1 DEF Covers
  <2> QED
    BY <1>0, <1>4, <2>1, <2>2, <2>3, CoversUpdate DEF Raise
<1>5. ASSUME NEW w \in Worker, Stop(w) \/ RecordFailure(w) \/ Return(w)
      PROVE  NothingLost'
  <2>1. Covers(Idle, stored)
    BY IdleTask DEF Covers
  <2> QED
    BY <1>0, <1>5, <2>1, IdleTask, CoversUpdate DEF Stop, RecordFailure, Return
<1>6. ASSUME NEW w \in Worker, NEW t \in Transfer, SelectAsset(w, t)
      PROVE  NothingLost'
  <2> DEFINE T == task[w].todo \ {t}
  <2>1. PICK a \in AssetId \cup {None} :
          task' = [task EXCEPT ![w] = Selected(task[w], t, a, T)]
    BY <1>0, <1>6, SelectAssetMoves
  <2> DEFINE s == Selected(task[w], t, a, T)
  <2>2. task[w].pc = "streaming" /\ T \in SUBSET Transfer
    BY <1>0, <1>6 DEF SelectAsset, Task
  <2>3. task[w].todo \subseteq T \cup {t}
    OBVIOUS
  <2> HIDE DEF T
  <2>4. /\ s \in Task /\ s.pc = "storing" /\ s.cur = t /\ s.todo = T
        /\ s.due = task[w].due
    BY <1>0, <2>2, SelectedTask
  <2> HIDE DEF s
  <2>5. Covers(s, stored)
    BY <1>0, <2>2, <2>3, <2>4 DEF Covers
  <2>6. task' = [task EXCEPT ![w] = s]
    BY <2>1 DEF s
  <2> QED
    BY <1>0, <1>6, <2>4, <2>5, <2>6, CoversUpdate DEF SelectAsset
<1>7. ASSUME NEW w \in Worker, StoreTransfer(w) PROVE NothingLost'
  <2> DEFINE t == task[w].cur
             a == AssetFor(w)
             M == MonthsAfter(w, ~Conflict(t, a))
  <2>1. task[w].pc = "storing" /\ t \in Transfer
    BY <1>0, <1>7 DEF StoreTransfer, Fits, TypeOK
  <2>2. PICK c \in Nat :
          M \in SUBSET Month /\ task' = [task EXCEPT ![w] = Booking(task[w], M, c)]
    BY <1>0, <1>7, <2>1, StoreTransferMoves
  <2>3. a[1] = ContractOf[t]
    BY <1>0, <2>1 DEF AssetFor, Fits
  <2>4. stored' = IF Conflict(t, a) THEN stored ELSE stored \cup {<<t, a>>}
    BY <1>7 DEF StoreTransfer
  <2>5. BookedIn(t, stored') /\ stored \subseteq stored'
    BY <2>3, <2>4, BookedStored
  <2> DEFINE s == Booking(task[w], M, c)
  <2> HIDE DEF M, a, t
  <2>6. /\ s \in Task /\ s.pc = "streaming" /\ s.todo = task[w].todo
        /\ s.due = task[w].due
    BY <1>0, <2>2, BookingTask
  <2>7. task' = [task EXCEPT ![w] = s]
    BY <2>2
  <2> HIDE DEF s
  <2>8. Covers(s, stored')
    <3>1. Covers(task[w], stored')
      BY <1>0, <2>5, CoversGrows
    <3>2. \A u \in task[w].due :
            BookedIn(u, stored') \/ u \in task[w].todo \/ u = t
      BY <3>1, <2>1 DEF Covers, t
    <3> QED
      BY <3>2, <2>5, <2>6 DEF Covers
  <2> QED
    BY <1>0, <1>7, <2>5, <2>6, <2>7, <2>8, CoversUpdate DEF StoreTransfer
<1>8. ASSUME NEW w \in Worker, Complete(w) PROVE NothingLost'
  <2> DEFINE s == Completed(task[w])
  <2>1. s \in Task /\ s.pc = "rebuilding" /\ s.due = task[w].due
    BY <1>0, CompletedTask
  <2>2. task' = [task EXCEPT ![w] = s] /\ task[w].pc = "completing"
    BY <1>0, <1>8, OtherMoves DEF Complete
  <2> HIDE DEF s
  <2>3. Covers(s, stored)
    BY <1>0, <2>1, <2>2 DEF Covers
  <2> QED
    BY <1>0, <1>8, <2>1, <2>2, <2>3, CoversUpdate DEF Complete
<1>9. ASSUME NEW w \in Worker, NEW m \in Month, RebuildRead(w, m)
      PROVE  NothingLost'
  <2> DEFINE C == Counted(task[w].wallet, m)
             s == Read(task[w], m, C)
  <2>1. C \in SUBSET Entry
    BY <1>0 DEF Counted, TypeOK
  <2>2. task' = [task EXCEPT ![w] = s] /\ task[w].pc = "rebuilding"
    BY <1>0, <1>9, OtherMoves DEF RebuildRead
  <2> HIDE DEF C
  <2>3. s \in Task /\ s.pc = "writing" /\ s.due = task[w].due
    BY <1>0, <2>1, ReadTask
  <2> HIDE DEF s
  <2>4. Covers(s, stored)
    BY <1>0, <2>2, <2>3 DEF Covers
  <2> QED
    BY <1>0, <1>9, <2>2, <2>3, <2>4, CoversUpdate DEF RebuildRead
<1>10. ASSUME NEW w \in Worker, RebuildWrite(w) PROVE NothingLost'
  <2> DEFINE M == task[w].months \ {task[w].month}
             s == Written(task[w], M)
  <2>1. task' = [task EXCEPT ![w] = s] /\ task[w].pc = "writing"
    BY <1>0, <1>10, OtherMoves DEF RebuildWrite
  <2>2. M \in SUBSET Month
    BY <1>0 DEF Task
  <2> HIDE DEF M
  <2>3. s \in Task /\ s.pc = "rebuilding" /\ s.due = task[w].due
    BY <1>0, <2>2, WrittenTask
  <2> HIDE DEF s
  <2>4. Covers(s, stored)
    BY <1>0, <2>1, <2>3 DEF Covers
  <2> QED
    BY <1>0, <1>10, <2>1, <2>3, <2>4, CoversUpdate DEF RebuildWrite
<1>11. ASSUME NEW w \in Worker, NEW pc \in {"completing", "recording"},
              SelectStatus(w, pc),
              \/ /\ pc = "completing" /\ task[w].pc = "streaming"
                 /\ Exhausted(w)
              \/ pc = "recording" /\ task[w].pc = "failing"
       PROVE  NothingLost'
  <2> DEFINE x == status[task[w].row]
             s == Asking(task[w], pc, x)
  <2>1. x \in Status
    <3>1. task[w].row \in RowId
      BY <1>0, <1>11 DEF Fits, Task
    <3> QED
      BY <1>0, <3>1 DEF TypeOK
  <2>2. task' = [task EXCEPT ![w] = s]
    BY <1>0, <1>11, OtherMoves
  <2> HIDE DEF x
  <2>3. /\ s \in Task /\ s.pc = pc /\ s.wallet = task[w].wallet
        /\ s.due = task[w].due /\ s.months = task[w].months
    BY <1>0, <2>1, AskingTask
  <2> HIDE DEF s
  <2>4. Covers(s, stored)
    BY <1>0, <1>11, <2>3 DEF Covers, Exhausted
  <2> QED
    BY <1>0, <1>11, <2>2, <2>3, <2>4, CoversUpdate DEF SelectStatus
<1>12. CASE UNCHANGED vars
  BY <1>0, <1>12 DEF vars, NothingLost
<1> QED
  BY <1>1, <1>2, <1>3, <1>4, <1>5, <1>6, <1>7, <1>8, <1>9, <1>10, <1>11, <1>12
     DEF Next, Step, Fault, Refuse, AssetAmbiguous, AssetConflict,
         ProviderError, DatabaseError, Abort, Crash,
         SelectCompleted, SelectFailed

\* A sync that writes "completed" has stored everything that was on chain when
\* it opened its stream, for any number of overlapping syncs, failures and
\* crashes of sync_wallet, and any history before it.
THEOREM CompletedStores == Spec => []CompletedMeansStored
<1>1. NothingLost => CompletedMeansStored
  BY DEF NothingLost, Covers, CompletedMeansStored, Booked, BookedIn
<1> QED
  BY NothingLostInit, NothingLostStep, <1>1, PTL DEF Spec

-----------------------------------------------------------------------------
(***************************************************************************)
(* Aggregates only add up what is stored.  The argument: rows are never    *)
(* deleted, so what a grouped SELECT saw is still there when its upserts   *)
(* commit, whatever was stored in between.                                 *)
(***************************************************************************)
OfIn(k, S) == {e \in S : /\ WalletOf[e[1]] = k[1]
                         /\ MonthOf[e[1]] = k[2]
                         /\ ~IsError[e[1]]}

\* The rows a worker is about to write into its aggregate.
Sums(s, S) == s.pc = "writing" => s.snap \subseteq OfIn(<<s.wallet, s.month>>, S)

Explained ==
  /\ Coherent
  /\ AggregatesExplained
  /\ \A w \in Worker : Sums(task[w], stored)

LEMMA OfGrows ==
  ASSUME NEW S, NEW T, S \subseteq T
  PROVE  /\ \A k : OfIn(k, S) \subseteq OfIn(k, T)
         /\ \A s : Sums(s, S) => Sums(s, T)
<1>1. \A k : OfIn(k, S) \subseteq OfIn(k, T)
  BY DEF OfIn
<1> QED
  BY <1>1 DEF Sums

LEMMA ExplainedInit == Init => Explained
<1> SUFFICES ASSUME Init PROVE Explained
  OBVIOUS
<1>1. AggregatesExplained
  BY DEF Init, AggregatesExplained
<1>2. \A w \in Worker : Sums(task[w], stored)
  BY IdleTask DEF Init, Sums
<1> QED
  BY <1>1, <1>2, CoherentInit DEF Explained

\* A worker moves to a record that sums what is stored, no table changes but
\* transactions, which grows.
LEMMA ExplainedUpdate ==
  ASSUME Explained, NEW w \in Worker, NEW s \in Task,
         task' = [task EXCEPT ![w] = s], UNCHANGED agg,
         stored \subseteq stored', Sums(s, stored), Coherent'
  PROVE  Explained'
<1>1. /\ task'[w] = s
      /\ \A v \in Worker \ {w} : task'[v] = task[v]
  BY Moves DEF Explained, Coherent
<1>2. \A v \in Worker : Sums(task'[v], stored')
  BY <1>1, OfGrows DEF Explained
<1>3. AggregatesExplained'
  <2>1. \A k : OfIn(k, stored) \subseteq OfIn(k, stored')
    BY OfGrows
  <2> QED
    BY <2>1 DEF Explained, AggregatesExplained, OfIn, Ledger!Of
<1> QED
  BY <1>2, <1>3 DEF Explained

LEMMA ExplainedStep == Explained /\ [Next]_vars => Explained'
<1> SUFFICES ASSUME Explained, [Next]_vars PROVE Explained'
  OBVIOUS
<1> USE SyncAssumption
<1>0. /\ Coherent /\ Coherent' /\ TypeOK
      /\ \A w \in Worker : /\ task[w] \in Task
                           /\ Fits(task[w])
                           /\ Sums(task[w], stored)
  BY CoherentStep DEF Explained, Coherent, TypeOK
<1>1. ASSUME NEW t \in Transfer, Arrive(t) PROVE Explained'
  <2>1. /\ \A w \in Worker :
             \/ task'[w] = task[w]
             \/ /\ Streams(w, t)
                /\ task'[w] = Extended(task[w], task[w].todo \cup {t})
        /\ UNCHANGED <<stored, agg>>
    BY <1>0, <1>1, ArriveMoves DEF Arrive
  <2>2. ASSUME NEW w \in Worker, Streams(w, t) PROVE task'[w].pc # "writing"
    <3> DEFINE T == task[w].todo \cup {t}
               s == Extended(task[w], T)
    <3>1. T \in SUBSET Transfer
      BY <1>0 DEF Task
    <3> HIDE DEF T
    <3>2. s.pc = task[w].pc
      BY <1>0, <3>1, ExtendedTask
    <3>3. task'[w] = task[w] \/ task'[w] = s
      BY <2>1 DEF T
    <3> HIDE DEF s
    <3> QED
      BY <2>2, <3>2, <3>3 DEF Streams
  <2>3. \A w \in Worker : Sums(task'[w], stored)
    BY <1>0, <2>1, <2>2 DEF Sums
  <2> QED
    BY <1>0, <2>1, <2>3 DEF Explained, AggregatesExplained, Ledger!Of
<1>2. ASSUME NEW w \in Worker, NEW wal \in Wallet, NEW f \in ForceArgs,
             Load(w, wal, f)
      PROVE  Explained'
  <2>1. PICK r \in RowId \cup {None}, x \in Status, c \in Nat :
          task' = [task EXCEPT ![w] = Loaded(wal, r, x, c)]
    BY <1>0, <1>2, LoadMoves
  <2> DEFINE s == Loaded(wal, r, x, c)
  <2>2. s \in Task /\ s.pc = "loaded" /\ task' = [task EXCEPT ![w] = s]
    BY <2>1, LoadedTask
  <2> HIDE DEF s
  <2> QED
    BY <1>0, <1>2, <2>2, ExplainedUpdate DEF Load, Sums
<1>3. ASSUME NEW w \in Worker, MarkRunning(w) PROVE Explained'
  <2> DEFINE D == {t \in chain : WalletOf[t] = task[w].wallet}
             T == {t \in D : Fetchable(t, task[w].cursor)}
  <2>1. task[w].wallet # None
    BY <1>0, <1>3 DEF MarkRunning, Fits
  <2>2. PICK r \in RowId :
          task' = [task EXCEPT ![w] = Marked(task[w], r, D, T)]
    BY <1>0, <1>3, <2>1, MarkRunningMoves
  <2> DEFINE s == Marked(task[w], r, D, T)
  <2>3. D \in SUBSET Transfer /\ T \in SUBSET Transfer
    BY <1>0 DEF TypeOK
  <2>4. task' = [task EXCEPT ![w] = s]
    BY <2>2
  <2> HIDE DEF D, T
  <2>5. s \in Task /\ s.pc = "streaming"
    BY <1>0, <2>3, MarkedTask
  <2> HIDE DEF s
  <2> QED
    BY <1>0, <1>3, <2>4, <2>5, ExplainedUpdate DEF MarkRunning, Sums
<1>4. ASSUME NEW w \in Worker, Raise(w) PROVE Explained'
  <2> DEFINE s == Failing(task[w])
  <2>1. s \in Task /\ s.pc = "failing"
    BY <1>0, FailingTask
  <2>2. task' = [task EXCEPT ![w] = s]
    BY <1>0, <1>4, OtherMoves
  <2> HIDE DEF s
  <2> QED
    BY <1>0, <1>4, <2>1, <2>2, ExplainedUpdate DEF Raise, Sums
<1>5. ASSUME NEW w \in Worker, Stop(w) \/ RecordFailure(w) \/ Return(w)
      PROVE  Explained'
  <2>1. Sums(Idle, stored)
    BY IdleTask DEF Sums
  <2> QED
    BY <1>0, <1>5, <2>1, IdleTask, ExplainedUpdate
       DEF Stop, RecordFailure, Return
<1>6. ASSUME NEW w \in Worker, NEW t \in Transfer, SelectAsset(w, t)
      PROVE  Explained'
  <2> DEFINE T == task[w].todo \ {t}
  <2>1. PICK a \in AssetId \cup {None} :
          task' = [task EXCEPT ![w] = Selected(task[w], t, a, T)]
    BY <1>0, <1>6, SelectAssetMoves
  <2> DEFINE s == Selected(task[w], t, a, T)
  <2>2. T \in SUBSET Transfer
    BY <1>0 DEF Task
  <2>3. task' = [task EXCEPT ![w] = s]
    BY <2>1
  <2> HIDE DEF T
  <2>4. s \in Task /\ s.pc = "storing"
    BY <1>0, <2>2, SelectedTask
  <2> HIDE DEF s
  <2> QED
    BY <1>0, <1>6, <2>3, <2>4, ExplainedUpdate DEF SelectAsset, Sums
<1>7. ASSUME NEW w \in Worker, StoreTransfer(w) PROVE Explained'
  <2> DEFINE M == MonthsAfter(w, ~Conflict(task[w].cur, AssetFor(w)))
  <2>1. task[w].cur \in Transfer
    BY <1>0, <1>7 DEF StoreTransfer, Fits, TypeOK
  <2>2. PICK c \in Nat :
          M \in SUBSET Month /\ task' = [task EXCEPT ![w] = Booking(task[w], M, c)]
    BY <1>0, <1>7, <2>1, StoreTransferMoves
  <2> DEFINE s == Booking(task[w], M, c)
  <2>3. task' = [task EXCEPT ![w] = s]
    BY <2>2
  <2>4. stored \subseteq stored' /\ UNCHANGED agg
    BY <1>7 DEF StoreTransfer
  <2> HIDE DEF M
  <2>5. s \in Task /\ s.pc = "streaming"
    BY <1>0, <2>2, BookingTask
  <2> HIDE DEF s
  <2> QED
    BY <1>0, <2>3, <2>4, <2>5, ExplainedUpdate DEF Sums
<1>8. ASSUME NEW w \in Worker, Complete(w) PROVE Explained'
  <2> DEFINE s == Completed(task[w])
  <2>1. s \in Task /\ s.pc = "rebuilding"
    BY <1>0, CompletedTask
  <2>2. task' = [task EXCEPT ![w] = s]
    BY <1>0, <1>8, OtherMoves
  <2> HIDE DEF s
  <2> QED
    BY <1>0, <1>8, <2>1, <2>2, ExplainedUpdate DEF Complete, Sums
<1>9. ASSUME NEW w \in Worker, NEW m \in Month, RebuildRead(w, m)
      PROVE  Explained'
  <2> DEFINE C == Counted(task[w].wallet, m)
             s == Read(task[w], m, C)
  <2>1. C \in SUBSET Entry /\ C = OfIn(<<task[w].wallet, m>>, stored)
    BY <1>0 DEF Counted, OfIn, TypeOK
  <2>2. task' = [task EXCEPT ![w] = s]
    BY <1>0, <1>9, OtherMoves
  <2> HIDE DEF C
  <2>3. s \in Task /\ s.snap = C /\ s.month = m /\ s.wallet = task[w].wallet
    BY <1>0, <2>1, ReadTask
  <2> HIDE DEF s
  <2>4. Sums(s, stored)
    BY <2>1, <2>3 DEF Sums
  <2> QED
    BY <1>0, <1>9, <2>2, <2>3, <2>4, ExplainedUpdate DEF RebuildRead
<1>10. ASSUME NEW w \in Worker, RebuildWrite(w) PROVE Explained'
  <2> DEFINE M == task[w].months \ {task[w].month}
             s == Written(task[w], M)
             k == <<task[w].wallet, task[w].month>>
  <2>1. /\ task' = [task EXCEPT ![w] = s]
        /\ task[w].pc = "writing" /\ UNCHANGED stored
        /\ agg' = [agg EXCEPT ![k] = Overwrite(agg[k], task[w].snap)]
    BY <1>0, <1>10, OtherMoves DEF RebuildWrite
  <2>2. M \in SUBSET Month /\ k \in Wallet \X Month
    BY <1>0, <2>1 DEF Task, Fits
  <2>3. task[w].snap \subseteq OfIn(k, stored)
    BY <1>0, <2>1 DEF Sums
  <2> HIDE DEF M
  <2>4. s \in Task /\ s.pc = "rebuilding"
    BY <1>0, <2>2, WrittenTask
  <2> HIDE DEF s, k
  <2>5. AggregatesExplained'
    <3>1. \A j \in Wallet \X Month : agg[j] \subseteq OfIn(j, stored)
      BY DEF Explained, AggregatesExplained, OfIn, Ledger!Of
    <3>2. Overwrite(agg[k], task[w].snap) \subseteq OfIn(k, stored)
      BY <2>2, <2>3, <3>1 DEF Overwrite
    <3>3. \A j \in Wallet \X Month : agg'[j] \subseteq OfIn(j, stored)
      BY <1>0, <2>1, <2>2, <3>1, <3>2 DEF TypeOK
    <3> QED
      BY <2>1, <3>3 DEF AggregatesExplained, OfIn, Ledger!Of
  <2>6. /\ task'[w] = s
        /\ \A v \in Worker \ {w} : task'[v] = task[v]
    BY <1>0, <2>1, <2>4, Moves
  <2>7. \A v \in Worker : Sums(task'[v], stored')
    BY <1>0, <2>1, <2>4, <2>6 DEF Sums
  <2> QED
    BY <1>0, <2>5, <2>7 DEF Explained
<1>11. ASSUME NEW w \in Worker, NEW pc \in {"completing", "recording"},
              SelectStatus(w, pc),
              \/ /\ pc = "completing" /\ task[w].pc = "streaming"
                 /\ Exhausted(w)
              \/ pc = "recording" /\ task[w].pc = "failing"
       PROVE  Explained'
  <2> DEFINE x == status[task[w].row]
             s == Asking(task[w], pc, x)
  <2>1. x \in Status
    <3>1. task[w].row \in RowId
      BY <1>0, <1>11 DEF Fits, Task
    <3> QED
      BY <1>0, <3>1 DEF TypeOK
  <2>2. task' = [task EXCEPT ![w] = s]
    BY <1>0, <1>11, OtherMoves
  <2> HIDE DEF x
  <2>3. /\ s \in Task /\ s.pc = pc /\ s.wallet = task[w].wallet
        /\ s.due = task[w].due /\ s.months = task[w].months
    BY <1>0, <2>1, AskingTask
  <2> HIDE DEF s
  <2> QED
    BY <1>0, <1>11, <2>2, <2>3, ExplainedUpdate DEF SelectStatus, Sums
<1>12. CASE UNCHANGED vars
  BY <1>0, <1>12 DEF vars, Explained, AggregatesExplained, Ledger!Of
<1> QED
  BY <1>1, <1>2, <1>3, <1>4, <1>5, <1>6, <1>7, <1>8, <1>9, <1>10, <1>11, <1>12
     DEF Next, Step, Fault, Refuse, AssetAmbiguous, AssetConflict,
         ProviderError, DatabaseError, Abort, Crash,
         SelectCompleted, SelectFailed

\* However syncs of the same wallet overlap, fail or crash, an aggregate adds
\* up nothing but stored, successful transactions of its wallet and month.
THEOREM AggregatesSound == Spec => []AggregatesExplained
<1>1. Explained => AggregatesExplained
  BY DEF Explained
<1> QED
  BY ExplainedInit, ExplainedStep, <1>1, PTL DEF Spec
-----------------------------------------------------------------------------
(***************************************************************************)
(* While the syncs of one wallet do not overlap, an aggregate is stale     *)
(* only where somebody still owes it or a rebuild was lost, and readers    *)
(* see the atomic ledger.  The argument: only the worker of a wallet books *)
(* for it, so what its grouped SELECT saw is still all there is when its   *)
(* upserts commit.                                                         *)
(***************************************************************************)
\* The rows a worker is about to write are all the rows its aggregate is of.
Tracks(s, S) == s.pc = "writing" => OfIn(<<s.wallet, s.month>>, S) \subseteq s.snap

\* The aggregates a worker has still to rebuild.
Owes(s) == {s.wallet} \X s.months

Exclusive ==
  \A v, w \in Worker : task[v].wallet = task[w].wallet => task[v].wallet = None \/ v = w

Current ==
  \A k \in Wallet \X Month :
    \/ OfIn(k, stored) \subseteq agg[k]
    \/ \E w \in Worker : k \in Owes(task[w])
    \/ k \in dropped

Fresh ==
  /\ ~Overlap
  /\ Explained
  /\ Exclusive
  /\ \A w \in Worker : Tracks(task[w], stored)
  /\ Current

LEMMA FreshInit == ~Overlap /\ Init => Fresh
<1> SUFFICES ASSUME ~Overlap, Init PROVE Fresh
  OBVIOUS
<1>1. \A w \in Worker : task[w].wallet = None /\ task[w].pc = "idle"
  BY IdleTask, Zenon DEF Init
<1>2. \A k \in Wallet \X Month : OfIn(k, stored) = {}
  BY DEF Init, OfIn
<1> QED
  BY <1>1, <1>2, ExplainedInit DEF Fresh, Exclusive, Tracks, Current

\* A worker moves to a record of its own wallet, of none, or of a wallet
\* nobody syncs; what it owed it still owes, or it is recorded as lost.
LEMMA FreshUpdate ==
  ASSUME Fresh, Explained', NEW w \in Worker, NEW s \in Task,
         task' = [task EXCEPT ![w] = s], UNCHANGED <<stored, agg>>,
         \/ s.wallet \in {task[w].wallet, None}
         \/ \A v \in Worker : task[v].wallet # s.wallet,
         Tracks(s, stored),
         Owes(task[w]) \subseteq Owes(s) \cup dropped',
         dropped \subseteq dropped'
  PROVE  Fresh'
<1>1. /\ task'[w] = s
      /\ \A v \in Worker \ {w} : task'[v] = task[v]
  BY Moves DEF Fresh, Explained, Coherent
<1>2. Exclusive'
  BY <1>1 DEF Fresh, Exclusive
<1>3. \A v \in Worker : Tracks(task'[v], stored)
  BY <1>1 DEF Fresh
<1>4. Current'
  <2> SUFFICES ASSUME NEW k \in Wallet \X Month,
                      ~(OfIn(k, stored) \subseteq agg[k]),
                      k \notin dropped'
               PROVE  \E v \in Worker : k \in Owes(task'[v])
    BY DEF Current
  <2>1. PICK v \in Worker : k \in Owes(task[v])
    BY DEF Fresh, Current
  <2>2. k \in Owes(task'[v])
    BY <1>1, <2>1
  <2> QED
    BY <2>2
<1> QED
  BY <1>2, <1>3, <1>4 DEF Fresh

LEMMA FreshArrive ==
  ASSUME Fresh, Explained', NEW t \in Transfer, Arrive(t)
  PROVE  Fresh'
<1>1. TypeOK /\ UNCHANGED <<stored, agg, dropped>>
  BY DEF Fresh, Explained, Coherent, Arrive
<1>2. ASSUME NEW w \in Worker
      PROVE  /\ task'[w].pc = task[w].pc
             /\ task'[w].wallet = task[w].wallet
             /\ task'[w].month = task[w].month
             /\ task'[w].months = task[w].months
             /\ task'[w].snap = task[w].snap
  <2> DEFINE T == task[w].todo \cup {t}
             s == Extended(task[w], T)
  <2>1. task[w] \in Task
    BY <1>1 DEF TypeOK
  <2>2. T \in SUBSET Transfer
    BY <2>1 DEF Task
  <2>3. task'[w] = task[w] \/ task'[w] = s
    BY <1>1, ArriveMoves
  <2> HIDE DEF T
  <2>4. /\ s.pc = task[w].pc /\ s.wallet = task[w].wallet
        /\ s.month = task[w].month /\ s.months = task[w].months
        /\ s.snap = task[w].snap
    BY <2>1, <2>2, ExtendedTask
  <2> HIDE DEF s
  <2> QED
    BY <2>3, <2>4
<1>3. Exclusive'
  BY <1>2 DEF Fresh, Exclusive
<1>4. \A w \in Worker : Tracks(task'[w], stored)
  BY <1>2 DEF Fresh, Tracks
<1>5. Current'
  BY <1>1, <1>2 DEF Fresh, Current, Owes
<1> QED
  BY <1>1, <1>3, <1>4, <1>5 DEF Fresh

\* Booking adds a row of the worker's own wallet, in a month it then owes.
LEMMA FreshStore ==
  ASSUME Fresh, Explained', NEW w \in Worker, StoreTransfer(w)
  PROVE  Fresh'
<1> DEFINE t == task[w].cur
           a == AssetFor(w)
           M == MonthsAfter(w, ~Conflict(t, a))
<1>1. /\ TypeOK /\ Fits(task[w]) /\ task[w] \in Task
      /\ task[w].pc = "storing"
  BY DEF Fresh, Explained, Coherent, TypeOK, StoreTransfer
<1>2. t \in Transfer /\ WalletOf[t] = task[w].wallet /\ task[w].wallet \in Wallet
  BY <1>1, SyncAssumption DEF Fits, TypeOK
<1>3. PICK c \in Nat :
        M \in SUBSET Month /\ task' = [task EXCEPT ![w] = Booking(task[w], M, c)]
  BY <1>1, <1>2, StoreTransferMoves
<1>4. /\ task[w].months \subseteq M
      /\ \/ stored' = stored
         \/ stored' = stored \cup {<<t, a>>} /\ MonthOf[t] \in M
      /\ UNCHANGED <<agg, dropped>>
  <2>1. /\ stored' = IF ~Conflict(t, a) THEN stored \cup {<<t, a>>} ELSE stored
        /\ UNCHANGED <<agg, dropped>>
    BY DEF StoreTransfer
  <2> HIDE DEF a
  <2>2. CASE Conflict(t, a)
    BY <2>1, <2>2 DEF MonthsAfter
  <2>3. CASE ~Conflict(t, a)
    BY <2>1, <2>3 DEF MonthsAfter
  <2> QED
    BY <2>2, <2>3
<1> DEFINE s == Booking(task[w], M, c)
<1>5. task' = [task EXCEPT ![w] = s]
  BY <1>3
<1> HIDE DEF M, a, t
<1>6. s \in Task /\ s.pc = "streaming" /\ s.wallet = task[w].wallet /\ s.months = M
  BY <1>1, <1>3, BookingTask
<1> HIDE DEF s
<1>7. /\ task'[w] = s
      /\ \A v \in Worker \ {w} : task'[v] = task[v]
  BY <1>1, <1>5, <1>6, Moves
<1>8. ASSUME NEW k, k[1] # task[w].wallet \/ k[2] \notin M
      PROVE  OfIn(k, stored') = OfIn(k, stored)
  BY <1>2, <1>4, <1>8 DEF OfIn
<1>9. Exclusive'
  BY <1>6, <1>7 DEF Fresh, Exclusive
<1>10. ASSUME NEW v \in Worker PROVE Tracks(task'[v], stored')
  <2>1. CASE v = w
    BY <2>1, <1>6, <1>7 DEF Tracks
  <2>2. CASE v # w
    <3>1. task[v].wallet # task[w].wallet
      BY <1>2, <2>2, SyncAssumption DEF Fresh, Exclusive
    <3>2. OfIn(<<task[v].wallet, task[v].month>>, stored')
            = OfIn(<<task[v].wallet, task[v].month>>, stored)
      BY <1>8, <3>1
    <3> QED
      BY <1>7, <2>2, <3>2 DEF Fresh, Tracks
  <2> QED
    BY <2>1, <2>2
<1>11. Current'
  <2> SUFFICES ASSUME NEW k \in Wallet \X Month,
                      ~(OfIn(k, stored') \subseteq agg[k]),
                      k \notin dropped
               PROVE  \E v \in Worker : k \in Owes(task'[v])
    BY <1>4 DEF Current
  <2>1. CASE k[1] = task[w].wallet /\ k[2] \in M
    BY <2>1, <1>6, <1>7 DEF Owes
  <2>2. CASE k[1] # task[w].wallet \/ k[2] \notin M
    <3>1. OfIn(k, stored') = OfIn(k, stored)
      BY <1>8, <2>2
    <3>2. PICK v \in Worker : k \in Owes(task[v])
      BY <3>1 DEF Fresh, Current
    <3>3. k \in Owes(task'[v])
      BY <3>2, <1>4, <1>6, <1>7 DEF Owes
    <3> QED
      BY <3>3
  <2> QED
    BY <2>1, <2>2
<1> QED
  BY <1>9, <1>10, <1>11 DEF Fresh

\* What a rebuild commits is, at its commit, the whole figure of its month.
LEMMA WholeMonth ==
  ASSUME Fresh, NEW w \in Worker, RebuildWrite(w)
  PROVE  LET k == <<task[w].wallet, task[w].month>>
         IN /\ k \in Wallet \X Month
            /\ agg' = [agg EXCEPT ![k] = OfIn(k, stored)]
            /\ UNCHANGED <<chain, stored>>
            /\ dropped' = dropped \ {k}
<1> DEFINE k == <<task[w].wallet, task[w].month>>
<1>1. /\ TypeOK /\ Fits(task[w]) /\ task[w] \in Task
      /\ Sums(task[w], stored) /\ Tracks(task[w], stored)
  BY DEF Fresh, Explained, Coherent, TypeOK
<1>2. /\ task[w].pc = "writing"
      /\ agg' = [agg EXCEPT ![k] = Overwrite(agg[k], task[w].snap)]
      /\ UNCHANGED <<chain, stored>> /\ dropped' = dropped \ {k}
  BY DEF RebuildWrite
<1>3. k \in Wallet \X Month
  BY <1>1, <1>2 DEF Task, Fits
<1>4. task[w].snap = OfIn(k, stored)
  BY <1>1, <1>2 DEF Sums, Tracks
<1>5. agg[k] \subseteq OfIn(k, stored)
  BY <1>3 DEF Fresh, Explained, AggregatesExplained, OfIn, Ledger!Of
<1>6. Overwrite(agg[k], task[w].snap) = OfIn(k, stored)
  BY <1>4, <1>5 DEF Overwrite
<1> HIDE DEF k
<1> QED
  BY <1>2, <1>3, <1>6 DEF k

LEMMA FreshWrite ==
  ASSUME Fresh, Explained', NEW w \in Worker, RebuildWrite(w)
  PROVE  Fresh'
<1> DEFINE k == <<task[w].wallet, task[w].month>>
           M == task[w].months \ {task[w].month}
           s == Written(task[w], M)
<1>1. /\ k \in Wallet \X Month
      /\ agg' = [agg EXCEPT ![k] = OfIn(k, stored)]
      /\ UNCHANGED stored /\ dropped' = dropped \ {k}
  BY WholeMonth
<1>2. TypeOK /\ task[w] \in Task
  BY DEF Fresh, Explained, Coherent, TypeOK
<1>3. task' = [task EXCEPT ![w] = s]
  BY <1>2, OtherMoves
<1>4. M \in SUBSET Month /\ {task[w].wallet} \X task[w].months
                              \subseteq ({task[w].wallet} \X M) \cup {k}
  BY <1>2 DEF Task
<1> HIDE DEF M, k
<1>5. s \in Task /\ s.pc = "rebuilding" /\ s.months = M /\ s.wallet = task[w].wallet
  BY <1>2, <1>4, WrittenTask
<1> HIDE DEF s
<1>6. /\ task'[w] = s
      /\ \A v \in Worker \ {w} : task'[v] = task[v]
  BY <1>2, <1>3, <1>5, Moves
<1>7. Exclusive'
  BY <1>5, <1>6 DEF Fresh, Exclusive
<1>8. \A v \in Worker : Tracks(task'[v], stored')
  BY <1>1, <1>5, <1>6 DEF Fresh, Tracks
<1>9. agg'[k] = OfIn(k, stored) /\ \A j \in Wallet \X Month : j # k => agg'[j] = agg[j]
  BY <1>1, <1>2 DEF TypeOK
<1>10. Current'
  <2> SUFFICES ASSUME NEW j \in Wallet \X Month,
                      ~(OfIn(j, stored) \subseteq agg'[j]),
                      j \notin dropped'
               PROVE  \E v \in Worker : j \in Owes(task'[v])
    BY <1>1 DEF Current
  <2>1. j # k /\ agg'[j] = agg[j] /\ j \notin dropped
    BY <1>1, <1>9
  <2>2. PICK v \in Worker : j \in Owes(task[v])
    BY <2>1 DEF Fresh, Current
  <2>3. j \in Owes(task'[v])
    BY <2>1, <2>2, <1>4, <1>5, <1>6 DEF Owes
  <2> QED
    BY <2>3
<1> QED
  BY <1>7, <1>8, <1>10 DEF Fresh

LEMMA FreshStep == Fresh /\ [Next]_vars => Fresh'
<1> SUFFICES ASSUME Fresh, [Next]_vars PROVE Fresh'
  OBVIOUS
<1> USE SyncAssumption
<1>0. /\ ~Overlap /\ Explained' /\ TypeOK
      /\ \A w \in Worker : /\ task[w] \in Task
                           /\ Fits(task[w])
                           /\ Tracks(task[w], stored)
  BY ExplainedStep DEF Fresh, Explained, Coherent, TypeOK
<1>1. ASSUME NEW t \in Transfer, Arrive(t) PROVE Fresh'
  BY <1>0, <1>1, FreshArrive
<1>2. ASSUME NEW w \in Worker, NEW wal \in Wallet, NEW f \in ForceArgs,
             Load(w, wal, f)
      PROVE  Fresh'
  <2>1. PICK r \in RowId \cup {None}, x \in Status, c \in Nat :
          task' = [task EXCEPT ![w] = Loaded(wal, r, x, c)]
    BY <1>0, <1>2, LoadMoves
  <2> DEFINE s == Loaded(wal, r, x, c)
  <2>2. /\ s \in Task /\ s.pc = "loaded" /\ s.wallet = wal
        /\ task' = [task EXCEPT ![w] = s]
    BY <2>1, LoadedTask
  <2>3. /\ \A v \in Worker : task[v].wallet # wal
        /\ task[w].pc = "idle"
        /\ UNCHANGED <<stored, agg, dropped>>
    BY <1>0, <1>2 DEF Load, MaySync
  <2>4. Owes(task[w]) = {}
    BY <1>0, <2>3 DEF Fits, Owes
  <2> HIDE DEF s
  <2>5. Tracks(s, stored)
    BY <2>2 DEF Tracks
  <2> QED
    BY <1>0, <2>2, <2>3, <2>4, <2>5, FreshUpdate
<1>3. ASSUME NEW w \in Worker, MarkRunning(w) PROVE Fresh'
  <2> DEFINE D == {t \in chain : WalletOf[t] = task[w].wallet}
             T == {t \in D : Fetchable(t, task[w].cursor)}
  <2>1. task[w].wallet # None
    BY <1>0, <1>3 DEF MarkRunning, Fits
  <2>2. PICK r \in RowId :
          task' = [task EXCEPT ![w] = Marked(task[w], r, D, T)]
    BY <1>0, <1>3, <2>1, MarkRunningMoves
  <2> DEFINE s == Marked(task[w], r, D, T)
  <2>3. D \in SUBSET Transfer /\ T \in SUBSET Transfer
    BY <1>0 DEF TypeOK
  <2>4. task' = [task EXCEPT ![w] = s]
    BY <2>2
  <2> HIDE DEF D, T
  <2>5. /\ s \in Task /\ s.pc = "streaming" /\ s.wallet = task[w].wallet
        /\ s.months = task[w].months
    BY <1>0, <2>3, MarkedTask
  <2> HIDE DEF s
  <2>6. Tracks(s, stored) /\ Owes(task[w]) = Owes(s)
    BY <2>5 DEF Tracks, Owes
  <2> QED
    BY <1>0, <1>3, <2>4, <2>5, <2>6, FreshUpdate DEF MarkRunning
<1>4. ASSUME NEW w \in Worker, Raise(w) PROVE Fresh'
  <2> DEFINE s == Failing(task[w])
  <2>1. s \in Task /\ s.pc = "failing" /\ s.wallet = task[w].wallet
    BY <1>0, FailingTask
  <2>2. task' = [task EXCEPT ![w] = s]
    BY <1>0, <1>4, OtherMoves
  <2> HIDE DEF s
  <2>3. Tracks(s, stored) /\ Owes(task[w]) \subseteq dropped'
    BY <1>4, <2>1 DEF Tracks, Owes, Raise, Lost
  <2> QED
    BY <1>0, <1>4, <2>1, <2>2, <2>3, FreshUpdate DEF Raise
<1>5. ASSUME NEW w \in Worker, Stop(w) \/ RecordFailure(w) \/ Return(w)
      PROVE  Fresh'
  <2>1. Tracks(Idle, stored) /\ Idle.wallet = None /\ Idle \in Task
    BY IdleTask DEF Tracks
  <2>2. Owes(task[w]) \subseteq dropped'
    <3>1. CASE Stop(w)
      BY <3>1 DEF Stop, Lost, Owes
    <3>2. CASE RecordFailure(w) \/ Return(w)
      <4>1. task[w].months = {}
        BY <1>0, <3>2 DEF Fits, RecordFailure, Return
      <4> QED
        BY <4>1 DEF Owes
    <3> QED
      BY <1>5, <3>1, <3>2
  <2>3. /\ task' = [task EXCEPT ![w] = Idle]
        /\ UNCHANGED <<stored, agg>> /\ dropped \subseteq dropped'
    BY <1>5 DEF Stop, RecordFailure, Return
  <2> QED
    BY <1>0, <2>1, <2>2, <2>3, FreshUpdate
<1>6. ASSUME NEW w \in Worker, NEW t \in Transfer, SelectAsset(w, t)
      PROVE  Fresh'
  <2> DEFINE T == task[w].todo \ {t}
  <2>1. PICK a \in AssetId \cup {None} :
          task' = [task EXCEPT ![w] = Selected(task[w], t, a, T)]
    BY <1>0, <1>6, SelectAssetMoves
  <2> DEFINE s == Selected(task[w], t, a, T)
  <2>2. T \in SUBSET Transfer
    BY <1>0 DEF Task
  <2>3. task' = [task EXCEPT ![w] = s]
    BY <2>1
  <2> HIDE DEF T
  <2>4. /\ s \in Task /\ s.pc = "storing" /\ s.wallet = task[w].wallet
        /\ s.months = task[w].months
    BY <1>0, <2>2, SelectedTask
  <2> HIDE DEF s
  <2>5. Tracks(s, stored) /\ Owes(task[w]) = Owes(s)
    BY <2>4 DEF Tracks, Owes
  <2> QED
    BY <1>0, <1>6, <2>3, <2>4, <2>5, FreshUpdate DEF SelectAsset
<1>7. ASSUME NEW w \in Worker, StoreTransfer(w) PROVE Fresh'
  BY <1>0, <1>7, FreshStore
<1>8. ASSUME NEW w \in Worker, Complete(w) PROVE Fresh'
  <2> DEFINE s == Completed(task[w])
  <2>1. /\ s \in Task /\ s.pc = "rebuilding" /\ s.wallet = task[w].wallet
        /\ s.months = task[w].months
    BY <1>0, CompletedTask
  <2>2. task' = [task EXCEPT ![w] = s]
    BY <1>0, <1>8, OtherMoves
  <2> HIDE DEF s
  <2>3. Tracks(s, stored) /\ Owes(task[w]) = Owes(s)
    BY <2>1 DEF Tracks, Owes
  <2> QED
    BY <1>0, <1>8, <2>1, <2>2, <2>3, FreshUpdate DEF Complete
<1>9. ASSUME NEW w \in Worker, NEW m \in Month, RebuildRead(w, m)
      PROVE  Fresh'
  <2> DEFINE C == Counted(task[w].wallet, m)
             s == Read(task[w], m, C)
  <2>1. C \in SUBSET Entry /\ C = OfIn(<<task[w].wallet, m>>, stored)
    BY <1>0 DEF Counted, OfIn, TypeOK
  <2>2. task' = [task EXCEPT ![w] = s]
    BY <1>0, <1>9, OtherMoves
  <2> HIDE DEF C
  <2>3. /\ s \in Task /\ s.snap = C /\ s.month = m /\ s.wallet = task[w].wallet
        /\ s.months = task[w].months
    BY <1>0, <2>1, ReadTask
  <2> HIDE DEF s
  <2>4. Tracks(s, stored) /\ Owes(task[w]) = Owes(s)
    BY <2>1, <2>3 DEF Tracks, Owes
  <2> QED
    BY <1>0, <1>9, <2>2, <2>3, <2>4, FreshUpdate DEF RebuildRead
<1>10. ASSUME NEW w \in Worker, RebuildWrite(w) PROVE Fresh'
  BY <1>0, <1>10, FreshWrite
<1>11. ASSUME NEW w \in Worker, NEW pc \in {"completing", "recording"},
              SelectStatus(w, pc),
              \/ /\ pc = "completing" /\ task[w].pc = "streaming"
                 /\ Exhausted(w)
              \/ pc = "recording" /\ task[w].pc = "failing"
       PROVE  Fresh'
  <2> DEFINE x == status[task[w].row]
             s == Asking(task[w], pc, x)
  <2>1. x \in Status
    <3>1. task[w].row \in RowId
      BY <1>0, <1>11 DEF Fits, Task
    <3> QED
      BY <1>0, <3>1 DEF TypeOK
  <2>2. task' = [task EXCEPT ![w] = s]
    BY <1>0, <1>11, OtherMoves
  <2> HIDE DEF x
  <2>3. /\ s \in Task /\ s.pc = pc /\ s.wallet = task[w].wallet
        /\ s.due = task[w].due /\ s.months = task[w].months
    BY <1>0, <2>1, AskingTask
  <2> HIDE DEF s
  <2>4. Tracks(s, stored) /\ Owes(task[w]) = Owes(s)
    BY <2>3 DEF Tracks, Owes
  <2> QED
    BY <1>0, <1>11, <2>2, <2>3, <2>4, FreshUpdate DEF SelectStatus
<1>12. CASE UNCHANGED vars
  BY <1>0, <1>12 DEF vars, Fresh, Exclusive, Current
<1> QED
  BY <1>1, <1>2, <1>3, <1>4, <1>5, <1>6, <1>7, <1>8, <1>9, <1>10, <1>11, <1>12
     DEF Next, Step, Fault, Refuse, AssetAmbiguous, AssetConflict,
         ProviderError, DatabaseError, Abort, Crash,
         SelectCompleted, SelectFailed

\* While the syncs of one wallet do not overlap, a monthly aggregate lacks a
\* stored transaction only as long as the worker syncing the wallet owes the
\* rebuild, or after an exception or a crash lost it (sync_worker.py:193-206).
THEOREM StaleSound == ASSUME ~Overlap PROVE Spec => []StaleOnlyIfDropped
<1>1. Init => Fresh
  BY FreshInit
<1>2. Fresh => StaleOnlyIfDropped
  <2> SUFFICES ASSUME Fresh, NEW k \in Wallet \X Month,
                      ~(Ledger!Of(k) \subseteq agg[k]), k \notin dropped
               PROVE  \E w \in Worker :
                        task[w].wallet = k[1] /\ k[2] \in task[w].months
    BY DEF StaleOnlyIfDropped
  <2>1. PICK w \in Worker : k \in Owes(task[w])
    BY DEF Fresh, Current, OfIn, Ledger!Of
  <2>2. task[w].wallet = k[1] /\ k[2] \in task[w].months
    BY <2>1 DEF Owes
  <2> QED
    BY <2>2
<1> QED
  BY <1>1, <1>2, FreshStep, PTL DEF Spec

\* Each step appends to the chain, books one reported transfer that was not
\* booked, recomputes one month from the whole ledger, or is invisible.
LEMMA LedgerStep == Fresh /\ [Next]_vars => [Ledger!LedgerNext]_(Ledger!lvars)
<1> SUFFICES ASSUME Fresh, [Next]_vars PROVE [Ledger!LedgerNext]_(Ledger!lvars)
  OBVIOUS
<1> USE DEF Ledger!LedgerNext, Ledger!lvars
<1>0. TypeOK /\ \A w \in Worker : Fits(task[w])
  BY DEF Fresh, Explained, Coherent
<1>1. ASSUME NEW t \in Transfer, Arrive(t) PROVE Ledger!LedgerNext
  BY <1>1 DEF Arrive, Ledger!Appear
<1>2. ASSUME NEW w \in Worker, StoreTransfer(w)
      PROVE  [Ledger!LedgerNext]_(Ledger!lvars)
  <2> DEFINE t == task[w].cur
             a == AssetFor(w)
  <2>1. /\ task[w].pc = "storing"
        /\ stored' = IF ~Conflict(t, a) THEN stored \cup {<<t, a>>} ELSE stored
        /\ UNCHANGED <<chain, agg>>
    BY <1>2 DEF StoreTransfer
  <2>2. t \in chain
    BY <1>0, <2>1 DEF Fits
  <2>3. a \in AssetId
    <3>1. task[w].asset \in AssetId \cup {None} /\ ContractOf[t] \in Contract
      BY <1>0, <2>2, SyncAssumption DEF TypeOK, Task
    <3> QED
      BY <3>1 DEF AssetFor, AssetId
  <2> HIDE DEF t, a
  <2>4. CASE Conflict(t, a)
    BY <2>1, <2>4
  <2>5. CASE ~Conflict(t, a)
    <3>1. \A e \in stored : ~Ledger!SameTransaction(e, t, a)
      BY <2>5 DEF Conflict, Ledger!SameTransaction
    <3>2. Ledger!Book
      BY <2>1, <2>2, <2>3, <2>5, <3>1 DEF Ledger!Book
    <3> QED
      BY <3>2
  <2> QED
    BY <2>4, <2>5
<1>3. ASSUME NEW w \in Worker, RebuildWrite(w) PROVE Ledger!LedgerNext
  <2> DEFINE k == <<task[w].wallet, task[w].month>>
  <2>1. /\ k \in Wallet \X Month
        /\ agg' = [agg EXCEPT ![k] = OfIn(k, stored)]
        /\ UNCHANGED <<chain, stored>>
    BY <1>3, WholeMonth
  <2> HIDE DEF k
  <2>2. Ledger!Recompute
    BY <2>1 DEF Ledger!Recompute, Ledger!Of, OfIn
  <2> QED
    BY <2>2
<1>4. ASSUME NEW w \in Worker, NEW wal \in Wallet, NEW f \in ForceArgs,
             Load(w, wal, f)
      PROVE  UNCHANGED <<chain, stored, agg>>
  BY <1>4 DEF Load
<1>5. ASSUME NEW w \in Worker,
             \/ MarkRunning(w) \/ Raise(w) \/ Stop(w) \/ RecordFailure(w)
             \/ Complete(w) \/ Return(w)
      PROVE  UNCHANGED <<chain, stored, agg>>
  BY <1>5 DEF MarkRunning, Raise, Stop, RecordFailure, Complete, Return
<1>6. ASSUME NEW w \in Worker, NEW t \in Transfer, SelectAsset(w, t)
      PROVE  UNCHANGED <<chain, stored, agg>>
  BY <1>6 DEF SelectAsset
<1>7. ASSUME NEW w \in Worker, NEW m \in Month, RebuildRead(w, m)
      PROVE  UNCHANGED <<chain, stored, agg>>
  BY <1>7 DEF RebuildRead
<1>8. ASSUME NEW w \in Worker, NEW pc, SelectStatus(w, pc)
      PROVE  UNCHANGED <<chain, stored, agg>>
  BY <1>8 DEF SelectStatus
<1>9. CASE UNCHANGED vars
  BY <1>9 DEF vars
<1> HIDE DEF Ledger!LedgerNext
<1> QED
  BY <1>1, <1>2, <1>3, <1>4, <1>5, <1>6, <1>7, <1>8, <1>9
     DEF Next, Step, Fault, Refuse, AssetAmbiguous, AssetConflict,
         ProviderError, DatabaseError, Abort, Crash,
         SelectCompleted, SelectFailed

\* While the syncs of one wallet do not overlap, however they fail or crash,
\* sync_wallet and rebuild_monthly_aggregates implement the atomic ledger.
THEOREM LedgerImplemented == ASSUME ~Overlap PROVE Spec => ImplementsLedger
<1>1. Init => Fresh /\ Ledger!LedgerInit
  BY FreshInit DEF Init, Ledger!LedgerInit
<1> QED
  BY <1>1, FreshStep, LedgerStep, PTL DEF Spec, ImplementsLedger, Ledger!LedgerSpec
-----------------------------------------------------------------------------
(***************************************************************************)
(* A row is left running only by a call that was lost.                     *)
(***************************************************************************)
Attends(s) ==
  \/ s.pc \in {"streaming", "storing", "failing"}
  \/ s.pc \in {"completing", "recording"} /\ s.read = "running"

Attended ==
  \A r \in RowId : status[r] = "running" =>
    \/ r \in abandoned
    \/ \E w \in Worker : task[w].row = r /\ Attends(task[w])

LEMMA AttendedIs == Attended <=> RunningIsAttended
  BY DEF Attended, Attends, RunningIsAttended, TakesBack

\* A step of one call marks no row, and hands on the row it attends, takes
\* "running" back from it, or gives it up.
LEMMA AttendedUpdate ==
  ASSUME Coherent, Attended, NEW w \in Worker, NEW s \in Task,
         task' = [task EXCEPT ![w] = s],
         abandoned \subseteq abandoned',
         \A r \in RowId : status'[r] = "running" => status[r] = "running",
         Attends(task[w]) => \/ task[w].row \in abandoned'
                             \/ s.row = task[w].row /\ Attends(s)
                             \/ status'[task[w].row] # "running"
  PROVE  Attended'
<1>1. /\ task'[w] = s
      /\ \A v \in Worker \ {w} : task'[v] = task[v]
  BY Moves DEF Coherent
<1>2. ASSUME NEW r \in RowId, status'[r] = "running"
      PROVE  \/ r \in abandoned'
             \/ \E v \in Worker : task'[v].row = r /\ Attends(task'[v])
  <2>1. CASE r \in abandoned
    BY <2>1
  <2>2. CASE r \notin abandoned
    <3>1. PICK v \in Worker : task[v].row = r /\ Attends(task[v])
      BY <1>2, <2>2 DEF Attended
    <3>2. CASE v = w
      <4>1. r \in abandoned' \/ (s.row = r /\ Attends(s))
        BY <1>2, <3>1, <3>2
      <4> QED
        BY <4>1, <1>1
    <3>3. CASE v # w
      BY <1>1, <3>1, <3>3
    <3> QED
      BY <3>2, <3>3
  <2> QED
    BY <2>1, <2>2
<1> QED
  BY <1>2 DEF Attended

LEMMA AttendedStep == Coherent /\ Attended /\ [Next]_vars => Attended'
<1> SUFFICES ASSUME Coherent, Attended, [Next]_vars PROVE Attended'
  OBVIOUS
<1> USE SyncAssumption
<1>0. TypeOK /\ \A w \in Worker : task[w] \in Task /\ Fits(task[w])
  BY DEF Coherent, TypeOK
<1>1. ASSUME NEW t \in Transfer, Arrive(t) PROVE Attended'
  <2>1. \A w \in Worker :
          \/ task'[w] = task[w]
          \/ task'[w] = Extended(task[w], task[w].todo \cup {t})
    BY <1>0, <1>1, ArriveMoves
  <2>2. ASSUME NEW w \in Worker
        PROVE  /\ task'[w].row = task[w].row
               /\ Attends(task'[w]) <=> Attends(task[w])
    <3> DEFINE T == task[w].todo \cup {t}
               s == Extended(task[w], T)
    <3>1. T \in SUBSET Transfer
      BY <1>0 DEF Task
    <3>2. task'[w] = task[w] \/ task'[w] = s
      BY <2>1
    <3> HIDE DEF T
    <3>3. s.pc = task[w].pc /\ s.row = task[w].row /\ s.read = task[w].read
      BY <1>0, <3>1, ExtendedTask
    <3> HIDE DEF s
    <3> QED
      BY <3>2, <3>3 DEF Attends
  <2> QED
    BY <1>1, <2>2 DEF Attended, Arrive
<1>2. ASSUME NEW w \in Worker, NEW wal \in Wallet, NEW f \in ForceArgs,
             Load(w, wal, f)
      PROVE  Attended'
  <2>1. PICK r \in RowId \cup {None}, x \in Status, c \in Nat :
          task' = [task EXCEPT ![w] = Loaded(wal, r, x, c)]
    BY <1>0, <1>2, LoadMoves
  <2> DEFINE s == Loaded(wal, r, x, c)
  <2>2. s \in Task /\ task' = [task EXCEPT ![w] = s]
    BY <2>1, LoadedTask
  <2> HIDE DEF s
  <2>3. ~Attends(task[w]) /\ UNCHANGED <<status, abandoned>>
    BY <1>2 DEF Load, MaySync, Attends
  <2> QED
    BY <2>2, <2>3, AttendedUpdate
<1>3. ASSUME NEW w \in Worker, MarkRunning(w) PROVE Attended'
  <2> DEFINE D == {t \in chain : WalletOf[t] = task[w].wallet}
             T == {t \in D : Fetchable(t, task[w].cursor)}
  <2>1. task[w].pc = "loaded" /\ task[w].wallet # None
    BY <1>0, <1>3 DEF MarkRunning, Fits
  <2>2. PICK r \in RowId :
          /\ r = IF task[w].row = None THEN <<task[w].wallet, w>>
                                       ELSE task[w].row
          /\ task' = [task EXCEPT ![w] = Marked(task[w], r, D, T)]
    BY <1>0, <1>3, <2>1, MarkRunningMoves
  <2> DEFINE s == Marked(task[w], r, D, T)
  <2>3. D \in SUBSET Transfer /\ T \in SUBSET Transfer
    BY <1>0 DEF TypeOK
  <2>4. task' = [task EXCEPT ![w] = s]
    BY <2>2
  <2> HIDE DEF D, T
  <2>5. s \in Task /\ s.pc = "streaming" /\ s.row = r
    BY <1>0, <2>3, MarkedTask
  <2> HIDE DEF s
  <2>6. /\ task'[w] = s
        /\ \A v \in Worker \ {w} : task'[v] = task[v]
    BY <1>0, <2>4, <2>5, Moves
  <2>7. /\ status' = StatusAfter(r, task[w].read, "running")
        /\ abandoned' = abandoned \ {r}
    BY <1>3, <2>2 DEF MarkRunning
  <2>8. \A q \in RowId \ {r} : status'[q] = status[q]
    BY <1>0, <2>7, StatusFact DEF Status
  <2>9. ~Attends(task[w]) /\ Attends(s)
    BY <2>1, <2>5 DEF Attends
  <2>10. ASSUME NEW q \in RowId, status'[q] = "running"
         PROVE  \/ q \in abandoned'
                \/ \E v \in Worker : task'[v].row = q /\ Attends(task'[v])
    <3>1. CASE q = r
      BY <3>1, <2>5, <2>6, <2>9
    <3>2. CASE q # r /\ q \in abandoned
      BY <3>2, <2>7
    <3>3. CASE q # r /\ q \notin abandoned
      <4>1. PICK v \in Worker : task[v].row = q /\ Attends(task[v])
        BY <2>8, <2>10, <3>3 DEF Attended
      <4> QED
        BY <4>1, <2>6, <2>9
    <3> QED
      BY <3>1, <3>2, <3>3
  <2> QED
    BY <2>10 DEF Attended
<1>4. ASSUME NEW w \in Worker, Raise(w), task[w].pc # "idle" PROVE Attended'
  <2> DEFINE s == Failing(task[w])
  <2>1. s \in Task /\ s.pc = "failing" /\ s.row = task[w].row
    BY <1>0, FailingTask
  <2>2. task' = [task EXCEPT ![w] = s] /\ UNCHANGED <<status, abandoned>>
    BY <1>0, <1>4, OtherMoves DEF Raise
  <2> HIDE DEF s
  <2>3. Attends(s)
    BY <2>1 DEF Attends
  <2> QED
    BY <2>1, <2>2, <2>3, AttendedUpdate
<1>5. ASSUME NEW w \in Worker, Stop(w) PROVE Attended'
  <2>1. Idle \in Task /\ task' = [task EXCEPT ![w] = Idle]
    BY <1>5, IdleTask DEF Stop
  <2>2. /\ status' = status /\ abandoned \subseteq abandoned'
        /\ Attends(task[w]) => task[w].row \in abandoned'
    BY <1>5 DEF Stop, TakesBack, Attends
  <2> QED
    BY <2>1, <2>2, AttendedUpdate
<1>6. ASSUME NEW w \in Worker, RecordFailure(w) \/ Complete(w) PROVE Attended'
  <2> DEFINE s == IF task[w].pc = "completing" THEN Completed(task[w]) ELSE Idle
             new == IF task[w].pc = "completing" THEN "completed" ELSE "failed"
  <2>1. /\ task[w].pc \in {"completing", "recording"}
        /\ status' = StatusAfter(task[w].row, task[w].read, new)
        /\ UNCHANGED abandoned
    BY <1>6 DEF RecordFailure, Complete
  <2>2. task' = [task EXCEPT ![w] = s] /\ s \in Task
    <3>1. CASE Complete(w)
      BY <3>1, <1>0, OtherMoves, CompletedTask DEF Complete
    <3>2. CASE RecordFailure(w)
      BY <3>2, IdleTask DEF RecordFailure
    <3> QED
      BY <1>6, <3>1, <3>2
  <2>3. task[w].row \in RowId
    BY <1>0, <2>1 DEF Fits, Task
  <2>4. new \in Status /\ new # "running"
    BY DEF Status
  <2> HIDE DEF s, new
  <2>5. /\ \A q \in RowId \ {task[w].row} : status'[q] = status[q]
        /\ status'[task[w].row]
             = IF task[w].read = new THEN status[task[w].row] ELSE new
    BY <1>0, <2>1, <2>3, <2>4, StatusFact
  <2>6. Attends(task[w]) => status'[task[w].row] # "running"
    BY <2>1, <2>4, <2>5 DEF Attends
  <2>7. \A r \in RowId : status'[r] = "running" => status[r] = "running"
    BY <2>3, <2>4, <2>5
  <2> QED
    BY <2>1, <2>2, <2>6, <2>7, AttendedUpdate
<1>7. ASSUME NEW w \in Worker, NEW t \in Transfer, SelectAsset(w, t)
      PROVE  Attended'
  <2> DEFINE T == task[w].todo \ {t}
  <2>1. PICK a \in AssetId \cup {None} :
          task' = [task EXCEPT ![w] = Selected(task[w], t, a, T)]
    BY <1>0, <1>7, SelectAssetMoves
  <2> DEFINE s == Selected(task[w], t, a, T)
  <2>2. T \in SUBSET Transfer
    BY <1>0 DEF Task
  <2>3. task' = [task EXCEPT ![w] = s] /\ UNCHANGED <<status, abandoned>>
    BY <1>7, <2>1 DEF SelectAsset
  <2> HIDE DEF T
  <2>4. s \in Task /\ s.pc = "storing" /\ s.row = task[w].row
    BY <1>0, <2>2, SelectedTask
  <2> HIDE DEF s
  <2>5. Attends(s)
    BY <2>4 DEF Attends
  <2> QED
    BY <2>3, <2>4, <2>5, AttendedUpdate
<1>8. ASSUME NEW w \in Worker, StoreTransfer(w) PROVE Attended'
  <2> DEFINE M == MonthsAfter(w, ~Conflict(task[w].cur, AssetFor(w)))
  <2>1. task[w].pc = "storing" /\ UNCHANGED <<status, abandoned>>
    BY <1>8 DEF StoreTransfer
  <2>2. task[w].cur \in Transfer
    BY <1>0, <2>1 DEF Fits, TypeOK
  <2>3. M \in SUBSET Month
        /\ \E c \in Nat : task' = [task EXCEPT ![w] = Booking(task[w], M, c)]
    BY <1>0, <1>8, <2>2, StoreTransferMoves
  <2> HIDE DEF M
  <2>4. PICK c \in Nat : task' = [task EXCEPT ![w] = Booking(task[w], M, c)]
    BY <2>3
  <2> DEFINE s == Booking(task[w], M, c)
  <2>5. s \in Task /\ s.pc = "streaming" /\ s.row = task[w].row
    BY <1>0, <2>3, BookingTask
  <2>6. task' = [task EXCEPT ![w] = s]
    BY <2>4
  <2> HIDE DEF s
  <2>7. Attends(s)
    BY <2>5 DEF Attends
  <2> QED
    BY <2>1, <2>5, <2>6, <2>7, AttendedUpdate
<1>9. ASSUME NEW w \in Worker, NEW m \in Month, RebuildRead(w, m)
      PROVE  Attended'
  <2> DEFINE C == Counted(task[w].wallet, m)
             s == Read(task[w], m, C)
  <2>1. C \in SUBSET Entry
    BY <1>0 DEF Counted, TypeOK
  <2>2. task' = [task EXCEPT ![w] = s]
    BY <1>0, <1>9, OtherMoves
  <2> HIDE DEF C
  <2>3. s \in Task
    BY <1>0, <2>1, ReadTask
  <2> HIDE DEF s
  <2>4. ~Attends(task[w]) /\ UNCHANGED <<status, abandoned>>
    BY <1>9 DEF RebuildRead, Attends
  <2> QED
    BY <2>2, <2>3, <2>4, AttendedUpdate
<1>10. ASSUME NEW w \in Worker, RebuildWrite(w) PROVE Attended'
  <2> DEFINE M == task[w].months \ {task[w].month}
             s == Written(task[w], M)
  <2>1. M \in SUBSET Month
    BY <1>0 DEF Task
  <2>2. task' = [task EXCEPT ![w] = s]
    BY <1>0, <1>10, OtherMoves
  <2> HIDE DEF M
  <2>3. s \in Task
    BY <1>0, <2>1, WrittenTask
  <2> HIDE DEF s
  <2>4. ~Attends(task[w]) /\ UNCHANGED <<status, abandoned>>
    BY <1>10 DEF RebuildWrite, Attends
  <2> QED
    BY <2>2, <2>3, <2>4, AttendedUpdate
<1>11. ASSUME NEW w \in Worker, Return(w) PROVE Attended'
  <2>1. Idle \in Task /\ task' = [task EXCEPT ![w] = Idle]
    BY <1>11, IdleTask DEF Return
  <2>2. ~Attends(task[w]) /\ UNCHANGED <<status, abandoned>>
    BY <1>11 DEF Return, Attends
  <2> QED
    BY <2>1, <2>2, AttendedUpdate
<1>12. ASSUME NEW w \in Worker, NEW pc \in {"completing", "recording"},
              SelectStatus(w, pc), task[w].pc \in {"streaming", "failing"}
       PROVE  Attended'
  <2> DEFINE x == status[task[w].row]
             s == Asking(task[w], pc, x)
  <2>1. task[w].row \in RowId
    BY <1>0, <1>12 DEF Fits, Task
  <2>2. x \in Status
    BY <1>0, <2>1 DEF TypeOK
  <2>3. task' = [task EXCEPT ![w] = s] /\ UNCHANGED <<status, abandoned>>
    BY <1>0, <1>12, OtherMoves DEF SelectStatus
  <2>4. x # "running" => status'[task[w].row] # "running"
    BY <2>3
  <2> HIDE DEF x
  <2>5. s \in Task /\ s.pc = pc /\ s.read = x /\ s.row = task[w].row
    BY <1>0, <2>2, AskingTask
  <2> HIDE DEF s
  <2>6. x = "running" => Attends(s)
    BY <2>5 DEF Attends
  <2> QED
    BY <2>3, <2>4, <2>5, <2>6, AttendedUpdate
<1>13. CASE UNCHANGED vars
  BY <1>13 DEF vars, Attended
<1> QED
  BY <1>1, <1>2, <1>3, <1>4, <1>5, <1>6, <1>7, <1>8, <1>9, <1>10, <1>11,
     <1>12, <1>13
     DEF Next, Step, Fault, Refuse, AssetAmbiguous, AssetConflict,
         ProviderError, DatabaseError, Abort, Crash,
         SelectCompleted, SelectFailed

\* A row stays running only while a call is there to take that back, or after
\* one was lost with the process or in its own handler: not by the order in
\* which overlapping calls read and write the status (sync_worker.py:129-142,
\* 181-188, 199-206).
THEOREM AttendedSound == Spec => []RunningIsAttended
<1>1. Init => Coherent /\ Attended
  BY CoherentInit DEF Init, Attended
<1> QED
  BY <1>1, CoherentStep, AttendedStep, AttendedIs, PTL DEF Spec
=============================================================================
