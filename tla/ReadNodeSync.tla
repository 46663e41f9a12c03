---------------------------- MODULE ReadNodeSync ----------------------------
(***************************************************************************)
(* How a write reaches the read node: WriteNode.apply hands its delta to a *)
(* pool of workers, a worker runs ReadNode.receive_delta, which sleeps and *)
(* then buffers the operations, and a timer or a full buffer flushes them  *)
(* into the cache (src/core/write_node.py, read_node.py, coordinator.py).  *)
(*                                                                         *)
(* A step is what one thread does under one lock.  The value of a write is *)
(* its stamp, the version WriteNode.apply gave it: what the properties     *)
(* have to tell apart is which write a cell shows.                         *)
(***************************************************************************)
EXTENDS Integers, Sequences, FiniteSets

CONSTANTS
  Writers,    \* threads in WriteNode.apply
  Workers,    \* threads of WriteNode._callback_pool
  Cells,      \* the cells written
  Structure,  \* the pseudo cell <frame>::__structure__ of a structural operation
  Deltas,     \* the sets of cells transactions write
  BatchSize,  \* _buffer_batch_size
  Loads,      \* whether datasets are loaded into the cache
  MaxVersion  \* bound: no transaction is applied once the write node has this version

ASSUME StructureIsNoCell == Structure \notin Cells
ASSUME DeltasAreCells ==
  \A d \in Deltas : d # {} /\ IsFiniteSet(d) /\ d \subseteq Cells \cup {Structure}
ASSUME BatchSizeIsPositive == BatchSize \in Nat \ {0}
ASSUME LoadsIsBoolean == Loads \in BOOLEAN
ASSUME MaxVersionIsNat == MaxVersion \in Nat

VARIABLES
  df,       \* WriteNode._df: the stamp of each cell
  version,  \* WriteNode._version
  leaving,  \* the delta of each writer past the write node's lock
  queue,    \* the work queue of the pool
  work,     \* the delta each worker sleeps with, in receive_delta
  buffer,   \* ReadNode._delta_buffer
  timer,    \* ReadNode._buffer_timer: none, armed, or its callback waits for the lock
  late,     \* callbacks waiting for the lock whose timer is no longer _buffer_timer
  cache,    \* ReadNode._cache
  rversion, \* ReadNode._version
  disk,     \* the parquet file persist wrote last
  astray,   \* history: cells whose last delta was overtaken, lost or loaded over
  cut       \* history: a flush failed since the write node's last version

writeVars == <<df, version>>
readVars == <<cache, rversion, disk>>
vars == <<writeVars, leaving, queue, work, buffer, timer, late, readVars, astray, cut>>

Stamps == 0..MaxVersion

(* A delta on its way: the cells, the stamp, and the version sent along. *)
Delta == [cells : Deltas, stamp : Stamps, version : Stamps]

Op == [cell : Cells \cup {Structure}, stamp : Stamps, version : Stamps]

Nothing == [cells |-> {}, stamp |-> 0, version |-> 0]

TypeOK ==
  /\ df \in [Cells -> 0..version]
  /\ version \in Stamps
  /\ leaving \in [Writers -> Delta \cup {Nothing}]
  /\ queue \in Seq(Delta)
  /\ work \in [Workers -> Delta \cup {Nothing}]
  /\ buffer \in Seq(Op)
  /\ Len(buffer) < BatchSize
  /\ timer \in {"none", "armed", "fired"}
  /\ late \in Nat
  /\ cache \in [Cells -> 0..version]
  /\ rversion \in 0..version
  /\ disk \in [Cells -> 0..version]
  /\ astray \subseteq Cells
  /\ cut \in BOOLEAN

Init ==
  /\ df = [c \in Cells |-> 0]
  /\ version = 0
  /\ leaving = [t \in Writers |-> Nothing]
  /\ queue = <<>>
  /\ work = [w \in Workers |-> Nothing]
  /\ buffer = <<>>
  /\ timer = "none"
  /\ late = 0
  /\ cache = [c \in Cells |-> 0]
  /\ rversion = 0
  /\ disk = [c \in Cells |-> 0]
  /\ astray = {}
  /\ cut = FALSE

(* The deltas that carry cell c, by where they are. *)
Leaving(c) == {t \in Writers : c \in leaving[t].cells}
Queued(c) == {i \in DOMAIN queue : c \in queue[i].cells}
AtWork(c) == {w \in Workers : c \in work[w].cells}
Buffered(c) == {i \in DOMAIN buffer : buffer[i].cell = c}

InPool(c) == Leaving(c) # {} \/ Queued(c) # {} \/ AtWork(c) # {}

(* Stamps on their way to cell c. *)
Coming(c) ==
  {leaving[t].stamp : t \in Leaving(c)} \cup {queue[i].stamp : i \in Queued(c)}
    \cup {work[w].stamp : w \in AtWork(c)} \cup {buffer[i].stamp : i \in Buffered(c)}

Quiet ==
  /\ \A t \in Writers : leaving[t] = Nothing
  /\ \A w \in Workers : work[w] = Nothing
  /\ queue = <<>>
  /\ buffer = <<>>

-----------------------------------------------------------------------------
(* Broken variants of the definitions below. *)

(* _parse_cell_id lets a structural cell id through. *)
ParsesAll(op) == TRUE

(* The first update of a cell in the buffer wins: setdefault for assignment. *)
FirstUpdate(ops, c) ==
  LET At == {i \in DOMAIN ops : ops[i].cell = c}
  IN ops[CHOOSE i \in At : \A j \in At : i <= j].stamp

(* The version of the last operation instead of the highest. *)
VersionOfLast(ops) == ops[Len(ops)].version

(* receive_delta counts on somebody else's timer. *)
TimerForgotten == timer

(* A callback whose timer was replaced finds out after it cancelled the new one. *)
FlushLateCancels ==
  /\ late > 0
  /\ late' = late - 1
  /\ timer' = IF timer = "armed" THEN "none" ELSE timer
  /\ UNCHANGED <<writeVars, leaving, queue, work, buffer, readVars, astray, cut>>

-----------------------------------------------------------------------------
(* WriteNode.apply under its lock.  The cell locks of submit, held until the
   delta is in the queue, keep a cell to one writer.  A write of a cell with
   nothing ahead of it in the pool cannot be overtaken any more. *)
Apply(t, d) ==
  /\ leaving[t] = Nothing
  /\ version < MaxVersion
  /\ \A c \in d : Leaving(c) = {}
  /\ version' = version + 1
  /\ df' = [c \in Cells |-> IF c \in d THEN version + 1 ELSE df[c]]
  /\ leaving' = [leaving EXCEPT ![t] = [cells |-> d, stamp |-> version + 1, version |-> 0]]
  /\ astray' = astray \ {c \in d : ~InPool(c)}
  /\ cut' = FALSE
  /\ UNCHANGED <<queue, work, buffer, timer, late, readVars>>

(* After the lock: the version is read again, and may be that of a later write. *)
Dispatch(t) ==
  /\ leaving[t] # Nothing
  /\ queue' = Append(queue, [leaving[t] EXCEPT !.version = version])
  /\ leaving' = [leaving EXCEPT ![t] = Nothing]
  /\ UNCHANGED <<writeVars, work, buffer, timer, late, readVars, astray, cut>>

(* A worker takes the oldest delta and sleeps sync_delay_ms with it.  Deltas of
   two sleepers go on in either order. *)
Take(w) ==
  /\ work[w] = Nothing
  /\ queue # <<>>
  /\ work' = [work EXCEPT ![w] = Head(queue)]
  /\ queue' = Tail(queue)
  /\ astray' = astray \cup {c \in Cells \cap Head(queue).cells : AtWork(c) # {}}
  /\ UNCHANGED <<writeVars, leaving, buffer, timer, late, readVars, cut>>

-----------------------------------------------------------------------------
(* _flush_buffer_locked. *)
Parses(op) == op.cell \in Cells

(* A callback that has begun is not cancelled: it still gets the lock, later. *)
StillComing(byCallback) == IF timer = "fired" /\ ~byCallback THEN late + 1 ELSE late

LastUpdate(ops, c) ==
  LET At == {i \in DOMAIN ops : ops[i].cell = c}
  IN ops[CHOOSE i \in At : \A j \in At : j <= i].stamp

HighestVersion(ops) ==
  CHOOSE v \in {ops[i].version : i \in DOMAIN ops} : \A i \in DOMAIN ops : ops[i].version <= v

Updated(ops) ==
  LET Touched == {ops[i].cell : i \in DOMAIN ops}
  IN [c \in Cells \cup Touched |-> IF c \in Touched THEN LastUpdate(ops, c) ELSE cache[c]]

(* One operation that does not parse raises, and the whole batch is gone. *)
Flush(ops) ==
  /\ buffer' = <<>>
  /\ timer' = "none"
  /\ \/ /\ \A i \in DOMAIN ops : Parses(ops[i])
        /\ cache' = IF ops = <<>> THEN cache ELSE Updated(ops)
        /\ rversion' = IF ops = <<>> \/ HighestVersion(ops) < rversion
                       THEN rversion ELSE HighestVersion(ops)
        /\ UNCHANGED <<astray, cut>>
     \/ /\ \E i \in DOMAIN ops : ~Parses(ops[i])
        /\ astray' = astray \cup
             {c \in Cells : ~InPool(c)' /\ \E i \in DOMAIN ops : ops[i].cell = c}
        /\ cut' = TRUE
        /\ UNCHANGED <<cache, rversion>>
  /\ UNCHANGED disk

(* receive_delta after its sleep: under the buffer's lock, the operations in the
   list's order, then a flush or a timer. *)
OpsOf(d, order) ==
  [i \in 1..Cardinality(d.cells) |->
     [cell |-> order[i], stamp |-> d.stamp, version |-> d.version]]

Orders(s) == {f \in [1..Cardinality(s) -> s] : \A c \in s : \E i \in DOMAIN f : f[i] = c}

TimerOnReceive == IF timer = "none" THEN "armed" ELSE timer

Receive(w) ==
  /\ work[w] # Nothing
  /\ work' = [work EXCEPT ![w] = Nothing]
  /\ UNCHANGED <<writeVars, leaving, queue>>
  /\ \E order \in Orders(work[w].cells) :
       LET ops == buffer \o OpsOf(work[w], order)
       IN \/ /\ Len(ops) >= BatchSize
             /\ Flush(ops)
             /\ late' = StillComing(FALSE)
          \/ /\ Len(ops) < BatchSize
             /\ buffer' = ops
             /\ timer' = TimerOnReceive
             /\ UNCHANGED <<late, readVars, astray, cut>>

TimerFires ==
  /\ timer = "armed"
  /\ timer' = "fired"
  /\ UNCHANGED <<writeVars, leaving, queue, work, buffer, late, readVars, astray, cut>>

(* The timer's callback gets the lock. *)
FlushOnTimer ==
  /\ timer = "fired"
  /\ UNCHANGED <<writeVars, leaving, queue, work>>
  /\ Flush(buffer)
  /\ late' = StillComing(TRUE)

(* So does one whose timer was replaced after it fired. *)
FlushLate ==
  /\ late > 0
  /\ UNCHANGED <<writeVars, leaving, queue, work>>
  /\ Flush(buffer)
  /\ late' = StillComing(FALSE) - 1

Persist ==
  /\ disk' = cache
  /\ UNCHANGED <<writeVars, leaving, queue, work, buffer, timer, late, cache, rversion,
                 astray, cut>>

(* load puts the file in the place of the cache and leaves the version. *)
Load ==
  /\ Loads
  /\ cache' = disk
  /\ astray' = astray \cup {c \in Cells : Coming(c) = {}}
  /\ UNCHANGED <<writeVars, leaving, queue, work, buffer, timer, late, rversion, disk, cut>>

Done ==
  /\ Quiet
  /\ timer = "none"
  /\ late = 0
  /\ version = MaxVersion
  /\ UNCHANGED vars

Flushes == TimerFires \/ FlushOnTimer \/ FlushLate

Next ==
  \/ \E t \in Writers : Dispatch(t) \/ \E d \in Deltas : Apply(t, d)
  \/ \E w \in Workers : Take(w) \/ Receive(w)
  \/ Flushes
  \/ Persist
  \/ Load
  \/ Done

Spec == Init /\ [][Next]_vars

(* A writer, a worker and a timer that can go on do.  Writes, persists and
   loads need not come. *)
FairSpec ==
  /\ Spec
  /\ \A t \in Writers : WF_vars(Dispatch(t))
  /\ \A w \in Workers : WF_vars(Take(w)) /\ WF_vars(Receive(w))
  /\ WF_vars(TimerFires)
  /\ WF_vars(FlushOnTimer)
  /\ WF_vars(FlushLate)

-----------------------------------------------------------------------------
(* No operation is left in the buffer without a timer or a callback that will
   flush it, whichever way a synchronous flush, a firing timer and a receive
   interleave (read_node.py: _buffer_timer and cancel). *)
NothingStranded == buffer # <<>> => timer # "none" \/ late > 0

(* The cache shows the last write of a cell, or that write is on its way: the
   queue, the buffer and the aggregation keep the order of the writes.  Cells
   whose deltas two workers held at once, whose batch was lost or whose cache
   was loaded over are excepted until a later write makes them good. *)
CacheFollows == \A c \in Cells \ astray : cache[c] = df[c] \/ df[c] \in Coming(c)

(* When all is flushed and no flush failed, the read node's version is the
   write node's, in spite of versions read late and deltas out of order. *)
VersionSettles == Quiet /\ ~cut => rversion = version

(* The delta of version n is somewhere between apply and the cache. *)
Carried(n) ==
  \/ \E t \in Writers : leaving[t].stamp = n
  \/ \E i \in DOMAIN queue : queue[i].stamp = n
  \/ \E w \in Workers : work[w].stamp = n
  \/ \E i \in DOMAIN buffer : buffer[i].stamp = n

(* Each delta leaves the pipeline, into the cache or lost with its batch: no write
   waits for ever in the pool, with a worker or in the buffer. *)
EveryDeltaLands == \A n \in 1..MaxVersion : Carried(n) ~> ~Carried(n)
=============================================================================
