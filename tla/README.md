# TLA+ models and proofs of the tinyactor VM

These modules model the runtime of tinyactor: the C virtual machine that runs
actors on a pool of threads, and the C libraries that wait on timers and on the
network. They are checked with TLC on small instances; the safety properties of
the scheduler, of resources, of timers and of the network functions are also
proved with TLAPS, for every number of workers, processes, payloads, timers and
descriptors.

`PROJECT.json` lists the runs, the source lines behind each definition, the
hazards of the code and the properties that cover them.

## The system and its modules

| part of the VM | source | module | abstract specification |
| --- | --- | --- | --- |
| run queue, worker pool, mailboxes, wait list, I/O poller, death, monitors, end of a run | `src/scheduler.c`, `src/builtin.c`, actor primitives of `src/vm.c` | `Scheduler` | |
| resources: C payloads with one owner | `src/resource.c`, `src/val.c`, send/spawn/death paths | `Resource` | `Ownership` |
| frames, calls, tail calls, instructions that suspend | `src/vm.c` | `Interp` | `CallStack` |
| heap, stack, collector, C-call arena | `src/gc.c`, `ta_inline.h`, `src/val.c` | `Heap` | `Store` |
| timers | `lib/timer.c` | `Timer` | |
| connect, DNS resolver, sockets, sleep | `lib/net.c`, `lib/time.c`, `do_ccall` | `Net` | |
| byte strings and codecs | `lib/str.c`, `lib/encoding.c` | `Text` | |

Each `MC*` module gives constants their values for TLC. The proofs are in

| module | what it holds |
| --- | --- |
| `SchedulerInv` | the scheduler's invariants and what a step may do, as definitions |
| `SchedulerTypes` | type correctness |
| `SchedulerTokens` | the moves of tokens: which of them each step is, and that each keeps them unique |
| `SchedulerSteps` | what every step may do to locks, states, holders, watchers and references |
| `SchedulerEnd` | that such steps keep the counts, the places and the references right |
| `SchedulerProofs` | the inductive invariants and the theorems about the scheduler |
| `ResourceProofs`, `TimerProofs` | invariants, lemmas and theorems about `Resource` and `Timer` |
| `NetInv`, `NetProofs` | the invariant of `Net`; its lemmas and theorems |

**How the parts interact.** A worker takes a pid off the run queue and
interprets that process until its budget is used up (it is queued again), it
dies, or it blocks. A process blocks on its mailbox (`WAIT_RECV`) or on a
descriptor and deadline (`WAIT_IO`), and enters the wait list. A sender wakes
the first kind under the mailbox lock, the poller both kinds. Timers are fired
by the poller through a hook and end in the same `mbox_deliver`. A C function
that must wait (`net.connect`, `time.sleep`) registers a descriptor and is run
again from its start at every wake; `Interp` shows what that re-execution needs
of the stack, `Net` what the function must remember elsewhere. The modules meet
at these interfaces. They are not multiplied into one state space: `Scheduler`
does not look inside messages, and `Resource` and `Heap` do not look at threads
beyond what the locks leave visible.

### Scheduler

One action is one critical section, or a run of atomics nobody else can observe
half-way; a handler that releases a lock, or is seen half-way by a thread that
takes none, is several actions chained by the thread's label in `pc`. So
`mbox_deliver` is `Deliver`, `DeliverWake`, `DeliverEnqueue`; `proc_die` is the
chain `Die` ... `DieMbox`, with main's scan reading a state and storing
`PROC_DEAD` in two steps; the deadlock sample reads its three counters in three
steps. `procs`, `state`, `mbox`, `peek`, `deadline`, `watchers`, `waiting` and
`runq` are the fields of the same names in `Proc` and `VM`. `Prog` gives the
operations each process may perform; which one comes next is left open, so a
run covers every program over them. A receive is open from its `recv_peek` to
its `recv_commit` (`open` counts the nested ones); in between come the match and
the guard of an arm, which may yield, crash, or do what the constant `Guard`
allows, another receive included. A commit with no message before the cursor
dereferences a null pointer: the phase becomes `fault` and the process is gone.

Abstractions: a message is 0 or the reference of a DOWN; a deadline is `off`,
`armed`, `due` or `expired`; the wait generation is only ever compared with
the poller's snapshot, so an entry whose generation moves leaves `snap`; the
watcher list is consumed by the walk over it; an idle worker may resume at any
moment because its wait is timed. In a `WAIT_IO` wake the check and the store
of the state are one step. A spawn refused because the closure captures a
resource the parent does not own, or captures one twice (`SpawnRefused`), creates and buries the child in one step, since nobody
has its pid yet; the parent then dies.

### Resource, Interp, Heap

`Resource`: a heap counts how often it holds each resource header, a message is
the sequence of at most `MaxTree` headers in its tree. The steps of `proc_die`
that others can tell apart are separate actions, and `vm_free` sweeps process
after process. A process killed by main's death may still act, and a sender that
had seen it waiting may make it `RUNNING` again (`Revived`); the module allows
this for any killed process, which is more than the code does.

`Interp`: a slot is a value, a function or a part of a continuation. The
compiler knows the temporaries of an expression statically, so a `pc` is a
function together with what its temporaries and the accumulator hold there. The
recursive operator `Walk` is the stack walk of the crash report and gives the
refinement of `CallStack`. A local is a temporary that `Load` reads and `Store`
writes.

`Heap`: sizes are in slots of 8 bytes. A value names an object of one of two
blocks or of the chunk arena, so a pointer into the block a collection has left
is a dangling one, and the refinement of `Store`, where objects have an identity
and there is no collector, fails on it. `gc_copy_obj` tests for room at every
object; the model tests once, for all the objects copied (`TooHigh`). With
`Stress` (`TA_GC_STRESS`) any allocation may ask for a collection, those made
when a C call's arena is copied out included. `acc` is `Dead` where compiled code
never reads it again.

### Timer, Net, Text

`Timer`: the poller's firing loop is `FireStart`, `FirePop`, `FireLookup`,
`FireDeliver`, `FireRearm`, since delivery happens without the lock. A read of a
freed timer (`timer_register` reads `t->id` after the unlock) yields any value.
`whom` remembers each timer's target, so that the death of one target does not
excuse the end of another's interval.

`Net`: a deadline is the time left to it. Descriptors are small numbers, the
lowest free one is taken, and a closed number can be reused; the two ends of a
pipe are one descriptor. `getaddrinfo` and the handshake may take for ever. The
resolver's write to the wake pipe, after its unlock, is a step of its own. An
error path that has opened a descriptor opens and closes it (`Undone`).

`Text`: the loops of `str.c` and `encoding.c` as operators on sequences of
bytes, with the sizes of the buffers they fill. Integers have `IntBits` bits (8
in the run, 48 in `ta.h`); wrap-around is kept. A C `int` has `CIntBits` bits (4
in the run), and `pad` keeps its total in one. Where it then writes past its
buffer the behaviour is undefined; `Pad` gives the result of the truncated
length, and `BuffersSuffice` speaks of the lengths an `int` can hold.

## What the runs check

Every run is `tlc -config <cfg> <module>`.

| run | module and cfg | states | what it shows |
| --- | --- | --- | --- |
| `sched_mail` | `MCScheduler`, `_mail` | 530,245 | `TypeOK`; `CursorOnPeeked`: the peek cursor is in the mailbox, behind the message a receive has peeked at, if no guard receives; `SingleRunner`: a process is held, about to be queued, or queued, once; `NoLostWakeup`; `NobodyForgotten`: no process drops out of every list; `TimeoutOnlyIfEmpty`: a message wins over the timeout |
| `sched_death` | `MCScheduler`, `_death` | 529,523 | `DownAtMostOnce`: a DOWN is in one place; `DownNotLost`: it goes from the watcher list to the hands of a thread to the mailbox, unless the watcher is dead; `StopJustified`: `active_procs` never stops a VM whose main lives. Main's receives nest, and may fault |
| `sched_live` | `MCScheduler`, `_live` | 10,369 | `RecvAfterReturns`, `MessageReceived`, `RunEnds` |
| `resource` | `MCResource` | 286,660 | `TypeOK`, `OneOwner`, `ReleasedOnce`, `NothingLeaks`, and `ImplementsOwnership` |
| `interp` | `MCInterp` | 86,002 | `StackAsCompiled`: every instruction finds the stack it was compiled for; `ImplementsCalls` |
| `timer` | `MCTimer` | 718,580 | `TypeOK`, `OneShotOnce`, `CancelStops`, `CancelNotLost`, `IntervalNeverEnds`, `OncePerTick` |
| `heap` | `MCHeap` | 47,133 | `TypeOK`; `FrameStaysFree` and `RoomWasReserved`: heap and stack never meet, no abort but at the cap; `CollectionIsPrecise`; `ImplementsStore` |
| `net` | `MCNet` | 125,728 | `TypeOK`, `OneRequest`, `NothingLeaks`, `DeadlineIsBudget`, `ResultOfThisCall`, `ConnectReturns` |
| `text` | `MCText` | 121,297 | `CodecsInvert`, `BuffersSuffice`, `SplitsAgree`, `NumbersInvert` |
| `recv_in_guard` | `MCScheduler`, `_recv_in_guard` | | violated: `CursorOnPeeked` |
| `crash_ends` | `MCScheduler`, `_crash_ends` | | violated: `CrashEnds` |
| `recv_after_stack` | `MCInterp`, `_recv_after` | | violated: `StackAsCompiled` |

### Three disagreements between the code and what it says

* **A crashed main may never end the VM** (`crash_ends`). The comment in
  `proc_die` says that main's exit shuts the VM down. After a crash `entry_done`
  is not set, so no drain is counted, and the other test for a missing entry is
  reached only with an empty run queue. One worker and one actor that keeps
  yielding run for ever.
* **A resumed `recv_after` leaves a slot on the stack** (`recv_after_stack`).
  The instruction pushes `acc` on every execution and `b_recv_after` pops it
  only on the first. `MCInterp.cfg` restricts the operand to 0, which never
  suspends; with other operands the stack is deeper than compiled.
* **A guard that receives breaks the commit** (`recv_in_guard`). The comment
  above `b_recv_commit` says that it drops the message just peeked at. A guard
  runs between peek and commit; if it calls `recv`, `recv_after` or `receive` the
  mailbox is shorter or the cursor reset, and the commit drops another message,
  or finds none and ends the VM with a segmentation fault.

All three were reproduced with the built VM. Further behaviour met while
modelling, listed as hazards: in the millisecond of its deadline the poller wakes
a connect (`now >= deadline`) that does not yet take it for passed
(`now > deadline`) and, as `SO_ERROR` is 0 for a handshake under way, returns an
unconnected descriptor; `pad` keeps its length in an `int`, so that for 2^31 or
more the result is not of the length asked for (read from the code, not run);
with two workers the drain can be cut short,
because an idle worker stops the VM without looking at `busy_workers`; with
profiling on, `prof_yield` touches a process another worker may already run
(`SingleRunner` is false with `ProfOn`); after a DNS timeout a retry by the same
actor finds its cancelled request, returns `'timeout` at once and closes the old
descriptor numbers again; `gc_collect` gives up by the size of the whole heap
where its comment speaks of the live set; `PROC_DEAD` is not final while main's
death is processed, though `timer.c` says so.

### Bounds

* `Scheduler`: two workers (one in `sched_live` and the violation runs), two or
  three processes, mailboxes of one or two, two monitors, one receive inside
  another (`MaxOpen` 2), a drain of 1 or 2 for 64. Two workers and the poller
  are the three threads that can meet at one process; two messages are the least
  for which the cursor of a selective receive can be inside the mailbox; three
  processes are a watcher and two it watches, one of which spawns the other; only
  main monitors. Bounds on mailboxes and
  monitors are guards on the sender's side.
* `Resource`: three processes, two payloads, four headers, one message of up to
  two headers per mailbox: enough for a payload to return to its first owner and for a message
  to hold the same payload twice.
* `Interp`: functions of 0, 1 and 2 parameters, so a tail call grows and shrinks
  the frame; two temporaries; 15 slots, three frames deep.
* `Heap`: an arena of 6 slots that may grow to 16, three allocations and two
  frames: it grows, collects with garbage, hits the cap, and collects within a
  C call. The two blocks are symmetric.
* `Timer`: two timers to two processes, delays of 0, 1 and 2, three
  milliseconds: a timer is rearmed while another is due, and a tick comes late.
  The processes are symmetric.
* `Net`: two actors, two descriptors, one millisecond: descriptors run out and are reused.
  `Timeouts` is one value for connects; `time.sleep` also gets 0.
* `Text`: all strings over six bytes chosen to include a space, `%`, a digit, `=`,
  a letter and 255, up to length 6 alone and 4 with a second one of up to 2.

`CHECK_DEADLOCK FALSE` stands where the system may stop: `Interp` when the entry
returns or the bounds are reached, `Heap` after a fatal error or its last
allocation, `Resource` after `vm_free`, `Text` when the strings are full.

### Fairness

`sched_live` and `crash_ends` assume strong fairness of each worker's and the
poller's steps, of the yield that the reduction budget forces, of the end of a
batch of due timers and of the scan of a due wait, and weak fairness of the
joins and of the clock. That is: the operating system schedules threads, a
thread that keeps asking for a lock gets it, a slice is bounded (`TICK`), a
batch of timers is finite, and the deadline scan restarts at the head until
nothing is due. Nothing makes a descriptor ready and no process is forced to
receive. `net` assumes weak fairness of running a woken actor, of the poller's
wake and of the clock; the resolver and the peer get none.

## What is proved

Each theorem holds for all constants that satisfy the named assumption of its
module. `SchedulerAssumption`: a nonempty set of workers, distinct from the
poller; at least one pid; any `Prog`; any `Guard` (a guard is an expression, it does not
return from the process). `ResourceAssumption`: main is a process and
`MaxTree` a number. `TimerAssumption`: delays and bounds are numbers.
`NetAssumption`: timeouts are numbers and one of them is the longest.

### Scheduler

* `TypeCorrect`: `Spec => []TypeOK`. `TypeOK` is not inductive: an action reads
  `cur[w]` or `tgt[a]` as a process. `TInv` adds `Roles` (each thread is in its
  own code, with a process to work on where the code uses one) and `Created`
  (every pid in use came from `proc_new`). `TypesHold` proves `TInv`. Neither
  says anything of the peek cursor but that it is a number.
* `CommitsPeeked`: `Spec => []CursorOnPeeked` if `Guard` holds no receive. Its
  invariant `CInv` says more: there is at most one open receive, and without one
  the cursor is at the front, so that `recv` and `recv_after` do not move the
  messages under it.
* `NeverTwoRunners`, `WakeupsKept`, `MessageWins`: `SingleRunner`,
  `NoLostWakeup`, `TimeoutOnlyIfEmpty`.
* `NobodyLeftBehind`, `StopsForAReason`: `NobodyForgotten`, `StopJustified`.
* `OneDown`: `Spec => []DownAtMostOnce`.

All but `TypeCorrect`, `CommitsPeeked` and `OneDown` assume `ProfOn = FALSE`.
`NeverTwoRunners`, `WakeupsKept` and `MessageWins` rest on `InvHolds`, which proves

    IInv == TInv /\ SingleRunner /\ Parked /\ LockHeld /\ WakeTarget
            /\ Registered /\ NoLostWakeup /\ Timed

The argument is one of tokens. The right to touch a process is a token: the
worker that holds the process, a thread about to queue it, or its place in the
run queue has it, or nobody has and the process is asleep. Every step of the
scheduler is one of seven moves of tokens, and each move keeps them unique
(`SchedulerTokens`). Only a sleeper's token may be made anew, so the invariant
must say who sleeps: a process in a waiting state is in nobody's hands but those
of the worker registering it (`Parked`), the mailbox lock is held from parking to
registration and from delivery to enqueue (`LockHeld`), the target of a wake is
asleep (`WakeTarget`), and so is everyone in the wait list, except one the poller
is about to take out (`Registered`). `NoLostWakeup` and `Timed` (only
`recv_after` arms a deadline) then give
`MessageWins`: a process the poller may expire waits with its mailbox lock free,
so no message it would take can be in its mailbox.

`NobodyLeftBehind` and `StopsForAReason` rest on `EndHolds`, which proves `EInv` given `IInv`. Until the
entry crashes, only its own worker takes a process out of `RUNNING`
(`Undisturbed`), so `active_procs` is the number of living processes (`Counted`)
and cannot reach 0 while main, one of them, lives. A worker lets go of its
process only where `Drops` says: it queues it, registers it, buries it, or finds
it dead. So a runnable process is always held, queued or about to be queued, and
a waiting one is registered or about to be.

`OneDown` rests on `DInv`: a reference is in one watcher list, one mailbox or one
thread's hands, once (`Refs`), and a process that has left the table still has
watchers only while its worker is notifying them (`Notified`), which `procs_lock`
guarantees against a concurrent `monitor`.

### Resource

`InvHolds` proves `IInv == TypeOK /\ Places /\ Ledger /\ Drained`. `Places`: a
process holds an owner header of a payload once, in its heap or in one message of
its mailbox. `Ledger`: a payload has one owner from its birth to its one release.
Every step either leaves owners alone, creates a payload, gives some payloads of
one process to another, or releases some payloads of one process (`Same`,
`Created`, `Given`, `Freed`). From this follow `TypesHold`, `OneOwnerAlways`,
`ReleasedOnceAlways`, `NothingLeaksEver`, and the refinement
`OwnershipImplemented`: `Spec => ImplementsOwnership`.

### Timer

`InvHolds` proves that each timer is on the list (`Waiting`), in the poller's
hands (`InHand`) or freed, in one place only (`Single`), and that what was
delivered and cancelled agrees with the place (`History`). The invariant must tell
a cancelled timer in the poller's hands from one on the list, because `cancel`
returns 1 for both. The theorems are `TypesHold` (the list is sorted),
`OneShotAtMostOnce`, `CancelNeverLost`, `IntervalsGoOn`, `CancelIsFinal` and
`NoBurst`; the last one rests on a rearmed timer being due after the `now_ms` of
the call that delivered it.

### Net

`InvHolds` proves the `IInv` of `NetInv`. It sees the four lists of the registry
through the triples (actor, descriptor, time left) of the entries that are not
cancelled. An actor is on one list, once (`Lists`, `OnePlace`); it is on a list
exactly while it is in a connect (`Placed`); the time left is its budget
(`Timely`); an open descriptor is in a triple or has been returned (`NoLeak`). The
case that needs care is a request cancelled while `getaddrinfo` runs: its actor
has no other entry, and its time is up (`Abandoned`), so a retry finds the old
request and ends at once instead of queueing a second one. The theorems are
`TypesHold`, `OneEntryPerCall`, `NoDescriptorLeaks`, `DeadlinesHold` and
`AnswersAreFresh`.

### Only model-checked

* `DownNotLost`.
* All liveness: `RecvAfterReturns`, `MessageReceived`, `RunEnds`,
  `ConnectReturns`. The prover does not handle fairness.
* `Heap` and `Interp`, with their refinements of `Store` and `CallStack`: the
  stack walk and the copying collector are recursive operators, and what they
  compute for every input needs induction over data, which is out of the prover's
  reach.
* `Text`: the codecs and conversions are recursive too.

## Not modelled

* The compiler and the standard library in TA: programs for the VM. What the
  compiler promises (operand counts, frame bounds) is the shape of the
  instructions in `Interp` and `Heap`.
* The loader and command line (`main.c`) but for the signal handler; image
  parsing is sequential input checking.
* `file`, `os`, `process`, `tls`: wrappers of the operating system or OpenSSL,
  whose outcome is decided outside. Their waiting is that of `Net`.
* `math`, `random`, `sha256`, `num.c`, the bit layout of values: arithmetic on
  64-bit words, out of TLC's reach. `buffer`, `sexp`: sequential data code. The
  error text of `sexp` is kept per thread, so an actor preempted between
  `sexp.parse` and `sexp.err` may read another's; a model would say no more.
* The symbol table (`api.c`): its lock-free readers depend on C memory order,
  below this level. Profiler and coverage data are never read by the program.
* In the modelled parts: out-of-memory paths, the mode without a poller thread
  (hosts without threads), a second `vm_run` on one VM, floats in `str`, signed
  overflow in `str.to_int`, `last_errno`, an actor's death inside a network wait
  (it happens only as the VM shuts down), overflow of the run queue's `int`
  indices after 2^31 enqueues.
