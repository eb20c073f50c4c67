------------------------------- MODULE Timer -------------------------------
(***************************************************************************)
(* Timers (lib/timer.c): a list sorted by deadline that C functions on any *)
(* worker add to and cancel from, and that the I/O poller fires from.      *)
(*                                                                         *)
(* Delivery happens outside the list's lock, so a timer being fired is on  *)
(* no list until it is armed again or freed.  What a message is and how it *)
(* is queued is Scheduler's matter: here a delivery is counted.  Reading a *)
(* timer that has been freed yields any value.                             *)
(***************************************************************************)
EXTENDS Naturals, Sequences

CONSTANTS Callers,   \* threads in timer_register
          Targets,   \* pids
          Delays,    \* the milliseconds the program asks for, when positive
          MaxTimers, \* bound: timers created
          MaxNow     \* bound: the clock

ASSUME TimerAssumption ==
  Delays \subseteq Nat /\ MaxTimers \in Nat /\ MaxNow \in Nat

VARIABLES
  list,      \* the timers, the earliest first
  nextId,
  firing,    \* the timer taken off the list by the poller (at most one)
  stage,     \* of the poller in timer_fire_expired
  fireNow,   \* its now_ms
  sawDead,   \* its target_dead
  now,
  dead,      \* targets that have died
  pending,   \* caller -> id of the timer it has added and not yet returned
  handed,    \* id -> what timer_register returned
  freed,     \* ids of freed timers
  made,      \* id -> how it was created
  whom,      \* id -> the pid it was created for
  inbox,     \* id -> deliveries
  ticked,    \* ids delivered by this call of timer_fire_expired
  stopped,   \* ids whose cancel returned 1
  refused    \* ids in use whose cancel returned 0

pollerVars == <<firing, stage, fireNow, sawDead, ticked>>
vars == <<list, nextId, pollerVars, now, dead, pending, handed, freed, made,
          whom, inbox, stopped, refused>>

Ids == 1..MaxTimers
None == 0
Garbage == MaxTimers + 1

Kinds == {"none", "after", "interval"}
Timers == [id : Ids, to : Targets, every : Nat, at : Nat, cancel : BOOLEAN]
-----------------------------------------------------------------------------
InsertLast(l, t) == Append(l, t)

\* Where timer_insert's walk stops: at the first timer that is due later.
Place(l, t) == CHOOSE k \in 1..(Len(l) + 1) :
  /\ \A i \in 1..(k - 1) : l[i].at <= t.at
  /\ k <= Len(l) => l[k].at > t.at

Insert(l, t) ==
  LET k == Place(l, t)
  IN  SubSeq(l, 1, k - 1) \o <<t>> \o SubSeq(l, k, Len(l))

IntervalUnclamped(ms) == ms

\* send_interval makes 0 a millisecond: interval_ms = 0 is a one-shot timer.
Interval(ms) == IF ms < 1 THEN 1 ELSE ms

InFlightNever(id) == FALSE

\* The timer being fired can be cancelled if it is periodic.
InFlight(id) == firing # <<>> /\ firing[1].id = id /\ firing[1].every > 0

RearmsOneShot(t) == ~sawDead /\ ~t.cancel
RearmsCancelled(t) == t.every > 0 /\ ~sawDead

\* Whether the poller puts a timer it has fired back.
Rearms(t) == t.every > 0 /\ ~sawDead /\ ~t.cancel

NextFromDeadline(t) == t.at + t.every

\* A periodic timer is armed again from now_ms, not from its old deadline.
NextDeadline(t) == fireNow + t.every

Listed(id) == \E i \in 1..Len(list) : list[i].id = id
-----------------------------------------------------------------------------
Init ==
  /\ list = <<>> /\ nextId = 0
  /\ firing = <<>> /\ stage = "idle" /\ fireNow = 0 /\ sawDead = FALSE
  /\ now = 0 /\ dead = {}
  /\ pending = [c \in Callers |-> None]
  /\ handed = [id \in Ids |-> None]
  /\ freed = {} /\ made = [id \in Ids |-> "none"]
  /\ whom = [id \in Ids |-> None]
  /\ inbox = [id \in Ids |-> 0]
  /\ ticked = {} /\ stopped = {} /\ refused = {}

\* timer_register up to the unlock ...
Register(c, p, kind, ms, every) ==
  /\ pending[c] = None /\ nextId < MaxTimers
  /\ nextId' = nextId + 1
  /\ list' = Insert(list, [id |-> nextId', to |-> p, every |-> every,
                           at |-> now + ms, cancel |-> FALSE])
  /\ made' = [made EXCEPT ![nextId'] = kind]
  /\ whom' = [whom EXCEPT ![nextId'] = p]
  /\ pending' = [pending EXCEPT ![c] = nextId']
  /\ UNCHANGED <<pollerVars, now, dead, handed, freed, inbox, stopped, refused>>

SendAfter(c, p, ms) == Register(c, p, "after", ms, 0)

SendInterval(c, p, ms) == Register(c, p, "interval", Interval(ms), Interval(ms))

\* ... and its last line, which reads the timer without the lock.
RegisterReturn(c) ==
  /\ pending[c] # None
  /\ \E v \in {pending[c]} \cup (IF pending[c] \in freed THEN {Garbage} ELSE {}) :
       handed' = [handed EXCEPT ![pending[c]] = v]
  /\ pending' = [pending EXCEPT ![c] = None]
  /\ UNCHANGED <<list, nextId, pollerVars, now, dead, freed, made, whom, inbox,
                 stopped, refused>>

\* timer_c_cancel.
Cancel(id) ==
  /\ IF Listed(id)
     THEN /\ \E i \in 1..Len(list) :
               /\ list[i].id = id /\ \A j \in 1..(i - 1) : list[j].id # id
               /\ list' = SubSeq(list, 1, i - 1) \o SubSeq(list, i + 1, Len(list))
          /\ freed' = freed \cup {id} /\ stopped' = stopped \cup {id}
          /\ UNCHANGED <<firing, refused>>
     ELSE IF InFlight(id)
     THEN /\ firing' = [firing EXCEPT ![1].cancel = TRUE]
          /\ stopped' = stopped \cup {id}
          /\ UNCHANGED <<list, freed, refused>>
     ELSE /\ refused' = refused \cup ({id} \cap (1..nextId))
          /\ UNCHANGED <<list, firing, freed, stopped>>
  /\ UNCHANGED <<nextId, stage, fireNow, sawDead, ticked, now, dead, pending,
                 handed, made, whom, inbox>>

\* The poller calls timer_fire_expired ...
FireStart ==
  /\ stage = "idle"
  /\ stage' = "pop" /\ fireNow' = now /\ ticked' = {}
  /\ UNCHANGED <<list, nextId, firing, sawDead, now, dead, pending, handed,
                 freed, made, whom, inbox, stopped, refused>>

\* ... which takes the first timer off the list if it is due ...
FirePop ==
  /\ stage = "pop"
  /\ IF list # <<>> /\ list[1].at <= fireNow
     THEN firing' = <<Head(list)>> /\ list' = Tail(list) /\ stage' = "lookup"
     ELSE stage' = "idle" /\ UNCHANGED <<firing, list>>
  /\ UNCHANGED <<nextId, fireNow, sawDead, ticked, now, dead, pending, handed,
                 freed, made, whom, inbox, stopped, refused>>

\* ... looks its target up ...
FireLookup ==
  /\ stage = "lookup"
  /\ sawDead' = (firing[1].to \in dead)
  /\ stage' = IF sawDead' THEN "rearm" ELSE "deliver"
  /\ UNCHANGED <<list, nextId, firing, fireNow, ticked, now, dead, pending,
                 handed, freed, made, whom, inbox, stopped, refused>>

\* ... delivers, unless the target has died in the meantime ...
FireDeliver ==
  /\ stage = "deliver" /\ stage' = "rearm"
  /\ IF firing[1].to \in dead THEN UNCHANGED <<inbox, ticked>>
     ELSE /\ inbox' = [inbox EXCEPT ![firing[1].id] = @ + 1]
          /\ ticked' = ticked \cup {firing[1].id}
  /\ UNCHANGED <<list, nextId, firing, fireNow, sawDead, now, dead, pending,
                 handed, freed, made, whom, stopped, refused>>

\* ... and arms the timer again or frees it.
FireRearm ==
  /\ stage = "rearm" /\ stage' = "pop" /\ firing' = <<>>
  /\ LET t == firing[1]
     IN  IF Rearms(t)
         THEN /\ list' = Insert(list, [t EXCEPT !.at = NextDeadline(t)])
              /\ UNCHANGED freed
         ELSE freed' = freed \cup {t.id} /\ UNCHANGED list
  /\ UNCHANGED <<nextId, fireNow, sawDead, ticked, now, dead, pending, handed,
                 made, whom, inbox, stopped, refused>>

\* proc_die of a target, and the monotonic clock.
TargetDies(p) ==
  /\ p \notin dead /\ dead' = dead \cup {p}
  /\ UNCHANGED <<list, nextId, pollerVars, now, pending, handed, freed, made,
                 whom, inbox, stopped, refused>>

Clock ==
  /\ now < MaxNow /\ now' = now + 1
  /\ UNCHANGED <<list, nextId, pollerVars, dead, pending, handed, freed, made,
                 whom, inbox, stopped, refused>>

Next ==
  \/ \E c \in Callers, p \in Targets, ms \in Delays :
       SendAfter(c, p, ms) \/ SendInterval(c, p, ms)
  \/ \E c \in Callers : RegisterReturn(c)
  \/ \E id \in Ids : Cancel(id)
  \/ FireStart \/ FirePop \/ FireLookup \/ FireDeliver \/ FireRearm
  \/ \E p \in Targets : TargetDies(p)
  \/ Clock

Spec == Init /\ [][Next]_vars
-----------------------------------------------------------------------------
\* Types; the list is sorted by deadline, which is what lets the poller look at
\* its head only (timer_next_deadline_ms, timer_fire_expired).
TypeOK ==
  /\ list \in Seq(Timers) /\ firing \in Seq(Timers) /\ Len(firing) <= 1
  /\ \A i, j \in 1..Len(list) : i < j => list[i].at <= list[j].at
  /\ stage \in {"idle", "pop", "lookup", "deliver", "rearm"}
  /\ firing # <<>> <=> stage \in {"lookup", "deliver", "rearm"}
  /\ nextId \in 0..MaxTimers /\ now \in 0..MaxNow /\ fireNow \in 0..now
  /\ sawDead \in BOOLEAN /\ dead \subseteq Targets
  /\ pending \in [Callers -> Ids \cup {None}]
  /\ handed \in [Ids -> 0..Garbage] /\ made \in [Ids -> Kinds]
  /\ whom \in [Ids -> Targets \cup {None}] /\ inbox \in [Ids -> Nat]
  /\ freed \cup ticked \cup stopped \cup refused \subseteq Ids

\* send_after delivers once at most, and never when its cancel has returned 1:
\* "1 if a pending timer was cancelled, 0 if the id already fired".
OneShotOnce == \A id \in Ids : made[id] = "after" =>
  inbox[id] <= IF id \in stopped THEN 0 ELSE 1

\* A cancel that reports success stops a periodic timer, even one caught
\* between its removal from the list and its rearming: the firing under way is
\* finished, and no other one ever begins.
CancelStops == [][
  firing = <<>> /\ firing' # <<>> => firing'[1].id \notin stopped]_vars

\* A cancel that reports 0 leaves nothing that will fire again (the cancel
\* "silently lost" of timer_c_cancel's comment).
CancelNotLost == \A id \in refused : ~Listed(id) /\ ~InFlight(id)

\* A periodic timer ends by a cancel or by its target's death only, whatever
\* its interval, 0 included.
IntervalNeverEnds == \A id \in freed : made[id] = "interval" =>
  id \in stopped \/ whom[id] \in dead

\* One call of timer_fire_expired delivers a timer once, however late it is:
\* no burst of catch-up deliveries, and the call ends.
OncePerTick == [][
  \A id \in Ids : inbox'[id] # inbox[id] => id \notin ticked]_vars
=============================================================================
