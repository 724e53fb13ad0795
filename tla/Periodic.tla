------------------------------- MODULE Periodic -------------------------------
(***************************************************************************)
(* pkg/periodic: a task run again and again by one goroutine, which Start  *)
(* launches and Stop ends.  Start and Stop may be called by anyone, in any *)
(* order and at the same time.  The mutex is never held across a wait, so  *)
(* a critical section is one step.                                         *)
(***************************************************************************)
EXTENDS Naturals

CONSTANTS
  Starters,  \* calls of Start, each with a context of its own
  Stoppers,  \* calls of Stop
  None       \* the nil value of p.cancel and p.done

ASSUME CallersAssumption == None \notin Starters /\ Starters \intersect Stoppers = {}

VARIABLES
  pc,         \* where each call is: "idle", "cancel", "wait" or "returned"
  owner,      \* p.cancel and p.done: the call of Start they belong to, or None
  stopped,    \* p.stopped
  seen,       \* the cancel and done each call of Stop read under the mutex
  ended,      \* the callers' contexts that ended
  cancelled,  \* the derived contexts that were cancelled
  loop,       \* the goroutine of each call: "none", "begin", "select", "task" or "exited"
  armed,      \* p.timer is running or has fired
  closed      \* how often each done channel was closed

callers == <<pc, seen>>
vars == <<callers, owner, stopped, ended, cancelled, loop, armed, closed>>

ctxDone(s) == s \in ended \/ s \in cancelled

-----------------------------------------------------------------------------
(* Start and Stop *)

mayStart == owner = None /\ ~stopped

Start(s) ==
  /\ pc[s] = "idle"
  /\ pc' = [pc EXCEPT ![s] = "returned"]
  /\ IF mayStart
     THEN /\ owner' = s
          /\ loop' = [loop EXCEPT ![s] = "begin"]
     ELSE UNCHANGED <<owner, loop>>
  /\ UNCHANGED <<seen, stopped, ended, cancelled, armed, closed>>

Stop(t) ==
  /\ pc[t] = "idle"
  /\ stopped' = TRUE
  /\ seen' = [seen EXCEPT ![t] = owner]
  /\ pc' = [pc EXCEPT ![t] = IF owner = None THEN "returned" ELSE "cancel"]
  /\ UNCHANGED <<owner, ended, cancelled, loop, armed, closed>>

stopCancels(t) ==
  /\ pc[t] = "cancel"
  /\ cancelled' = cancelled \union {seen[t]}
  /\ pc' = [pc EXCEPT ![t] = "wait"]
  /\ UNCHANGED <<seen, owner, stopped, ended, loop, armed, closed>>

\* Mutant: Stop returns once it has cancelled the context.
stopDone_Early(t) == TRUE

\* <-done
stopDone(t) == closed[seen[t]] > 0

stopReturns(t) ==
  /\ pc[t] = "wait"
  /\ stopDone(t)
  /\ pc' = [pc EXCEPT ![t] = "returned"]
  /\ UNCHANGED <<seen, owner, stopped, ended, cancelled, loop, armed, closed>>

-----------------------------------------------------------------------------
(* The goroutine *)

loopBegins(s) ==
  /\ loop[s] = "begin"
  /\ loop' = [loop EXCEPT ![s] = "select"]
  /\ armed' = TRUE
  /\ UNCHANGED <<callers, owner, stopped, ended, cancelled, closed>>

\* close(p.done)
closeDone == closed' = [closed EXCEPT ![owner] = @ + 1]

\* The context is done: the deferred calls stop the timer, cancel, and close the channel.
loopEnds(s) ==
  /\ loop[s] = "select"
  /\ ctxDone(s)
  /\ loop' = [loop EXCEPT ![s] = "exited"]
  /\ armed' = FALSE
  /\ cancelled' = cancelled \union {owner}
  /\ closeDone
  /\ UNCHANGED <<callers, owner, stopped, ended>>

timerFires(s) ==
  /\ loop[s] = "select"
  /\ armed
  /\ armed' = FALSE
  /\ loop' = [loop EXCEPT ![s] = "task"]
  /\ UNCHANGED <<callers, owner, stopped, ended, cancelled, closed>>

\* Mutant: the timer is armed only for the first invocation.
reset_Never == UNCHANGED armed

\* p.timer.Reset(p.nextDelay())
reset == armed' = TRUE

run(s) ==
  /\ loop[s] = "task"
  /\ loop' = [loop EXCEPT ![s] = "select"]
  /\ reset
  /\ UNCHANGED <<callers, owner, stopped, ended, cancelled, closed>>

\* The context a caller gave to Start ends.
contextEnds(s) ==
  /\ s \notin ended
  /\ ended' = ended \union {s}
  /\ UNCHANGED <<callers, owner, stopped, cancelled, loop, armed, closed>>

-----------------------------------------------------------------------------

Init ==
  /\ pc = [c \in Starters \union Stoppers |-> "idle"]
  /\ owner = None
  /\ stopped = FALSE
  /\ seen = [t \in Stoppers |-> None]
  /\ ended = {}
  /\ cancelled = {}
  /\ loop = [s \in Starters |-> "none"]
  /\ armed = FALSE
  /\ closed = [s \in Starters |-> 0]

Next ==
  \/ \E s \in Starters : Start(s) \/ loopBegins(s) \/ loopEnds(s) \/ timerFires(s) \/ run(s)
  \/ \E t \in Stoppers : Stop(t) \/ stopCancels(t) \/ stopReturns(t)
  \/ \E s \in Starters : contextEnds(s)

\* Goroutines run, timers fire and a task returns ("return promptly when ctx.Done() is
\* closed").  A select with both cases ready picks either at random, so it does not
\* prefer the timer for ever.  Nobody has to call Start or Stop, and no context has to end.
looping(s) == loopBegins(s) \/ timerFires(s) \/ run(s)
stopping(t) == stopCancels(t) \/ stopReturns(t)

Spec ==
  /\ Init /\ [][Next]_vars
  /\ \A s \in Starters : WF_vars(looping(s)) /\ SF_vars(loopEnds(s))
  /\ \A t \in Stoppers : WF_vars(stopping(t))

-----------------------------------------------------------------------------
(* Properties *)

\* The state is well formed, and no channel is closed twice (which would panic).
TypeOK ==
  /\ pc \in [Starters \union Stoppers -> {"idle", "cancel", "wait", "returned"}]
  /\ owner \in Starters \union {None}
  /\ stopped \in BOOLEAN
  /\ seen \in [Stoppers -> Starters \union {None}]
  /\ ended \subseteq Starters
  /\ cancelled \subseteq Starters
  /\ loop \in [Starters -> {"none", "begin", "select", "task", "exited"}]
  /\ armed \in BOOLEAN
  /\ closed \in [Starters -> 0..1]

\* Whoever calls Start, and however often, one goroutine runs the task: invocations never
\* overlap, and p.timer has one user.
OneLoop == \A s \in Starters : loop[s] # "none" => owner = s

\* "once Stop returns the scheduler is stopped and will not (re)start": no invocation is
\* running, and none will.
StoppedForGood ==
  (\E t \in Stoppers : pc[t] = "returned") => \A s \in Starters : loop[s] \in {"none", "exited"}

\* Stop returns, though contexts end, others call Stop, and Start races it.  Once launched,
\* the goroutine keeps running the task until its context is done, and ends, rather than
\* leaks, when it is.
RunsUntilDone ==
  /\ \A t \in Stoppers : pc[t] \in {"cancel", "wait"} ~> pc[t] = "returned"
  /\ \A s \in Starters :
       /\ loop[s] # "none" ~> (loop[s] = "task" \/ ctxDone(s))
       /\ (loop[s] # "none" /\ ctxDone(s)) ~> loop[s] = "exited"

=============================================================================
