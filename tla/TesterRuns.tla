----------------------------- MODULE TesterRuns -----------------------------
(***************************************************************************)
(* The end-to-end tester: its API, its runs and its shutdown.              *)
(*                                                                         *)
(* A request is validated by the handler and again by the runner, a run    *)
(* gets a tenant and keys of its own, executes one suite and returns what  *)
(* it holds.  It may be stopped at any instruction, by its owner or by the *)
(* shutdown of the process, and any call may fail.  A creation may fail    *)
(* for the run and have happened nevertheless: its answer was cut off, or  *)
(* could not be read.  A removal that was sent on a live context counts as *)
(* done: the clean-up is best effort, what is checked is that it is        *)
(* attempted.  Panics, which the run recovers from, are left out.          *)
(***************************************************************************)
EXTENDS TesterSuites, FiniteSets

CONSTANT Request       \* requests: [type, suite, mode, supplied, keyed, channelMode, metrics]

VARIABLES
  cfg,        \* the configuration of the run
  status,     \* TestRun.Status, or "none", "rejected" (400) and "error" (500)
  frames,     \* the call stack of the run's goroutine, the innermost function last
  held,       \* what the run was told it created, and did not yet remove on a live context
  unheard,    \* what exists although its creation failed for the run
  cancelled,  \* the context of the run has ended
  process     \* "up", "stopping" (StopAll done), "waiting" (HTTP closed), "down"

vars == <<cfg, status, frames, held, unheard, cancelled, process>>

(***************************************************************************)
(* What the two boundaries accept.                                         *)
(***************************************************************************)
InferMode(c) ==
  IF c.mode # "" THEN c.mode
  ELSE IF c.type = "validate" /\ c.suite \in {"api-key", "upgrade"} THEN c.suite
  ELSE "jwt"

HandlerAccepts(c) ==
  LET m == InferMode(c) IN
  /\ c.type \in {"smoke", "load", "stress", "soak", "validate"}
  /\ m = "mixed" => c.type \in {"load", "soak"}
  /\ m \in {"api-key", "upgrade"} => c.type = "validate"
  /\ m = "api-key" => c.suite \in {"", "api-key", "rest-publish"}
  /\ m = "upgrade" => c.suite \in {"", "upgrade"}
  /\ c.suite = "revocation" => c.type \in {"stress", "soak"}

StartAccepts(c) ==
  LET m == InferMode(c) IN
  /\ m = "mixed" => c.type \notin {"validate", "smoke", "stress"}
  /\ m = "api-key" => c.type = "validate" /\ c.suite \in {"", "api-key", "rest-publish"}
  /\ m = "upgrade" => c.type = "validate" /\ c.suite \in {"", "upgrade"}
  /\ c.suite = "revocation" => c.type \in {"stress", "soak"}

(***************************************************************************)
(* execute, as a program.                                                  *)
(***************************************************************************)
\* A tenant and a key, or only a tenant; failures fail the run.
AuthSetup(c) ==
  Err(IF c.mode = "api-key" THEN (IF c.supplied THEN <<>> ELSE SetupAPIKeyOnly)
      ELSE IF c.supplied THEN SetupIn ELSE Setup("run"))

\* Every mode but jwt needs an API key: the one of the request or of the
\* tester's configuration, else one made for the run.
RunKey(c) == IF c.mode = "jwt" \/ c.keyed THEN <<>> ELSE Err(selfProvisionAPIKey)

Dispatch(c) ==
  IF c.mode = "mixed" THEN <<Need(IF c.type = "load" THEN "runLoadMixed" ELSE "runSoakMixed")>>
  ELSE CASE c.type = "smoke" -> <<Need("runSmoke")>>
         [] c.type = "load" -> <<Need(IF c.channelMode THEN "runLoadChannelMode" ELSE "runLoad")>>
         [] c.type = "stress" -> <<Need(IF c.suite = "revocation" THEN "runStressRevocation" ELSE "runStress")>>
         [] c.type = "soak" -> <<Need(IF c.suite = "revocation"
                                      THEN (IF c.metrics THEN "runSoakRevocation+metrics" ELSE "runSoakRevocation")
                                      ELSE "runSoak")>>
         [] c.type = "validate" -> runValidate(IF c.suite = "" THEN "auth" ELSE c.suite)

execute(c) == Err(<<Require>>) \o AuthSetup(c) \o RunKey(c) \o Dispatch(c)

Code(f) == IF f.p = "execute" THEN execute(cfg) ELSE Program(f.p)

Frame(p) == [p |-> p, pc |-> 1, defers |-> <<>>, ret |-> FALSE, err |-> FALSE]

(***************************************************************************)
(* The API.                                                                *)
(***************************************************************************)
Init ==
  /\ cfg \in {[r EXCEPT !.mode = InferMode(r)] : r \in Request}
  /\ status = "none"
  /\ frames = <<>>
  /\ held = {} /\ unheard = {}
  /\ cancelled = FALSE
  /\ process = "up"

\* The handler answers 400, Start's refusal becomes a 500, else a run starts.
startTest ==
  /\ status = "none"
  /\ process \in {"up", "stopping"}
  /\ status' = IF ~HandlerAccepts(cfg) THEN "rejected"
               ELSE IF ~StartAccepts(cfg) THEN "error" ELSE "running"
  /\ frames' = IF status' = "running" THEN <<Frame("execute")>> ELSE <<>>
  /\ UNCHANGED <<cfg, held, unheard, cancelled, process>>

\* A run whose goroutine has ended no longer reads its context.
stopTest ==
  /\ frames # <<>>
  /\ process \in {"up", "stopping"}
  /\ ~cancelled
  /\ cancelled' = TRUE
  /\ UNCHANGED <<cfg, status, frames, held, unheard, process>>

\* A signal: StopAll cancels the runs there are.
StopAll ==
  /\ process = "up"
  /\ process' = "stopping"
  /\ cancelled' = (cancelled \/ frames # <<>>)
  /\ UNCHANGED <<cfg, status, frames, held, unheard>>

\* The server stops accepting and its handlers return; when they do not in
\* time the process exits without waiting for the runs.
HTTPShutdown ==
  /\ process = "stopping"
  /\ process' \in {"waiting", "down"}
  /\ UNCHANGED <<cfg, status, frames, held, unheard, cancelled>>

Wait ==
  /\ process = "waiting"
  /\ frames = <<>>
  /\ process' = "down"
  /\ UNCHANGED <<cfg, status, frames, held, unheard, cancelled>>

(***************************************************************************)
(* One instruction of the innermost function.                              *)
(***************************************************************************)
Top == frames[Len(frames)]
Returning == Top.ret \/ Top.pc > Len(Code(Top))
Current == Code(Top)[Top.pc]

\* Mutant: a cancelled context does not wake the reader or the monitor.
GoneWhenClosed(r) == r \notin held

\* A goroutine ends when its connection is closed or its context ends.
Gone(r) == r \notin held \/ cancelled

\* The effect of removing r: nothing when the call is refused by its context.
Removed(i) == IF i.fresh \/ ~cancelled THEN held \ {i.r} ELSE held

Advance == [frames EXCEPT ![Len(frames)].pc = @ + 1]
Leave(i) == [frames EXCEPT ![Len(frames)] =
               [@ EXCEPT !.ret = TRUE, !.err = i.err, !.defers = i.ops \o @]]

\* What outlives the process that created it.
Lasting(r) == r[1] \in {"tenant", "key", "apikey"} \/ r \in {G("webhook"), G("wrules")}

\* A call on the context of the run fails when that has ended, and any may fail.
\* One that was sent may have had its effect.
Call(i) ==
  \/ /\ ~cancelled \/ i.fresh
     /\ held' = IF i.op = "create" THEN held \cup {i.r}
                ELSE IF i.op = "rename" /\ i.r \in held THEN (held \ {i.r}) \cup {i.to} ELSE held
     /\ frames' = Advance
     /\ UNCHANGED unheard
  \/ /\ UNCHANGED held
     /\ frames' = IF i.must THEN Leave(i) ELSE Advance
     /\ \/ UNCHANGED unheard
        \/ i.op = "create" /\ ~cancelled /\ Lasting(i.r) /\ unheard' = unheard \cup {i.r}

Instruction ==
  LET i == Current IN
  IF i.op \in {"create", "require", "rename"} THEN Call(i)
  ELSE /\ UNCHANGED unheard
       /\ CASE i.op = "alive" -> /\ \/ ~(cancelled /\ i.must) /\ frames' = Advance
                                    \/ cancelled /\ frames' = Leave(i)
                                 /\ UNCHANGED held
            [] i.op = "remove" -> held' = Removed(i) /\ frames' = Advance
            [] i.op = "defer" -> /\ frames' = [Advance EXCEPT ![Len(frames)].defers = i.ops \o @]
                                 /\ UNCHANGED held
            [] i.op = "go" -> held' = held \cup {i.r} /\ frames' = Advance
            [] i.op = "join" -> Gone(i.r) /\ frames' = Advance /\ UNCHANGED held
            [] i.op = "call" -> frames' = Append(frames, Frame(i.p)) /\ UNCHANGED held
            [] OTHER -> frames' = Advance /\ UNCHANGED held

Step ==
  /\ ~Returning
  /\ Instruction
  /\ UNCHANGED <<cfg, status, cancelled, process>>

\* A deferred removal or wait.
Deferred ==
  /\ Returning
  /\ Top.defers # <<>>
  /\ Len(frames) = 1 => status # "running"
  /\ LET i == Head(Top.defers) IN
     /\ i.op = "join" => Gone(i.r)
     /\ held' = IF i.op = "remove" THEN Removed(i) ELSE held
  /\ frames' = [frames EXCEPT ![Len(frames)] = [@ EXCEPT !.ret = TRUE, !.defers = Tail(@)]]
  /\ UNCHANGED <<cfg, status, unheard, cancelled, process>>

\* The function has returned: the caller goes on, or returns the error.
Return ==
  /\ Returning
  /\ Top.defers = <<>>
  /\ Len(frames) > 1
  /\ LET n == Len(frames) - 1
         f == frames[n]
         fails == Top.err /\ Code(f)[f.pc].must
     IN frames' = [SubSeq(frames, 1, n) EXCEPT
                     ![n] = IF fails THEN [f EXCEPT !.ret = TRUE, !.err = TRUE]
                            ELSE [f EXCEPT !.pc = @ + 1]]
  /\ UNCHANGED <<cfg, status, held, unheard, cancelled, process>>

\* The body of execute, or failRun, sets the status; the clean-ups deferred by
\* execute run after that.
SetStatus ==
  /\ status = "running" /\ Len(frames) = 1 /\ Returning
  /\ status' = IF Top.err THEN "failed" ELSE IF cancelled THEN "stopped" ELSE "complete"
  /\ UNCHANGED <<cfg, frames, held, unheard, cancelled, process>>

\* execute has returned.
Finish ==
  /\ status # "running" /\ Len(frames) = 1 /\ Top.defers = <<>>
  /\ frames' = <<>>
  /\ UNCHANGED <<cfg, status, held, unheard, cancelled, process>>

Execute == process # "down" /\ frames # <<>> /\ (Step \/ Deferred \/ Return \/ SetStatus \/ Finish)

Next == startTest \/ stopTest \/ StopAll \/ HTTPShutdown \/ Wait \/ Execute

\* Calls have timeouts and goroutines are scheduled; the process, once told
\* to stop, goes on to do so.
Fairness == WF_vars(Execute) /\ WF_vars(HTTPShutdown) /\ WF_vars(Wait)

Spec == Init /\ [][Next]_vars /\ Fairness

(***************************************************************************)
(* Properties.                                                             *)
(***************************************************************************)
Kind == {"tenant", "key", "apikey", "config", "conn", "go"}

TypeOK ==
  /\ status \in {"none", "rejected", "error", "running", "complete", "failed", "stopped"}
  /\ \A r \in held : r[1] \in Kind
  /\ \A r \in unheard : Lasting(r)
  /\ cancelled \in BOOLEAN
  /\ process \in {"up", "stopping", "waiting", "down"}

\* What the handler accepts, the runner accepts: the two validations, "kept in
\* lockstep", never turn a valid request into an internal error.
Lockstep == status # "error"

\* The goroutine of a run has ended.
Ended == status \in {"complete", "failed", "stopped"} /\ frames = <<>>

\* A run whose goroutine has ended, in whatever way and however far it got, has
\* given back every tenant it was told it created, the signing keys of those and
\* of its own tenant, its API key and its webhooks.  And when the creation of its
\* own tenant or key took effect unheard, or its API key has no readable id, the
\* run has failed: what is left for manual clean-up is never left by a run that
\* reports success.
GivenBack ==
  Ended =>
    /\ \A r \in held : r[1] # "tenant"
    /\ held \cap {K("run"), A("run"), G("webhook"), G("wrules")} = {}
    /\ unheard \cap {T("run"), K("run"), A("run")} # {} => status = "failed"

\* A run that is stopped ends, whatever it is waiting for, unless the process
\* exits first.
StopEnds == cancelled ~> (frames = <<>> \/ process = "down")

\* "Drain monitoring goroutine": a soak:revocation run that reached its
\* duration waits for its monitor and then ends by itself.
RunEnds == (status = "running") ~> (frames = <<>> \/ process = "down")

\* "Cleanup: close all clients on exit": no suite leaves a connection open.
ClientsClosed ==
  Ended => \A r \in held : r[1] # "conn"
=============================================================================
