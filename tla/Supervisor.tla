----------------------------- MODULE Supervisor -----------------------------
(***************************************************************************)
(* The supervision of "codexbar serve", internal/codexbar/supervisor.go,   *)
(* in every process of the machine that has manage_serve set: the agent,   *)
(* which waits for its supervisor before it exits, and once, which does    *)
(* not (internal/app/app.go).  They share one port.                        *)
(*                                                                         *)
(* ServeSupervisor.Run asks for /health, starts a child when nobody        *)
(* answers and then does nothing but wait for that child to exit.  The     *)
(* serves, whoever started them, and the port are the environment: one of  *)
(* them has the port, and one that hangs keeps it.                         *)
(***************************************************************************)
EXTENDS Integers, FiniteSets

CONSTANTS
    Agents,     \* the processes
    Nobody,     \* the owner of a serve that no living process has started
    Once,       \* those of them that run the once command
    MaxFaults,  \* bound of the exploration: serves that crash or hang
    MaxExits    \* bound of the exploration: processes that end

ASSUME AgentsAssumption == Once \subseteq Agents /\ Nobody \notin Agents
ASSUME BoundsAssumption == MaxFaults \in Nat /\ MaxExits \in Nat

\* One for the serve each process waits for, one for each that may be left
\* behind by a process, and one that the user has started.
Serves == 1 .. (Cardinality(Agents) + MaxExits + 1)

VARIABLES
    proc,       \* "running", "serving" (once: waitForServe is over), "ending", "exited"
    sup,        \* ServeSupervisor.Run: "top", "healthy", "start", "wait", "backoff", "returned"
    cmd,        \* ServeSupervisor.cmd: the serve it waits for, 0 for nil
    state,      \* each serve: "none", "booting", "serving" or "hung"
    owner,      \* the process that started each serve, or Nobody
    faults, exits

processes == <<proc, exits>>
serves == <<state, owner>>
vars == <<processes, sup, cmd, serves, faults>>

Alive(c) == state[c] # "none"
Children(a) == {c \in Serves : Alive(c) /\ owner[c] = a}
Listening == {c \in Serves : state[c] \in {"serving", "hung"}}
Answering == \E c \in Serves : state[c] = "serving"

\* The context of the supervisor is done.
Cancelled(a) == proc[a] = "ending"
Working(a) == proc[a] # "exited"

Goto(a, where) == sup' = [sup EXCEPT ![a] = where]

-----------------------------------------------------------------------------
(* ServeSupervisor.Run.                                                    *)

\* Healthy: the answer may take longer than the two seconds of the check.
Check(a, healthy) ==
    /\ Working(a) /\ sup[a] = "top" /\ ~Cancelled(a)
    /\ healthy => Answering
    /\ Goto(a, IF healthy THEN "healthy" ELSE "start")
    /\ UNCHANGED <<processes, cmd, serves, faults>>

\* The context is done at the top of the loop, or while the supervisor sleeps;
\* stop() finds no cmd.
Returns(a) ==
    /\ Working(a) /\ sup[a] \in {"top", "healthy", "backoff"} /\ Cancelled(a)
    /\ Goto(a, "returned")
    /\ UNCHANGED <<processes, cmd, serves, faults>>

Wakes(a) ==
    /\ Working(a) /\ sup[a] \in {"healthy", "backoff"}
    /\ Goto(a, "top")
    /\ UNCHANGED <<processes, cmd, serves, faults>>

\* cmd.Start, unless the context is done already.
StartChild(a) ==
    /\ Working(a) /\ sup[a] = "start" /\ ~Cancelled(a)
    /\ \E c \in Serves :
         /\ ~Alive(c) /\ \A d \in Serves : ~Alive(d) => c <= d
         /\ state' = [state EXCEPT ![c] = "booting"]
         /\ owner' = [owner EXCEPT ![c] = a]
         /\ cmd' = [cmd EXCEPT ![a] = c]
    /\ Goto(a, "wait")
    /\ UNCHANGED <<processes, faults>>

StartFails(a) ==
    /\ Working(a) /\ sup[a] = "start"
    /\ Goto(a, "backoff")
    /\ UNCHANGED <<processes, cmd, serves, faults>>

\* Variant of ContextKills: the command is not tied to the context.
ContextKillsNot(a) == FALSE /\ UNCHANGED vars

Dies(c) ==
    /\ state' = [state EXCEPT ![c] = "none"]
    /\ owner' = [owner EXCEPT ![c] = Nobody]

\* exec.CommandContext kills the child once the context is done.
ContextKills(a) ==
    /\ Working(a) /\ Cancelled(a) /\ cmd[a] # 0
    /\ owner[cmd[a]] = a
    /\ Dies(cmd[a])
    /\ UNCHANGED <<processes, sup, cmd, faults>>

\* Variants of WaitReturns: the end of the context is enough; the loop stops at
\* a child that has exited; cmd is not reset.
WaitReturnsEarly(a) ==
    /\ Working(a) /\ sup[a] = "wait"
    /\ owner[cmd[a]] # a \/ Cancelled(a)
    /\ cmd' = [cmd EXCEPT ![a] = 0]
    /\ Goto(a, IF Cancelled(a) THEN "returned" ELSE "backoff")
    /\ UNCHANGED <<processes, serves, faults>>
WaitReturnsOnce(a) ==
    /\ Working(a) /\ sup[a] = "wait" /\ owner[cmd[a]] # a
    /\ cmd' = [cmd EXCEPT ![a] = 0]
    /\ Goto(a, "returned")
    /\ UNCHANGED <<processes, serves, faults>>

WaitReturnsKept(a) ==
    /\ Working(a) /\ sup[a] = "wait" /\ owner[cmd[a]] # a
    /\ Goto(a, IF Cancelled(a) THEN "returned" ELSE "backoff")
    /\ UNCHANGED <<processes, cmd, serves, faults>>

\* cmd.Wait returns when the child has exited.
WaitReturns(a) ==
    /\ Working(a) /\ sup[a] = "wait" /\ owner[cmd[a]] # a
    /\ cmd' = [cmd EXCEPT ![a] = 0]
    /\ Goto(a, IF Cancelled(a) THEN "returned" ELSE "backoff")
    /\ UNCHANGED <<processes, serves, faults>>

-----------------------------------------------------------------------------
(* The processes.                                                          *)

\* once: waitForServe gets an answer.
ServeFound(a) ==
    /\ a \in Once /\ proc[a] = "running" /\ Answering
    /\ proc' = [proc EXCEPT ![a] = "serving"]
    /\ UNCHANGED <<exits, sup, cmd, serves, faults>>

\* run: a signal.  once: its work is over, waitForServe has failed, or a
\* signal; managedCancel is deferred.
Cancel(a) ==
    /\ proc[a] \in {"running", "serving"}
    /\ exits < MaxExits /\ exits' = exits + 1
    /\ proc' = [proc EXCEPT ![a] = "ending"]
    /\ UNCHANGED <<sup, cmd, serves, faults>>

\* The process is gone; a child that is still alive belongs to nobody.
Ends(a) ==
    /\ proc' = [proc EXCEPT ![a] = "exited"]
    /\ owner' = [c \in Serves |-> IF owner[c] = a THEN Nobody ELSE owner[c]]
    /\ cmd' = [cmd EXCEPT ![a] = 0]
    /\ Goto(a, "returned")
    /\ UNCHANGED <<state, faults>>

\* run: wg.Wait includes the supervisor.  once returns at once.
Exit(a) ==
    /\ proc[a] = "ending"
    /\ a \in Once \/ sup[a] = "returned"
    /\ Ends(a)
    /\ UNCHANGED exits

Kill(a) ==
    /\ Working(a) /\ exits < MaxExits /\ exits' = exits + 1
    /\ Ends(a)

\* launchd starts the agent again, the user runs once again.
Restart(a) ==
    /\ proc[a] = "exited"
    /\ proc' = [proc EXCEPT ![a] = "running"]
    /\ Goto(a, "top")
    /\ UNCHANGED <<exits, cmd, serves, faults>>

-----------------------------------------------------------------------------
(* "codexbar serve".                                                       *)

Binds(c) ==
    /\ state[c] = "booting"
    /\ IF Listening = {}
       THEN state' = [state EXCEPT ![c] = "serving"] /\ UNCHANGED owner
       ELSE Dies(c)
    /\ UNCHANGED <<processes, sup, cmd, faults>>

Crashes(c) ==
    /\ Alive(c)
    /\ faults < MaxFaults /\ faults' = faults + 1
    /\ Dies(c)
    /\ UNCHANGED <<processes, sup, cmd>>

\* The serve no longer answers: its own doing, or it is stuck on a pipe that
\* nobody reads, because logPipe has met a line longer than its buffer.
Hangs(c) ==
    /\ state[c] = "serving"
    /\ faults < MaxFaults /\ faults' = faults + 1
    /\ state' = [state EXCEPT ![c] = "hung"]
    /\ UNCHANGED <<processes, sup, cmd, owner>>

-----------------------------------------------------------------------------
\* The user may have a serve of his own.
Init ==
    /\ proc = [a \in Agents |-> "running"]
    /\ sup = [a \in Agents |-> "top"]
    /\ cmd = [a \in Agents |-> 0]
    /\ \E first \in {"none", "serving"} :
         state = [c \in Serves |-> IF c = 1 THEN first ELSE "none"]
    /\ owner = [c \in Serves |-> Nobody]
    /\ faults = 0 /\ exits = 0

Run(a) ==
    \/ \E healthy \in BOOLEAN : Check(a, healthy)
    \/ Returns(a) \/ Wakes(a) \/ StartChild(a) \/ StartFails(a)
    \/ ContextKills(a) \/ WaitReturns(a)

Process(a) == ServeFound(a) \/ Cancel(a) \/ Exit(a) \/ Kill(a) \/ Restart(a)

Serve(c) == Binds(c) \/ Crashes(c) \/ Hangs(c)

Next == (\E a \in Agents : Run(a) \/ Process(a)) \/ (\E c \in Serves : Serve(c))

Spec == Init /\ [][Next]_vars

\* Goroutines run, the runtime kills and reaps, a serve ends up with the port or
\* without it, and a program that can be started is started at last.  Nothing
\* makes anybody cancel, restart, or a serve fail.
Fairness ==
    /\ \A a \in Agents :
         /\ WF_vars(\E healthy \in BOOLEAN : Check(a, healthy))
         /\ SF_vars(Returns(a)) /\ WF_vars(Wakes(a))
         /\ WF_vars(StartChild(a) \/ StartFails(a)) /\ SF_vars(StartChild(a))
         /\ WF_vars(ContextKills(a)) /\ WF_vars(WaitReturns(a))
         /\ WF_vars(Exit(a))
    /\ \A c \in Serves : WF_vars(Binds(c))

FairSpec == Spec /\ Fairness

-----------------------------------------------------------------------------
(* Properties.                                                             *)

\* The type invariant; cmd is set only while the supervisor waits, so that the
\* SIGTERM of stop() is never sent.
TypeOK ==
    /\ proc \in [Agents -> {"running", "serving", "ending", "exited"}]
    /\ sup \in [Agents -> {"top", "healthy", "start", "wait", "backoff", "returned"}]
    /\ cmd \in [Agents -> Serves \cup {0}]
    /\ \A a \in Agents :
         /\ proc[a] = "serving" => a \in Once
         /\ cmd[a] # 0 <=> sup[a] = "wait"
         /\ proc[a] = "exited" => sup[a] = "returned"
    /\ state \in [Serves -> {"none", "booting", "serving", "hung"}]
    /\ owner \in [Serves -> Agents \cup {Nobody}]
    /\ \A c, d \in Listening : c = d
    /\ faults \in 0 .. MaxFaults /\ exits \in 0 .. MaxExits

\* README: "`run` optionally supervises `codexbar serve`".  A living process
\* has at most one serve running, the one its supervisor waits for, and none once
\* the supervisor has returned: an agent that ends on a signal leaves no serve
\* behind to hold the port against its successor.
ChildrenAreWaitedFor == \A a \in Agents : Children(a) \subseteq {cmd[a]}

\* App.Run's wg.Wait returns after a signal whatever the child does: one that
\* hangs and one that is just being started are killed and reaped too.
EndsAfterCancel == \A a \in Agents : proc[a] = "ending" ~> proc[a] = "exited"

\* An agent that keeps running has a serve that answers for good, its own or
\* another's, once serves stop failing: unless one of them hangs on the port, to
\* which a supervisor that waits for its child, or for a port, does nothing.
ServedAgain ==
    \A a \in Agents :
        <>[](proc[a] = "running") /\ <>[](\A c \in Serves : state[c] # "hung")
            => <>[]Answering
=============================================================================
