-------------------------- MODULE SupervisorProofs --------------------------
(***************************************************************************)
(* Proofs about Supervisor: the type invariant, which says that cmd is set *)
(* only while the supervisor waits and that one serve at most has the      *)
(* port, and that no process has a serve nobody waits for.                 *)
(***************************************************************************)
EXTENDS Supervisor, TLAPS

\* 0, which stands for nil, is no serve.
LEMMA NilIsNoServe == 0 \notin Serves
  BY DEF Serves

\* A step of a supervisor: only StartChild, ContextKills and the end of a wait
\* touch the child.
LEMMA SupervisorTypes ==
  ASSUME TypeOK, NEW a \in Agents, Run(a)
  PROVE  TypeOK'
<1> USE DEF TypeOK, Listening, Alive, processes, serves, Goto
<1>1. ASSUME NEW healthy \in BOOLEAN, Check(a, healthy) PROVE TypeOK'
  BY <1>1 DEF Check, Working, Cancelled
<1>2. ASSUME Returns(a) PROVE TypeOK'
  BY <1>2 DEF Returns, Working, Cancelled
<1>3. ASSUME Wakes(a) PROVE TypeOK'
  BY <1>3 DEF Wakes, Working
<1>4. ASSUME StartChild(a) PROVE TypeOK'
  <2>1. PICK c \in Serves :
          /\ ~Alive(c)
          /\ state' = [state EXCEPT ![c] = "booting"]
          /\ owner' = [owner EXCEPT ![c] = a]
          /\ cmd' = [cmd EXCEPT ![a] = c]
    BY <1>4 DEF StartChild
  <2>2. sup' = [sup EXCEPT ![a] = "wait"] /\ UNCHANGED <<processes, faults>> /\ Working(a)
    BY <1>4 DEF StartChild
  <2>3. c # 0
    BY NilIsNoServe
  <2>4. \A b \in Agents : cmd'[b] # 0 <=> sup'[b] = "wait"
    BY <2>1, <2>2, <2>3
  <2>5. Listening' \subseteq Listening
    BY <2>1
  <2> QED
    BY <2>1, <2>2, <2>4, <2>5 DEF Working
<1>5. ASSUME StartFails(a) PROVE TypeOK'
  BY <1>5 DEF StartFails, Working
<1>6. ASSUME ContextKills(a) PROVE TypeOK'
  <2>1. cmd[a] \in Serves
    BY <1>6 DEF ContextKills
  <2> QED
    BY <1>6, <2>1 DEF ContextKills, Dies, Working
<1>7. ASSUME WaitReturns(a) PROVE TypeOK'
  BY <1>7 DEF WaitReturns, Working, Cancelled
<1> QED
  BY <1>1, <1>2, <1>3, <1>4, <1>5, <1>6, <1>7 DEF Run

\* A process that ends has nothing to wait for any more.
LEMMA ProcessTypes ==
  ASSUME TypeOK, NEW a \in Agents, Process(a)
  PROVE  TypeOK'
<1> USE BoundsAssumption DEF TypeOK, Listening, Alive, processes, serves, Goto
<1>1. ASSUME ServeFound(a) PROVE TypeOK'
  BY <1>1 DEF ServeFound
<1>2. ASSUME Cancel(a) PROVE TypeOK'
  BY <1>2 DEF Cancel
<1>3. ASSUME Ends(a), exits' \in 0 .. MaxExits PROVE TypeOK'
  BY <1>3 DEF Ends
<1>4. ASSUME Exit(a) PROVE TypeOK'
  BY <1>3, <1>4 DEF Exit
<1>5. ASSUME Kill(a) PROVE TypeOK'
  BY <1>3, <1>5 DEF Kill
<1>6. ASSUME Restart(a) PROVE TypeOK'
  BY <1>6 DEF Restart
<1> QED
  BY <1>1, <1>2, <1>4, <1>5, <1>6 DEF Process

\* A serve listens only once nobody else does.
LEMMA ServeTypes ==
  ASSUME TypeOK, NEW c \in Serves, Serve(c)
  PROVE  TypeOK'
<1> USE BoundsAssumption DEF TypeOK, Listening, Alive, processes, serves, Dies
<1>1. CASE Binds(c)
  BY <1>1 DEF Binds
<1>2. CASE Crashes(c)
  BY <1>2 DEF Crashes
<1>3. CASE Hangs(c)
  BY <1>3 DEF Hangs
<1> QED
  BY <1>1, <1>2, <1>3 DEF Serve

\* The type invariant (supervisor.go, Run and stop): cmd is set while the
\* supervisor waits for its child and only then.
THEOREM TypeCorrect == Spec => []TypeOK
<1>1. Init => TypeOK
  BY BoundsAssumption DEF Init, TypeOK, Listening
<1>2. TypeOK /\ [Next]_vars => TypeOK'
  <2>1. ASSUME TypeOK, UNCHANGED vars PROVE TypeOK'
    BY <2>1 DEF TypeOK, Listening, vars, processes, serves
  <2> QED
    BY <2>1, SupervisorTypes, ProcessTypes, ServeTypes DEF Next
<1> QED
  BY <1>1, <1>2, PTL DEF Spec

-----------------------------------------------------------------------------
\* A supervisor starts a child only after the last one was reaped.
LEMMA SupervisorWaits ==
  ASSUME TypeOK, ChildrenAreWaitedFor, NEW a \in Agents, Run(a)
  PROVE  ChildrenAreWaitedFor'
<1> USE AgentsAssumption DEF TypeOK, ChildrenAreWaitedFor, Children, Alive, processes, serves, Goto
<1>1. ASSUME UNCHANGED <<cmd, serves>> PROVE ChildrenAreWaitedFor'
  BY <1>1
<1>2. ASSUME StartChild(a) PROVE ChildrenAreWaitedFor'
  <2>1. PICK c \in Serves :
          /\ ~Alive(c)
          /\ state' = [state EXCEPT ![c] = "booting"]
          /\ owner' = [owner EXCEPT ![c] = a]
          /\ cmd' = [cmd EXCEPT ![a] = c]
    BY <1>2 DEF StartChild
  <2>2. cmd[a] = 0
    BY <1>2 DEF StartChild
  <2>3. Children(a) = {}
    BY <2>2, NilIsNoServe
  <2> QED
    BY <2>1, <2>3
<1>3. ASSUME ContextKills(a) PROVE ChildrenAreWaitedFor'
  BY <1>3 DEF ContextKills, Dies
<1>4. ASSUME WaitReturns(a) PROVE ChildrenAreWaitedFor'
  <2>1. Children(a) = {}
    BY <1>4 DEF WaitReturns
  <2> QED
    BY <1>4, <2>1 DEF WaitReturns
<1> QED
  BY <1>1, <1>2, <1>3, <1>4 DEF Run, Check, Returns, Wakes, StartFails

\* The serve of a process that ends is its child no longer.
LEMMA ProcessWaits ==
  ASSUME TypeOK, ChildrenAreWaitedFor, NEW a \in Agents, Process(a)
  PROVE  ChildrenAreWaitedFor'
<1> USE AgentsAssumption DEF TypeOK, ChildrenAreWaitedFor, Children, Alive, serves
<1>1. ASSUME UNCHANGED <<cmd, serves>> PROVE ChildrenAreWaitedFor'
  BY <1>1
<1>2. ASSUME Ends(a) PROVE ChildrenAreWaitedFor'
  BY <1>2 DEF Ends
<1> QED
  BY <1>1, <1>2 DEF Process, ServeFound, Cancel, Exit, Kill, Restart

LEMMA ServeWaits ==
  ASSUME TypeOK, ChildrenAreWaitedFor, NEW c \in Serves, Serve(c)
  PROVE  ChildrenAreWaitedFor'
<1> USE AgentsAssumption DEF TypeOK, ChildrenAreWaitedFor, Children, Alive, Dies, processes
<1>1. CASE Binds(c)
  BY <1>1 DEF Binds
<1>2. CASE Crashes(c)
  BY <1>2 DEF Crashes
<1>3. CASE Hangs(c)
  BY <1>3 DEF Hangs
<1> QED
  BY <1>1, <1>2, <1>3 DEF Serve

\* README, "`run` optionally supervises `codexbar serve`", and supervisor.go's
\* Run: however processes are cancelled, killed and restarted and serves fail, a
\* living process has no serve but the one its supervisor waits for.
THEOREM NoStrayServe == Spec => []ChildrenAreWaitedFor
<1>1. Init => ChildrenAreWaitedFor
  BY AgentsAssumption DEF Init, ChildrenAreWaitedFor, Children, Alive
<1>2. TypeOK /\ ChildrenAreWaitedFor /\ [Next]_vars => ChildrenAreWaitedFor'
  <2>1. ASSUME ChildrenAreWaitedFor, UNCHANGED vars PROVE ChildrenAreWaitedFor'
    BY <2>1 DEF ChildrenAreWaitedFor, Children, Alive, vars, serves
  <2> QED
    BY <2>1, SupervisorWaits, ProcessWaits, ServeWaits DEF Next
<1> QED
  BY <1>1, <1>2, TypeCorrect, PTL DEF Spec
=============================================================================
