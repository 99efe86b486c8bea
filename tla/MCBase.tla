------------------------------- MODULE MCBase -------------------------------
(***************************************************************************)
(* The components of the base library: CRWAccess, the docker and an event  *)
(* processor.  They share no state, so a behaviour is one of one component *)
(* chosen in the initial state, while the others stay as they began: an    *)
(* interleaving would show nothing that each alone does not.               *)
(***************************************************************************)
EXTENDS RWAccess, Docker, EventProc

VARIABLE part

baseVars == <<part, vars, dockerVars, eventVars>>

BaseInit == part \in {"lock", "docker", "events"} /\ Init /\ DockerInit /\ EventInit

BaseNext ==
  /\ UNCHANGED part
  /\ \/ part = "lock" /\ Next /\ UNCHANGED <<dockerVars, eventVars>>
     \/ part = "docker" /\ DockerNext /\ UNCHANGED <<vars, eventVars>>
     \/ part = "events" /\ EventNext /\ UNCHANGED <<vars, dockerVars>>

\* Each component with the fairness that its module assumes
BaseSpec ==
  /\ BaseInit
  /\ [][BaseNext]_baseVars
  /\ \A t \in Thread : WF_vars(part = "lock" /\ Continue(t))
  /\ WF_dockerVars(part = "docker" /\ Main)
  /\ WF_dockerVars(part = "docker" /\ TimerProc)
  /\ \A c \in Comp : WF_dockerVars(part = "docker" /\ ThreadRuns(c))
  /\ WF_eventVars(part = "events" /\ Halted)
  /\ \A t \in EventThread : WF_eventVars(part = "events" /\ EventContinue(t))

\* Nobody waits for ever.  A thread that waits for the lock gets it; CDocker::Run,
\* CDocker::Exit and CEventProc::HandleHalt return, whatever fails before them;
\* delayed threads run, timers fire, and posted events are taken
\* (CEventQueue::AddNew wakes enough threads)
NobodyStuck ==
  /\ part = "lock" => WaiterServed
  /\ part = "docker" => RunReturns /\ ExitReturns /\ DelayedRuns /\ TimerFires
  /\ HaltReturns /\ EventsTaken
=============================================================================
