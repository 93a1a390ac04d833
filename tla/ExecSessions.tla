----------------------------- MODULE ExecSessions -----------------------------
(***************************************************************************)
(* Container shells, SSH commands and SSH forwards of one provider API     *)
(* process, and its shutdown, from src/bin/flash-api.rs.                   *)
(*                                                                         *)
(* A request is checked step by step, takes a permit of the session pool,  *)
(* and becomes a task of its own when its WebSocket is upgraded; the task  *)
(* owns the permit and a process in the Pod.  SIGTERM stops the HTTP       *)
(* server, which waits for requests but not for those tasks.               *)
(***************************************************************************)
EXTENDS Integers, FiniteSets, FiniteSetsExt

CONSTANTS
    Shells, Commands, Forwards,  \* requests to exec, ssh_exec and ssh_forward
    Permits,                     \* FLASH_MAX_EXEC_SESSIONS
    MaxOutput                    \* bound: pieces of output of a process

Sessions == Shells \cup Commands \cup Forwards

ASSUME SessionConstants ==
    /\ Permits \in Nat \ {0}
    /\ MaxOutput \in Nat
    /\ Shells \cap Commands = {}
    /\ (Shells \cup Commands) \cap Forwards = {}
    /\ IsFiniteSet(Sessions)

VARIABLES
    server,    \* "serving", "draining", "drained" (no HTTP left), "exited"
    free,      \* permits of exec_sessions
    pod,       \* the Pod of the service can be entered
    current,   \* the service exists and has the generation of the requests
    sess       \* session -> the request, its task, its process and its client

evars == <<server, free, pod, current, sess>>

(* pc: where the request or its task is.  process: "none", "runs", "exits" *)
(* (has ended by itself) or "gone" (aborted, or its stream broke).  made,  *)
(* got: output the process wrote and the client received.  out, err: the   *)
(* task still reads that stream.  succeeded: how the process ended.        *)
(* result: the status it left.  code: the exit code the client was told.   *)
NoSession == [pc |-> "new", process |-> "none", made |-> 0, got |-> 0, out |-> FALSE,
              err |-> FALSE, succeeded |-> FALSE, result |-> "none", code |-> "none"]

Http == {"scope", "pod", "permit", "check"}
Owns == {"check", "upgrade", "first", "start", "announce", "loop", "status", "tell", "abort"}

Go(s, pc) == sess' = [sess EXCEPT ![s].pc = pc]

(* The task ends: its process is aborted and its permit released.          *)
EndLeavesProcess(s) ==
    /\ sess' = [sess EXCEPT ![s].pc = "over"]
    /\ free' = free + 1
End(s) ==
    /\ sess' = [sess EXCEPT ![s].pc = "over", ![s].out = FALSE, ![s].err = FALSE,
                            ![s].process = IF @ = "none" THEN "none" ELSE "gone"]
    /\ free' = free + 1
-----------------------------------------------------------------------------
(* exec, ssh_exec, ssh_forward: the first look at draining and the signed  *)
(* claims; the service; the Pod; the permit; the second look.              *)
Arrive(s) ==
    /\ sess[s].pc = "new"
    /\ server \in {"serving", "draining"}
    /\ Go(s, IF server = "serving" THEN "scope" ELSE "refused")
    /\ UNCHANGED <<server, free, pod, current>>

Scope(s) ==
    /\ sess[s].pc = "scope"
    /\ Go(s, IF current THEN "pod" ELSE "refused")
    /\ UNCHANGED <<server, free, pod, current>>

CheckPod(s) ==
    /\ sess[s].pc = "pod"
    /\ Go(s, IF pod THEN "permit" ELSE "refused")
    /\ UNCHANGED <<server, free, pod, current>>

TakePermit(s) ==
    /\ sess[s].pc = "permit"
    /\ IF free > 0 THEN Go(s, "check") /\ free' = free - 1
       ELSE Go(s, "refused") /\ UNCHANGED free
    /\ UNCHANGED <<server, pod, current>>

TakeLate(s) ==
    /\ sess[s].pc = "check"
    /\ IF server = "serving" THEN Go(s, "upgrade") /\ free' = free + 1
       ELSE Go(s, "refused") /\ free' = free + 1
    /\ UNCHANGED <<server, pod, current>>
CheckDrainingLeaks(s) ==
    /\ sess[s].pc = "check"
    /\ Go(s, IF server = "serving" THEN "upgrade" ELSE "refused")
    /\ UNCHANGED <<server, free, pod, current>>
CheckDraining(s) ==
    /\ sess[s].pc = "check"
    /\ IF server = "serving" THEN Go(s, "upgrade") /\ UNCHANGED free
       ELSE Go(s, "refused") /\ free' = free + 1
    /\ UNCHANGED <<server, pod, current>>

(* The WebSocket is established, or the client went away before.           *)
Upgrade(s) ==
    /\ sess[s].pc = "upgrade"
    /\ server # "exited"
    /\ \/ Go(s, IF s \in Commands THEN "first" ELSE "start") /\ UNCHANGED free
       \/ End(s)
    /\ UNCHANGED <<server, pod, current>>

(* ssh_exec_process: a valid start message within 15 s, or nothing.        *)
FirstMessage(s) ==
    /\ sess[s].pc = "first"
    /\ server # "exited"
    /\ \/ Go(s, "start") /\ UNCHANGED free
       \/ End(s)
    /\ UNCHANGED <<server, pod, current>>

(* pods.exec; a command without a terminal has a separate error stream.    *)
StartProcess(s) ==
    /\ sess[s].pc = "start"
    /\ server # "exited"
    /\ \/ /\ pod
          /\ \E tty \in BOOLEAN :
               sess' = [sess EXCEPT ![s].pc = IF s \in Shells THEN "loop" ELSE "announce",
                                    ![s].process = "runs", ![s].out = TRUE,
                                    ![s].err = s \in Commands /\ ~tty]
          /\ UNCHANGED free
       \/ End(s)
    /\ UNCHANGED <<server, pod, current>>

(* "started" is sent, unless the client is gone.                           *)
Announce(s) ==
    /\ sess[s].pc = "announce"
    /\ server # "exited"
    /\ \/ Go(s, "loop") /\ UNCHANGED free
       \/ End(s)
    /\ UNCHANGED <<server, pod, current>>
-----------------------------------------------------------------------------
(* The loops.  Output that is read is sent on at once.                     *)
Pending(s) == sess[s].process # "gone" /\ sess[s].got < sess[s].made
Ended(s) == sess[s].process \in {"exits", "gone"}

ReadOutput(s) ==
    /\ sess[s].pc = "loop"
    /\ server # "exited"
    /\ sess[s].out \/ sess[s].err
    /\ Pending(s)
    /\ sess' = [sess EXCEPT ![s].got = @ + 1]
    /\ UNCHANGED <<server, free, pod, current>>

(* A stream is at its end.  A shell and a forward stop there; a command    *)
(* goes on until both of its streams have ended.                           *)
EndOfStreamFirst(s) ==
    /\ sess[s].pc = "loop"
    /\ server # "exited"
    /\ Ended(s)
    /\ sess' = [sess EXCEPT ![s].out = FALSE, ![s].err = FALSE,
                            ![s].pc = IF s \in Forwards THEN "abort" ELSE "status"]
    /\ UNCHANGED <<server, free, pod, current>>
EndOfStream(s) ==
    /\ sess[s].pc = "loop"
    /\ server # "exited"
    /\ Ended(s) /\ ~Pending(s)
    /\ \E out, err \in BOOLEAN :
         /\ out => sess[s].out
         /\ err => sess[s].err
         /\ <<out, err>> # <<sess[s].out, sess[s].err>>
         /\ s \notin Commands => ~out
         /\ sess' = [sess EXCEPT ![s].out = out, ![s].err = err,
                                 ![s].pc = IF out \/ err THEN "loop"
                                           ELSE IF s \in Forwards THEN "abort" ELSE "status"]
    /\ UNCHANGED <<server, free, pod, current>>

(* The client closes, sends what is not understood, or cannot be reached,  *)
(* or the session's time is over.  A shell still waits for its status.     *)
ClientGone(s) ==
    /\ sess[s].pc = "loop"
    /\ server # "exited"
    /\ sess' = [sess EXCEPT ![s].out = FALSE, ![s].err = FALSE,
                            ![s].pc = IF s \in Shells THEN "status" ELSE "abort"]
    /\ UNCHANGED <<server, free, pod, current>>

(* The status of the process, or two seconds without one.                  *)
TakeStatus(s) ==
    /\ sess[s].pc = "status"
    /\ server # "exited"
    /\ \E result \in {sess[s].result, "none"} :
         sess' = [sess EXCEPT ![s].result = result,
                              ![s].pc = IF s \in Commands THEN "tell" ELSE "abort"]
    /\ UNCHANGED <<server, free, pod, current>>

(* ssh_exit_code fails closed: without a status it is 255.                 *)
ExitCodeOpen(result) == IF result = "failure" THEN "failure" ELSE "success"
ExitCode(result) == IF result = "success" THEN "success" ELSE "failure"
Tell(s) ==
    /\ sess[s].pc = "tell"
    /\ server # "exited"
    /\ \E code \in {ExitCode(sess[s].result), "none"} :
         sess' = [sess EXCEPT ![s].pc = "abort", ![s].code = code]
    /\ UNCHANGED <<server, free, pod, current>>

Abort(s) ==
    /\ sess[s].pc = "abort"
    /\ server # "exited"
    /\ End(s)
    /\ UNCHANGED <<server, pod, current>>
-----------------------------------------------------------------------------
(* The process writes (only a command's output is followed), and ends by   *)
(* itself, when its Pod goes, or with the stream to the kubelet.  Only its *)
(* own end leaves a status, after all of its output; what was under way is *)
(* lost with the Pod or the stream.                                        *)
Write(s) ==
    /\ s \in Commands
    /\ sess[s].process = "runs"
    /\ sess[s].made < MaxOutput
    /\ sess' = [sess EXCEPT ![s].made = @ + 1]
    /\ UNCHANGED <<server, free, pod, current>>

Finish(s) ==
    /\ sess[s].process = "runs"
    /\ \E ok \in IF s \in Commands THEN BOOLEAN ELSE {TRUE} :
         sess' = [sess EXCEPT ![s].process = "exits", ![s].succeeded = ok,
                              ![s].result = IF ok THEN "success" ELSE "failure"]
    /\ UNCHANGED <<server, free, pod, current>>

Break(s) ==
    /\ sess[s].process = "runs"
    /\ sess' = [sess EXCEPT ![s].process = "gone"]
    /\ UNCHANGED <<server, free, pod, current>>

PodChanges ==
    /\ pod' = ~pod
    /\ sess' = [s \in Sessions |->
          IF pod /\ sess[s].process = "runs"
            THEN [sess[s] EXCEPT !.process = "gone"] ELSE sess[s]]
    /\ UNCHANGED <<server, free, current>>

Supersede ==
    /\ current
    /\ current' = FALSE
    /\ UNCHANGED <<server, free, pod, sess>>
-----------------------------------------------------------------------------
(* shutdown_signal.                                                        *)
Signal ==
    /\ server = "serving"
    /\ server' = "draining"
    /\ UNCHANGED <<free, pod, current, sess>>

(* axum's graceful shutdown: no request is left; upgraded ones are not     *)
(* its concern.                                                            *)
HttpDone ==
    /\ server = "draining"
    /\ \A s \in Sessions : sess[s].pc \notin Http
    /\ server' = "drained"
    /\ UNCHANGED <<free, pod, current, sess>>

(* wait_for_exec_sessions, and the end of the process.                     *)
ExitAtOnce ==
    /\ server = "drained"
    /\ server' = "exited"
    /\ UNCHANGED <<free, pod, current, sess>>
WaitForSessions ==
    /\ server = "drained"
    /\ free = Permits
    /\ server' = "exited"
    /\ UNCHANGED <<free, pod, current, sess>>

Init ==
    /\ server = "serving"
    /\ free = Permits
    /\ pod = TRUE
    /\ current = TRUE
    /\ sess = [s \in Sessions |-> NoSession]

Admit(s) ==
    \/ Scope(s) \/ CheckPod(s) \/ TakePermit(s) \/ CheckDraining(s)
Task(s) ==
    \/ Upgrade(s) \/ FirstMessage(s) \/ StartProcess(s) \/ Announce(s)
    \/ ReadOutput(s) \/ EndOfStream(s) \/ TakeStatus(s) \/ Tell(s) \/ Abort(s)

Next ==
    \/ \E s \in Sessions :
          \/ Arrive(s) \/ Admit(s) \/ Task(s) \/ ClientGone(s)
          \/ Write(s) \/ Finish(s) \/ Break(s)
    \/ PodChanges \/ Supersede
    \/ Signal \/ HttpDone \/ WaitForSessions

ESpec == Init /\ [][Next]_evars

(* The runtime runs every request and every task on; a session that does   *)
(* not end by itself is ended by its timer (ClientGone).  Nothing else of  *)
(* the outside world is fair.                                              *)
EFairSpec ==
    /\ ESpec
    /\ \A s \in Sessions :
          /\ WF_evars(Admit(s))
          /\ WF_evars(Task(s))
          /\ WF_evars(ClientGone(s))
    /\ WF_evars(HttpDone) /\ WF_evars(WaitForSessions)
-----------------------------------------------------------------------------
SessionRecords ==
    [pc : Http \cup Owns \cup {"new", "refused", "over"},
     process : {"none", "runs", "exits", "gone"}, made : 0..MaxOutput, got : 0..MaxOutput,
     out : BOOLEAN, err : BOOLEAN, succeeded : BOOLEAN,
     result : {"none", "success", "failure"}, code : {"none", "success", "failure"}]

(* The pool never holds more permits than it was given, and every session   *)
(* is at a step of its handler or task.                                    *)
ETypeOK ==
    /\ server \in {"serving", "draining", "drained", "exited"}
    /\ free \in 0..Permits
    /\ pod \in BOOLEAN /\ current \in BOOLEAN
    /\ sess \in [Sessions -> SessionRecords]

(* The process never exits under a live session: a request that was let in *)
(* before the signal is not cut off by a shutdown that only waits for HTTP.*)
NoSessionCutOff ==
    server = "exited" =>
        \A s \in Sessions : sess[s].pc \in {"new", "refused", "over"}

(* No process is left running in a Pod by a session that is over, however  *)
(* it ended, so that the pool's limit also bounds the processes.           *)
NoProcessLeft ==
    /\ \A s \in Sessions : sess[s].process = "runs" => sess[s].pc \in Owns
    /\ Cardinality({s \in Sessions : sess[s].process = "runs"}) <= Permits - free

(* An SSH client that is told success has received all output of a process *)
(* that succeeded, whatever broke or timed out on the way.                 *)
SuccessIsComplete ==
    \A s \in Commands :
        sess[s].code = "success" => sess[s].succeeded /\ sess[s].got = sess[s].made

(* A shutdown ends: no session, refused request or late one keeps it.      *)
ShutdownEnds == (server = "draining") ~> (server = "exited")
=============================================================================
