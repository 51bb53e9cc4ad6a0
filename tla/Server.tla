------------------------------- MODULE Server -------------------------------
(***************************************************************************)
(* fabric_shim/server.py: start, called one or several times in a process, *)
(* and what becomes of the connections when an interrupt ends it.          *)
(*                                                                         *)
(* start runs the event loop of the process until a KeyboardInterrupt.     *)
(* Its finally clause then gathers the shutdown coroutines of a list that  *)
(* belongs to the module, not to the call, and closes the loop.  A         *)
(* connection is one of module Connection, which Handler implements.       *)
(***************************************************************************)
EXTENDS Naturals

CONSTANTS Conn,     \* connections of peers, each made once
          Calls,    \* calls of start: the settings given, those of the environment,
                    \* and the kind of chaincode
          Starts,   \* bound on the servers made
          MaxBusy   \* bound on the tasks of a connection

ASSUME BoundsAssumption == Starts \in Nat \ {0} /\ MaxBusy \in Nat

VARIABLES
  phase,    \* of the call of start: see Phases
  last,     \* how the last call ended
  n,        \* calls that have got as far as making a server
  loop,     \* the event loop of the process
  frozen,   \* servers whose loop is closed
  cleanup,  \* _cleanup_coroutines: the coroutine of a server
  status,   \* of a server
  elapsed,  \* servers whose grace period is over
  of,       \* the server that accepted a connection, 0 before
  life, busy,  \* of a connection: see Connection
  cut       \* why gRPC has ended a connection's RPC before its coroutine returned

process == <<phase, last, n, loop, frozen>>
servers == <<cleanup, status, elapsed>>
links == <<of, life, busy, cut>>
vars == <<process, servers, links>>

Servers == 1 .. Starts
Phases == {"idle", "starting", "serving", "stopping"}

Link(c) == INSTANCE Connection WITH life <- life[c], busy <- busy[c]
Lives == {"none", "open", "draining", "closed", "dropped"}

TypeOK ==
  /\ phase \in Phases /\ last \in {"none", "raised", "interrupted"}
  /\ n \in 0 .. Starts /\ loop \in {"open", "closed"} /\ frozen \in SUBSET Servers
  /\ cleanup \in [Servers -> {"none", "fresh", "used"}]
  /\ status \in [Servers -> {"none", "running", "stopping", "stopped"}]
  /\ elapsed \in SUBSET Servers
  /\ of \in [Conn -> 0 .. Starts]
  /\ life \in [Conn -> Lives] /\ busy \in [Conn -> 0 .. MaxBusy]
  /\ cut \in [Conn -> {"no", "peer", "grace", "nil"}]

Init ==
  /\ phase = "idle" /\ last = "none" /\ n = 0 /\ loop = "open" /\ frozen = {}
  /\ cleanup = [k \in Servers |-> "none"] /\ status = [k \in Servers |-> "none"]
  /\ elapsed = {}
  /\ of = [c \in Conn |-> 0] /\ life = [c \in Conn |-> "none"]
  /\ busy = [c \in Conn |-> 0] /\ cut = [c \in Conn |-> "no"]

(***************************************************************************)
(* start, up to the event loop                                             *)
(***************************************************************************)

\* `os.getenv(name, argument)`: a variable that is set hides the argument, also
\* when it is empty.
Given(call, name) == IF name \in call.unset THEN name \in call.given ELSE name \notin call.empty

\* A subclass of Chaincode that can be instantiated, or an instance of one.
Usable(cc) == cc \in {"class", "instance"}

Accepted(call) == Given(call, "id") /\ Given(call, "address") /\ Usable(call.cc)

\* start raises before it has made or changed anything.
StartRefused(call) ==
  /\ phase = "idle" /\ ~Accepted(call)
  /\ last' = "raised"
  /\ UNCHANGED <<phase, n, loop, frozen, servers, links>>

\* _internal_server raises: the address cannot be bound, or the TLS files are bad.
BindFails(call) ==
  /\ phase = "idle" /\ Accepted(call)
  /\ last' = "raised"
  /\ UNCHANGED <<phase, n, loop, frozen, servers, links>>

\* run_until_complete raises on the loop an earlier call has closed, and gather
\* raises again in the finally clause.
StartOnClosedLoop(call) ==
  /\ phase = "idle" /\ Accepted(call) /\ loop = "closed"
  /\ last' = "raised"
  /\ UNCHANGED <<phase, n, loop, frozen, servers, links>>

StartRuns(call) ==
  /\ phase = "idle" /\ Accepted(call) /\ loop = "open" /\ n < Starts
  /\ phase' = "starting"
  /\ n' = n + 1
  /\ UNCHANGED <<last, loop, frozen, servers, links>>

\* Mutant: the shutdown joins the list after wait_for_termination.
ServerStarts_Late ==
  /\ phase = "starting"
  /\ phase' = "serving"
  /\ status' = [status EXCEPT ![n] = "running"]
  /\ UNCHANGED <<last, n, loop, frozen, cleanup, elapsed, links>>
\* _internal_start: the server accepts RPCs and its shutdown joins the list.
ServerStarts ==
  /\ phase = "starting"
  /\ phase' = "serving"
  /\ status' = [status EXCEPT ![n] = "running"]
  /\ cleanup' = [cleanup EXCEPT ![n] = "fresh"]
  /\ UNCHANGED <<last, n, loop, frozen, elapsed, links>>

(***************************************************************************)
(* KeyboardInterrupt and the finally clause                                *)
(***************************************************************************)

\* The call ends and the loop with it: nothing on it runs again.
CloseLoop ==
  /\ phase' = "idle" /\ last' = "interrupted"
  /\ loop' = "closed"
  /\ frozen' = 1 .. n

\* Every coroutine of the list is awaited and stays in it.
Awaited(co) == IF co = "fresh" THEN "used" ELSE co

\* server_graceful_shutdown starts: no RPC is accepted any more.
StopBegins ==
  /\ status' = [k \in Servers |-> IF cleanup[k] = "fresh" THEN "stopping" ELSE status[k]]
  /\ cleanup' = [k \in Servers |-> Awaited(cleanup[k])]

\* With an empty list the loop is closed at once.  A coroutine that an earlier
\* call has awaited makes gather raise: the loop is neither run nor closed.
Interrupt ==
  /\ phase \in {"starting", "serving"}
  /\ IF \A k \in Servers : cleanup[k] = "none" THEN CloseLoop /\ UNCHANGED <<cleanup, status>>
     ELSE IF \E k \in Servers : cleanup[k] = "used"
       THEN /\ StopBegins
            /\ phase' = "idle" /\ last' = "raised"
            /\ UNCHANGED <<loop, frozen>>
       ELSE /\ StopBegins
            /\ phase' = "stopping"
            /\ UNCHANGED <<last, loop, frozen>>
  /\ UNCHANGED <<n, elapsed, links>>

\* The exception leaves the finally clause before loop.close().
InterruptedAgain ==
  /\ phase = "stopping"
  /\ phase' = "idle" /\ last' = "interrupted"
  /\ UNCHANGED <<n, loop, frozen, servers, links>>

\* External: the application installs a loop after one has been closed.
NewLoop ==
  /\ phase = "idle" /\ loop = "closed"
  /\ loop' = "open"
  /\ UNCHANGED <<phase, last, n, frozen, servers, links>>

(***************************************************************************)
(* server.stop(3) goes on while a loop with the server's tasks runs.       *)
(***************************************************************************)
Runs(k) == phase # "idle" /\ k \in 1 .. n \ frozen

Unended(c) == life[c] \in {"open", "draining"}
Rpcs(k) == {c \in Conn : of[c] = k /\ Unended(c) /\ cut[c] = "no"}

\* External: three seconds pass.
GraceElapses(k) ==
  /\ Runs(k) /\ status[k] = "stopping" /\ k \notin elapsed
  /\ elapsed' = elapsed \cup {k}
  /\ UNCHANGED <<process, cleanup, status, links>>

\* Mutant: the stop waits for the RPCs without a limit.
MayCancel_Never(k) == FALSE
\* Mutant: the stop cancels the RPCs at once.
MayCancel_AtOnce(k) == TRUE
\* The RPCs are cancelled once the grace period is over.
MayCancel(k) == k \in elapsed

CancelRpcs(k) ==
  /\ Runs(k) /\ status[k] = "stopping" /\ MayCancel(k) /\ Rpcs(k) # {}
  /\ cut' = [c \in Conn |-> IF c \in Rpcs(k) THEN "grace" ELSE cut[c]]
  /\ UNCHANGED <<process, servers, of, life, busy>>

\* stop returns when no RPC lives, and the gather that waits for it with it.  The
\* coroutine of an RPC that was cut off may not have noticed.
StopEnds(k) ==
  /\ Runs(k) /\ status[k] = "stopping" /\ Rpcs(k) = {}
  /\ status' = [status EXCEPT ![k] = "stopped"]
  /\ IF phase = "stopping" /\ k = n THEN CloseLoop ELSE UNCHANGED <<phase, last, loop, frozen>>
  /\ UNCHANGED <<n, cleanup, elapsed, links>>

(***************************************************************************)
(* The connections.                                                        *)
(***************************************************************************)
Move(c, l, b) == life' = [life EXCEPT ![c] = l] /\ busy' = [busy EXCEPT ![c] = b]
Moves(c) == \E l \in Lives, b \in 0 .. MaxBusy : Move(c, l, b)

\* A peer connects: ChaincodeService.Connect makes a Handler.
Accept(c) ==
  /\ n > 0 /\ Runs(n) /\ status[n] = "running"
  /\ Moves(c) /\ Link(c)!Accept
  /\ of' = [of EXCEPT ![c] = n]
  /\ UNCHANGED <<process, servers, cut>>

\* The connection's coroutine or one of its tasks runs.
Works(c) ==
  /\ Runs(of[c])
  /\ Moves(c) /\ (Link(c)!Begin \/ Link(c)!End \/ Link(c)!Drain \/ Link(c)!Close)
  /\ UNCHANGED <<process, servers, of, cut>>

\* External: the peer breaks the connection.
PeerBreaks(c) ==
  /\ Unended(c) /\ cut[c] = "no"
  /\ cut' = [cut EXCEPT ![c] = "peer"]
  /\ UNCHANGED <<process, servers, of, life, busy>>

\* gRPC cancels the coroutine of an RPC it has ended; Connect swallows it.
Cancelled(c) ==
  /\ Runs(of[c]) /\ cut[c] # "no"
  /\ Moves(c) /\ Link(c)!Drop
  /\ UNCHANGED <<process, servers, of, cut>>

\* chat_with_peer returns on a nil message, its tasks not awaited.
NilEnds(c) ==
  /\ Runs(of[c]) /\ life[c] = "open" /\ cut[c] = "no"
  /\ Moves(c) /\ Link(c)!Drop
  /\ cut' = [cut EXCEPT ![c] = "nil"]
  /\ UNCHANGED <<process, servers, of>>

(***************************************************************************)
(* The specification.                                                      *)
(***************************************************************************)
Next ==
  \/ \E call \in Calls : \/ StartRefused(call) \/ BindFails(call)
                         \/ StartOnClosedLoop(call) \/ StartRuns(call)
  \/ ServerStarts
  \/ Interrupt
  \/ InterruptedAgain
  \/ NewLoop
  \/ \E k \in Servers : GraceElapses(k) \/ CancelRpcs(k) \/ StopEnds(k)
  \/ \E c \in Conn : Accept(c) \/ Works(c) \/ PeerBreaks(c) \/ Cancelled(c) \/ NilEnds(c)

Spec == Init /\ [][Next]_vars

\* Time passes and gRPC shuts a server down while the loop runs.
FairSpec ==
  /\ Spec
  /\ \A k \in Servers : WF_vars(GraceElapses(k)) /\ WF_vars(CancelRpcs(k)) /\ WF_vars(StopEnds(k))

(***************************************************************************)
(* Properties.                                                             *)
(***************************************************************************)

\* "Shuts down the server with 3 seconds of grace period": the loop is closed
\* under no invocation, unless its peer broke the connection, its own handler
\* gave it up, or the grace period was over (server.py:98-106, 150-155).
ClosedAfterGrace ==
  \A c \in Conn : of[c] \in frozen /\ (Unended(c) \/ busy[c] > 0)
                    => \/ cut[c] \in {"peer", "nil"}
                       \/ cut[c] = "grace" /\ of[c] \in elapsed

\* A call that closes the loop leaves nothing of the process's servers on it: none
\* that still listens or is being shut down, whatever interrupts and earlier calls
\* there were (server.py:99-105, 153-155).
StoppedBeforeClosed == \A k \in frozen : status[k] \in {"none", "stopped"}

\* An interrupted server ends, though an invocation waits for ever and its peer
\* neither answers nor goes (server.py:98-106, 153-155).
InterruptEnds == phase = "stopping" ~> phase = "idle"

\* "Coroutines to be invoked when the event loop is shutting down" (server.py:17):
\* a call of start that serves is never over before the shutdown of its server
\* has been waited for, when the calls before it have ended with their loops closed.
\* The list is never emptied, so a second call gathers a coroutine that was awaited
\* before, and that raises (server.py:105, 153-154).
ShutdownWaited == [][phase = "serving" /\ 1 .. n - 1 \subseteq frozen => phase' # "idle"]_vars
=============================================================================
